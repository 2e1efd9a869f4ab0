------------------------------- MODULE FileOps ------------------------------
(***************************************************************************)
(* Pieces and chunks over the files of a torrent (file_ops.rs): the walk   *)
(* from a position in the torrent to places in files, which reading,       *)
(* writing and checking each do for themselves, and the initial check,     *)
(* which walks once over everything.  Files may be empty, padding (no file *)
(* on disk, all zeros), short, or missing (a storage opened read-only      *)
(* leaves them out).                                                       *)
(*                                                                         *)
(* A byte on disk is right or wrong; a hash matches when exactly the right *)
(* bytes were fed to it.                                                   *)
(***************************************************************************)
EXTENDS Integers, Sequences, FiniteSets, SequencesExt

CONSTANTS Layouts,   \* torrents: sequences of [len, padding]
          PieceLen,  \* the length of a piece, and of a chunk
          ReadOnly,
          MaxWrites, MaxLosses  \* bounds

VARIABLES files,    \* file_infos
          size,     \* the length of each file on disk, -1 for none
          right,    \* the places <<file, offset>> that hold what the torrent says
          have,     \* what the last initial check found
          checked,  \* the disk is as the last check saw it
          writes, losses

vars == <<files, size, right, have, checked, writes, losses>>

Ids == DOMAIN files
Padding(f) == files[f].padding
TotalOf(fs) == FoldSeq(LAMBDA fi, n : fi.len + n, 0, fs)
Total == TotalOf(files)
Pieces == 0..(((Total + PieceLen - 1) \div PieceLen) - 1)
LenOf(p) == IF (p + 1) * PieceLen <= Total THEN PieceLen ELSE Total - p * PieceLen
Least(a, b) == IF a < b THEN a ELSE b

----------------------------------------------------------------------------
\* The loop of check_piece, read_chunk and write_chunk from file f on: it skips a file when the
\* position lies behind its end, and does an empty operation when it lies at its end.
RECURSIVE Walk(_, _, _)
\* A mutant: the position is kept for the next file.
RECURSIVE WalkKeeps(_, _, _)
WalkKeeps(f, offset, n) ==
    IF f > Len(files) THEN <<>>
    ELSE IF offset > files[f].len THEN WalkKeeps(f + 1, offset - files[f].len, n)
    ELSE LET k == Least(files[f].len - offset, n) IN
         <<[file |-> f, pos |-> offset, len |-> k]>> \o (IF n = k THEN <<>> ELSE WalkKeeps(f + 1, offset, n - k))

Walk(f, offset, n) ==
    IF f > Len(files) THEN <<>>
    ELSE IF offset > files[f].len THEN Walk(f + 1, offset - files[f].len, n)
    ELSE LET k == Least(files[f].len - offset, n) IN
         <<[file |-> f, pos |-> offset, len |-> k]>> \o (IF n = k THEN <<>> ELSE Walk(f + 1, 0, n - k))

Spans(p) == Walk(1, p * PieceLen, LenOf(p))
PlacesIn(s) == {<<s.file, s.pos + i>> : i \in 0..(s.len - 1)}
Places(p) == UNION {PlacesIn(Spans(p)[i]) : i \in DOMAIN Spans(p)}

\* pread_exact: an error without an open file, or past its end.
PreadFails(s) == size[s.file] = -1 \/ (s.len > 0 /\ s.pos + s.len > size[s.file])

\* update_hash_from_file: zeros for padding, nothing at all for an empty range.
HashFails(s) == s.len > 0 /\ ~Padding(s.file) /\ PreadFails(s)
Feeds(s) == \A pl \in PlacesIn(s) : Padding(s.file) \/ pl \in right

\* check_piece: an error, a hash that does not match, or one that does.
CheckPiece(p) ==
    LET ss == Spans(p) IN
    IF \E i \in DOMAIN ss : HashFails(ss[i]) THEN "error"
    ELSE IF \A i \in DOMAIN ss : Feeds(ss[i]) THEN "match" ELSE "mismatch"

\* read_chunk: the file is asked even for an empty range.
ReadChunkFails(p) ==
    LET ss == Spans(p) IN \E i \in DOMAIN ss : ~Padding(ss[i].file) /\ PreadFails(ss[i])

----------------------------------------------------------------------------
\* The scan of initial_check: [file, pos] is the current file and what was processed of it;
\* broken says that a read of it failed before.  Of a piece it gives what is left to read (n),
\* whether a read failed for this piece, and whether all that was due was fed.
NextFile(s) == [s EXCEPT !.file = @ + 1, !.pos = 0, !.broken = FALSE]
RECURSIVE ScanPiece(_, _)
ScanPiece(s, n) ==
    IF n = 0 THEN s
    ELSE LET k == Least(files[s.file].len - s.pos, n)
             r == [file |-> s.file, pos |-> s.pos, len |-> k] IN
         IF k = 0 THEN ScanPiece(NextFile(s), n)
         ELSE IF s.broken THEN ScanPiece([s EXCEPT !.pos = @ + k, !.fed = FALSE], n - k)
         ELSE IF HashFails(r) THEN ScanPiece([s EXCEPT !.pos = @ + k, !.broken = TRUE, !.failed = TRUE], n - k)
         ELSE ScanPiece([s EXCEPT !.pos = @ + k, !.fed = @ /\ Feeds(r)], n - k)

RECURSIVE Scan(_, _)
Scan(p, s) ==
    IF p \notin Pieces THEN {}
    ELSE LET t == ScanPiece([s EXCEPT !.failed = FALSE, !.fed = TRUE], LenOf(p)) IN
         (IF t.failed \/ ~t.fed THEN {} ELSE {p}) \cup Scan(p + 1, t)

Found == Scan(0, [file |-> 1, pos |-> 0, broken |-> FALSE, failed |-> FALSE, fed |-> TRUE])

InitialCheck ==
    /\ have' = Found /\ checked' = TRUE
    /\ UNCHANGED <<files, size, right, writes, losses>>

\* write_chunk, with what a peer sent: right or not.
WriteChunk(p) ==
    /\ ~ReadOnly /\ writes < MaxWrites /\ writes' = writes + 1
    /\ LET ss == {Spans(p)[i] : i \in DOMAIN Spans(p)}
           to == {s \in ss : ~Padding(s.file)}
           end(f) == {s.pos + s.len : s \in {x \in to : x.file = f /\ x.len > 0}} IN
       /\ size' = [f \in Ids |-> IF \E e \in end(f) : e > size[f] THEN CHOOSE e \in end(f) : TRUE ELSE size[f]]
       /\ \E good \in BOOLEAN :
             LET pl == UNION {PlacesIn(s) : s \in to} IN right' = IF good THEN right \cup pl ELSE right \ pl
    /\ checked' = FALSE
    /\ UNCHANGED <<files, have, losses>>

\* The storage opens its files (FilesystemStorage::init), over what is there; then somebody may shorten one.
Opened(fs, f, n) == IF fs[f].padding THEN -1 ELSE IF n = -1 /\ ~ReadOnly THEN 0 ELSE n
Lose(f) ==
    /\ losses < MaxLosses /\ losses' = losses + 1
    /\ size[f] > 0
    /\ \E n \in 0..(size[f] - 1) :
          /\ size' = [size EXCEPT ![f] = n]
          /\ right' = {pl \in right : pl[1] # f \/ pl[2] < n}
    /\ checked' = FALSE
    /\ UNCHANGED <<files, have, writes>>

Init ==
    /\ files \in Layouts
    /\ \E there \in [Ids -> BOOLEAN] :
          /\ size = [f \in Ids |-> Opened(files, f, IF there[f] THEN files[f].len ELSE -1)]
          /\ right = {<<f, i>> \in Ids \X (0..9) : ~Padding(f) /\ there[f] /\ i < files[f].len}
    /\ have = {} /\ checked = FALSE /\ writes = 0 /\ losses = 0

Next ==
    \/ InitialCheck
    \/ \E p \in Pieces : WriteChunk(p)
    \/ \E f \in Ids : Lose(f)

Spec == Init /\ [][Next]_vars

----------------------------------------------------------------------------
\* Where the bytes of a piece lie, from the definition: files one after the other.
Before(f) == TotalOf(SubSeq(files, 1, f - 1))
Belongs(p) == {<<f, i>> \in Ids \X (0..9) : i < files[f].len /\ (Before(f) + i) \div PieceLen = p}
Intact(p) == \A pl \in Belongs(p) : Padding(pl[1]) \/ (pl[2] < size[pl[1]] /\ pl \in right)

\* A piece is read, written and checked at exactly its own places, over empty and
\* padding files and across the ends of files; the initial check of a disk finds
\* exactly the intact pieces, even after a file that could not be read, and
\* check_piece agrees with it, piece by piece.
PiecesAreWhereTheyBelong ==
    /\ \A p \in Pieces : Places(p) = Belongs(p) /\ (CheckPiece(p) = "match" <=> Intact(p))
    /\ checked => have = {p \in Pieces : Intact(p)}

\* A piece that the check found can be read and sent to a peer.
FoundIsReadable == checked => \A p \in have : ~ReadChunkFails(p)
=============================================================================
