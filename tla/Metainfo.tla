------------------------------- MODULE Metainfo -------------------------------
(* Torrent files: creating one from a directory (create_torrent_file.rs), what   *)
(* is accepted of one (TorrentMetaV1Info::validate), where its files and pieces  *)
(* lie (Lengths), and the magnet link that names it. The checksum of some bytes  *)
(* is the sequence of those bytes; a byte of the content is <<file, position>>.  *)
EXTENDS Integers, Sequences, SequencesExt, FiniteSets

CONSTANTS Trees,       \* the directories: sequences of [path, len]
          PieceLength, ReadSize, ChunkSize,
          Extra,       \* torrents made elsewhere, as Info records
          Selections   \* so= lists of a magnet: <<n>> a file, <<a, b>> a range, <<>> junk

VARIABLES tree,        \* what is on disk
          pc, file, pos, remaining, checksum, hashes, length, outFiles,
          info,        \* the torrent: what was created or given
          verdict,     \* what validate said
          link         \* the selection of the magnet link

vars == <<tree, pc, file, pos, remaining, checksum, hashes, length, outFiles, info, verdict, link>>

SumTo(s, n) == FoldLeft(LAMBDA a, i : a + s[i].len, 0, [i \in 1 .. n |-> i])
Total(s) == SumTo(s, Len(s))
DivCeil(a, b) == (a + b - 1) \div b
Least(a, b) == IF a < b THEN a ELSE b

------------------------------------------------------------------------------
(* Lengths.                                                                    *)

TotalPieces(n) == DivCeil(n, PieceLength)
LastElementSize(n, unit) == IF n % unit = 0 THEN unit ELSE n % unit
PieceLen(n, p) == IF p = TotalPieces(n) - 1 THEN LastElementSize(n, PieceLength) ELSE PieceLength
ChunksPerPiece(n, p) == DivCeil(PieceLen(n, p), ChunkSize)
TotalChunks(n) == (TotalPieces(n) - 1) * DivCeil(PieceLength, ChunkSize) + ChunksPerPiece(n, TotalPieces(n) - 1)
ChunkLen(n, p, c) == LET last == DivCeil(PieceLen(n, p), ChunkSize) - 1
                     IN  CASE c < last -> {ChunkSize}
                           [] c = last -> {LastElementSize(PieceLen(n, p), ChunkSize)}
                           [] OTHER -> {}

(* The chunk that some received bytes are, if they are one.                    *)
ChunkInfoFromReceivedData(n, p, begin, size) ==
    LET c == begin \div ChunkSize
    IN  IF c * ChunkSize = begin /\ ChunkLen(n, p, c) = {size}
        THEN {[chunk |-> c, absolute |-> DivCeil(PieceLength, ChunkSize) * p + c]} ELSE {}

(* The piece a position of a file falls into, and what is left of it.          *)
ComputeCurrentPiece(n, off, filePos) ==
    LET at == off + filePos
        p == at \div PieceLength
    IN  IF p > TotalPieces(n) - 1 THEN {} ELSE {[id |-> p, left |-> PieceLen(n, p) - (at % PieceLength)]}

PiecesWithinOffset(n, off, len) ==
    LET o == Least(off, n)
        e == Least(o + len, n)
    IN  o \div PieceLength .. (IF e = o THEN o \div PieceLength ELSE DivCeil(e, PieceLength)) - 1

------------------------------------------------------------------------------
(* Reading the directory.                                                      *)

NoInfo == [files |-> {}, single |-> {}, hashes |-> <<>>]

Init == /\ tree \in Trees /\ link = <<>>
        /\ pc = "open" /\ file = 1 /\ pos = 0 /\ remaining = PieceLength /\ checksum = <<>>
        /\ hashes = <<>> /\ length = 0 /\ outFiles = <<>> /\ info = NoInfo /\ verdict = "none"

Open == /\ pc = "open" /\ file <= Len(tree)
        /\ pc' = "read" /\ pos' = 0 /\ length' = 0
        /\ UNCHANGED <<tree, file, remaining, checksum, hashes, outFiles, info, verdict, link>>

(* A read returns what it can, up to the end of the piece; a full piece is     *)
(* closed at once.                                                             *)
Read == /\ pc = "read" /\ pos < tree[file].len
        /\ \E size \in 1 .. Least(Least(remaining, ReadSize), tree[file].len - pos) :
              LET sum == checksum \o [i \in 1 .. size |-> <<file, pos + i - 1>>]
                  closes == remaining = size
              IN  /\ pos' = pos + size /\ length' = length + size
                  /\ checksum' = IF closes THEN <<>> ELSE sum
                  /\ hashes' = IF closes THEN Append(hashes, sum) ELSE hashes
                  /\ remaining' = IF closes THEN PieceLength ELSE remaining - size
        /\ UNCHANGED <<tree, pc, file, outFiles, info, verdict, link>>

EndOfFile == /\ pc = "read" /\ pos = tree[file].len
             /\ outFiles' = Append(outFiles, [path |-> tree[file].path, len |-> length])
             /\ file' = file + 1 /\ pc' = "open"
             /\ UNCHANGED <<tree, pos, remaining, checksum, hashes, length, info, verdict, link>>

(* The last piece is closed when the LAST FILE had any bytes.                  *)
LastPieceNever == hashes
LastPiece == IF remaining > 0 /\ length > 0 THEN Append(hashes, checksum) ELSE hashes
Finish == /\ pc = "open" /\ file > Len(tree)
          /\ info' = [files |-> IF Len(tree) = 1 /\ tree[1].path = <<>> THEN {} ELSE {outFiles},
                      single |-> IF Len(tree) = 1 /\ tree[1].path = <<>> THEN {length} ELSE {},
                      hashes |-> LastPiece]
          /\ pc' = "created"
          /\ UNCHANGED <<tree, file, pos, remaining, checksum, hashes, length, outFiles, verdict, link>>

(* A torrent that somebody else made, with a link that selects files of it.    *)
Given == /\ pc = "open" /\ file = 1 /\ info' \in Extra /\ link' \in Selections /\ pc' = "given"
         /\ tree' = <<>>
         /\ UNCHANGED <<file, pos, remaining, checksum, hashes, length, outFiles, verdict>>

------------------------------------------------------------------------------
(* Validation.                                                                 *)

(* iter_file_details_raw: one file, or some files, never both.                 *)
FileDetails(t) == CASE t.single # {} /\ t.files = {} -> {<<[path |-> <<"name">>, len |-> CHOOSE n \in t.single : TRUE]>>}
                    [] t.single = {} /\ t.files # {} -> {fs \in t.files : fs # <<>>}
                    [] OTHER -> {}

(* A path as PathBuf compares it: an empty component adds nothing, nor does a   *)
(* dot, except one that leads.                                                 *)
Named(path) == SelectSeq(path, LAMBDA c : c # "")
Resolved(path) == LET p == Named(path) IN SubSeq(p, 1, 1) \o SelectSeq(SubSeq(p, 2, Len(p)), LAMBDA c : c # ".")
BadComponent(c) == c \in {"..", "a/b"}
SafeNamesAsWritten(fs) == /\ \A i \in DOMAIN fs : Named(fs[i].path) # <<>> /\ \A j \in DOMAIN fs[i].path : ~BadComponent(fs[i].path[j])
                          /\ Cardinality({fs[i].path : i \in DOMAIN fs}) = Len(fs)
SafeNames(fs) == /\ \A i \in DOMAIN fs : Named(fs[i].path) # <<>> /\ \A j \in DOMAIN fs[i].path : ~BadComponent(fs[i].path[j])
                 /\ Cardinality({Resolved(fs[i].path) : i \in DOMAIN fs}) = Len(fs)

Accepted(t) == /\ t.hashes # <<>>
               /\ FileDetails(t) # {}
               /\ \A fs \in FileDetails(t) : Total(fs) > 0 /\ SafeNames(fs)

Validate == /\ pc \in {"created", "given"}
            /\ verdict' = IF Accepted(info) THEN "ok" ELSE "refused"
            /\ pc' = IF pc = "created" THEN "done" ELSE "judged"
            /\ UNCHANGED <<tree, file, pos, remaining, checksum, hashes, length, outFiles, info, link>>

(* iter_file_details_ext: offsets and pieces of the files of a valid torrent.  *)
Details(t) == CHOOSE fs \in FileDetails(t) : TRUE
OffsetOf(fs, i) == SumTo(fs, i - 1)
PiecesOf(fs, i) == PiecesWithinOffset(Total(fs), OffsetOf(fs, i), fs[i].len)
GetHash(t, p) == IF p < Len(t.hashes) THEN {t.hashes[p + 1]} ELSE {}

------------------------------------------------------------------------------
(* The magnet link: `so` as it is parsed, and as it is written again.          *)
ParseSo(so) == FoldLeft(LAMBDA s, d : s \o CASE Len(d) = 1 -> d
                                             [] Len(d) = 2 -> [i \in 1 .. d[2] - d[1] + 1 |-> d[1] + i - 1]
                                             [] OTHER -> <<>>, <<>>, so)
PrintSo(files) == [i \in DOMAIN files |-> <<files[i]>>]

Done == pc \in {"done", "judged"} /\ UNCHANGED vars

Next == Open \/ Read \/ EndOfFile \/ Finish \/ Given \/ Validate \/ Done

Spec == Init /\ [][Next]_vars

------------------------------------------------------------------------------
(* The content as one row of bytes, and what its pieces are.                   *)
Content == FoldLeft(LAMBDA s, i : s \o [k \in 1 .. tree[i].len |-> <<i, k - 1>>], <<>>, [i \in DOMAIN tree |-> i])
PieceOf(p) == SubSeq(Content, p * PieceLength + 1, Least((p + 1) * PieceLength, Len(Content)))

\* A created torrent is accepted when its content fills a piece or its last file is not
\* empty, its files are those of the directory with the lengths that were read, and the hash of each piece is that of its
\* bytes whatever sizes the reads had. The last piece has one when the last file is not
\* empty (create_torrent_raw looks at the length of the last file only).
CreatedIsRight ==
    pc = "done" =>
      LET n == Len(Content)
          last == tree[Len(tree)]
      IN  /\ (n >= PieceLength \/ last.len > 0) <=> verdict = "ok"
          /\ verdict = "ok" => /\ [i \in DOMAIN Details(info) |-> Details(info)[i].len] = [i \in DOMAIN tree |-> tree[i].len]
                               /\ \A p \in 0 .. TotalPieces(n) - 1 :
                                     p < TotalPieces(n) - 1 \/ last.len > 0 => GetHash(info, p) = {PieceOf(p)}

OnDisk(path) == SelectSeq(path, LAMBDA c : c \notin {"", "."})
DotLeads(path) == Named(path)[1] = "."

\* What is accepted can be laid out: no two files share a path on disk (unless one begins
\* with a dot, which PathBuf takes for a difference), the files cover the content without
\* overlap, each piece range of a file holds exactly the pieces its bytes fall into, and the chunks cut each piece without a gap, with
\* one number each over the whole torrent.
AcceptedIsSound ==
    verdict = "ok" =>
      LET fs == Details(info)
          n == Total(fs)
          chunks == {<<p, c>> \in (0 .. TotalPieces(n) - 1) \X (0 .. PieceLength) : ChunkLen(n, p, c) # {}}
          number(x) == CHOOSE k \in 0 .. TotalChunks(n) : \E y \in ChunkInfoFromReceivedData(n, x[1], x[2] * ChunkSize,
                                 CHOOSE s \in ChunkLen(n, x[1], x[2]) : TRUE) : y.absolute = k
      IN  /\ \A i, j \in DOMAIN fs : i # j /\ ~DotLeads(fs[i].path) /\ ~DotLeads(fs[j].path) => OnDisk(fs[i].path) # OnDisk(fs[j].path)
          /\ \A i \in DOMAIN fs : PiecesOf(fs, i) =
                {p \in 0 .. TotalPieces(n) - 1 : \E b \in OffsetOf(fs, i) .. OffsetOf(fs, i) + fs[i].len - 1 :
                    b \div PieceLength = p}
          /\ \A i \in DOMAIN fs : \A k \in 0 .. fs[i].len - 1 :
                \A cur \in ComputeCurrentPiece(n, OffsetOf(fs, i), k) :
                   cur.id \in PiecesOf(fs, i) /\ cur.left \in 1 .. PieceLen(n, cur.id)
          /\ \A p \in 0 .. TotalPieces(n) - 1 : \A b \in 0 .. PieceLength : \A s \in 1 .. ChunkSize :
                ChunkInfoFromReceivedData(n, p, b, s) # {} => b + s <= PieceLen(n, p)
          /\ {number(x) : x \in chunks} = 0 .. TotalChunks(n) - 1
          /\ Cardinality(chunks) = TotalChunks(n)

\* The selection of a magnet link survives being written and parsed again.
SelectionSurvives == ParseSo(PrintSo(ParseSo(link))) = ParseSo(link)

\* What create_torrent_file.rs makes, what validate accepts and what a magnet link selects.
MetainfoIsSound == CreatedIsRight /\ AcceptedIsSound /\ SelectionSurvives

\* A torrent has exactly one hash for each of its pieces: the test
\* test_create_torrent_piece_hashes counts them.
OneHashPerPiece == pc = "done" /\ verdict = "ok" => Len(info.hashes) = TotalPieces(Len(Content))
=============================================================================
