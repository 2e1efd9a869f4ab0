------------------------------- MODULE Resume -------------------------------
(***************************************************************************)
(* Fast resume: the bitfield a torrent keeps on disk, and what becomes of  *)
(* it over downloads, checks, errors, deletions and crashes.               *)
(*                                                                         *)
(* The bitfield in memory (DiskBackedBitV) hands snapshots to its flusher  *)
(* task, which replaces the .bitv file.  A dropped bitfield hands over one *)
(* last snapshot, so that a flusher may outlive the torrent, the check or  *)
(* the record it belongs to (`late').  One info hash is followed: its file *)
(* names depend on nothing else.                                           *)
(***************************************************************************)
EXTENDS Integers, Sequences, FiniteSets, FiniteSetsExt

CONSTANTS LastPiece,        \* index of the last piece
          Files,       \* sequence of the files' piece ranges (sets of pieces)
          Touch,       \* what happens to files while the process is down: "lose", "damage"
          MaxTouch,    \* bound: how often
          MaxStops     \* bound: crashes, fatal errors and deletions

VARIABLES phase,       \* where the torrent is
          data,        \* what a read of each piece finds: "none" (short or no file), "good", "bad"
          bitv,        \* the .bitv file: [state, have]
          claims,      \* the loaded bitfield while it is validated
          have,        \* the chunk tracker's bitfield
          queued,      \* snapshots queued for the current bitfield's flusher: {} or {S}
          late,        \* snapshots held by flushers of dropped bitfields
          erase,       \* what a running delete still has to remove: "bitv", "files"
          touches, stops,
          crossed      \* history: late work of a dropped bitfield or a delete was out of date

resumeVars == <<phase, data, bitv, claims, have, queued, late, erase, touches, stops, crossed>>

Pieces == 0..LastPiece
FilesOf(p) == {f \in DOMAIN Files : p \in Files[f]}
Good == {p \in Pieces : data[p] = "good"}
NoBitv == [state |-> "absent", have |-> {}]
Whole(S) == [state |-> "whole", have |-> S]
Running == phase # "down"
Loaded == phase \in {"up", "errored"}

----------------------------------------------------------------------------
(* TorrentStateInitializing::check *)

\* An added or restored torrent loads its bitfield: none, one that does not parse, or its claims.
\* One of a wrong length, as a torn file gives, is dropped at once.
Load ==
    /\ phase = "load"
    /\ IF bitv.state = "whole"
       THEN phase' = "validate" /\ claims' = bitv.have
       ELSE phase' = "fullCheck" /\ claims' = {}
    /\ UNCHANGED <<data, bitv, have, queued, late, erase, touches, stops, crossed>>

\* The pieces a validation reads: the first claimed one of every file, and a random choice.
Mandatory == {Min(Files[f] \cap claims) : f \in {g \in DOMAIN Files : Files[g] \cap claims # {}}}
Samples == {S \in SUBSET claims : Mandatory \subseteq S}

\* check_piece: a short read is an error, a different hash is Ok(false).
CheckPieceFails(p) == data[p] = "none"

\* validate_fastresume: only an error of check_piece discards the claims; the dropped bitfield's
\* flusher gets them once more, after the record was cleared.
ValidateFastresume ==
    /\ phase = "validate"
    /\ \E S \in Samples :
         IF \E p \in S : CheckPieceFails(p)
         THEN /\ phase' = "fullCheck"
              /\ bitv' = NoBitv
              /\ late' = late \cup {claims}
              /\ UNCHANGED <<have, queued>>
         ELSE /\ phase' = "lengths"
              /\ have' = claims
              /\ queued' = {}
              /\ UNCHANGED <<bitv, late>>
    /\ claims' = {}
    /\ UNCHANGED <<data, erase, touches, stops, crossed>>

\* store_initial_check: a new file is renamed into place and loaded, with a flusher of its own.
Store(S) == bitv' = Whole(S) /\ queued' = {}

\* initial_check reads every piece.
FullCheck ==
    /\ phase = "fullCheck"
    /\ have' = Good
    /\ Store(Good)
    /\ phase' = "lengths"
    /\ UNCHANGED <<data, claims, late, erase, touches, stops, crossed>>

\* ensure_file_length for the selected files: a piece in them can be read from now on.
EnsureLengths ==
    /\ phase = "lengths"
    /\ \E sel \in SUBSET DOMAIN Files :
         data' = [p \in Pieces |-> IF data[p] = "none" /\ FilesOf(p) \subseteq sel
                                   THEN "bad" ELSE data[p]]
    /\ phase' = "up"
    /\ UNCHANGED <<bitv, claims, have, queued, late, erase, touches, stops, crossed>>

----------------------------------------------------------------------------
(* The live torrent, and the flusher *)

\* try_flush_bitv: every so many bytes, and when the download is finished.
TryFlush(S) == queued' \in IF S = Pieces THEN {{S}} ELSE {queued, {S}}

\* A mutant: the snapshot is taken when the piece is written, and the hash may turn out wrong.
PieceCompletedFlushFirst(p) ==
    /\ phase = "up" /\ p \notin have
    /\ \E found \in {"good", "bad"} :
         /\ data' = [data EXCEPT ![p] = found]
         /\ have' = IF found = "good" THEN have \cup {p} ELSE have
    /\ queued' = {have \cup {p}}
    /\ UNCHANGED <<phase, bitv, claims, late, erase, touches, stops, crossed>>

\* A piece is written and verified, then marked.
PieceCompleted(p) ==
    /\ phase = "up" /\ p \notin have
    /\ data' = [data EXCEPT ![p] = "good"]
    /\ have' = have \cup {p}
    /\ TryFlush(have')
    /\ UNCHANGED <<phase, bitv, claims, late, erase, touches, stops, crossed>>

\* The flusher takes the newest snapshot and replaces the file; an error removes the file.
Flush ==
    /\ Loaded /\ queued # {}
    /\ queued' = {}
    /\ \/ \E S \in queued : bitv' = Whole(S)
       \/ bitv' = NoBitv
    /\ UNCHANGED <<phase, data, claims, have, late, erase, touches, stops, crossed>>

\* So does the flusher of a dropped bitfield, whatever happened to the record meanwhile.
LateFlush(S) ==
    /\ Running /\ S \in late
    /\ late' = late \ {S}
    /\ \/ bitv' = Whole(S) /\ S \subseteq Good /\ UNCHANGED crossed
       \/ bitv' = Whole(S) /\ ~(S \subseteq Good) /\ crossed' = TRUE
       \/ bitv' = NoBitv /\ UNCHANGED crossed
    /\ UNCHANGED <<phase, data, claims, have, queued, erase, touches, stops>>

\* Drop for DiskBackedBitV: the snapshot supersedes the queued one.
DropBitv == late' = late \cup {have} /\ queued' = {} /\ have' = {}

----------------------------------------------------------------------------
(* What ends an incarnation of the torrent *)

CanStop == stops < MaxStops /\ stops' = stops + 1

\* on_fatal_error: the chunk tracker is dropped with the live state.
FatalError ==
    /\ phase = "up" /\ CanStop
    /\ phase' = "errored"
    /\ DropBitv
    /\ UNCHANGED <<data, bitv, claims, erase, touches, crossed>>

\* start() after an error: the record is cleared and everything is read again.
StartErrored ==
    /\ phase = "errored"
    /\ bitv' = NoBitv
    /\ phase' = "fullCheck"
    /\ UNCHANGED <<data, claims, have, queued, late, erase, touches, stops, crossed>>

\* Session::delete: the torrent leaves the session; its files go later, one after the other.
DeleteTorrent(files) ==
    /\ phase \in {"up", "errored"} /\ erase = <<>> /\ CanStop
    /\ phase' = "absent"
    /\ IF phase = "up" THEN DropBitv ELSE UNCHANGED <<late, queued, have>>
    /\ erase' = IF files THEN <<"bitv", "files">> ELSE <<"bitv">>
    /\ UNCHANGED <<data, bitv, claims, touches, crossed>>

\* The store's delete removes the .bitv file, then the data files go if that was asked for.
Erase ==
    /\ Running /\ erase # <<>>
    /\ erase' = Tail(erase)
    /\ IF Head(erase) = "bitv"
       THEN bitv' = NoBitv /\ UNCHANGED <<data, crossed>>
       ELSE /\ data' = [p \in Pieces |-> "none"]
            /\ crossed' = (crossed \/ phase # "absent")
            /\ UNCHANGED bitv
    /\ UNCHANGED <<phase, claims, have, queued, late, touches, stops>>

\* The same torrent is added again.
Add ==
    /\ phase = "absent"
    /\ phase' = "load"
    /\ UNCHANGED <<data, bitv, claims, have, queued, late, erase, touches, stops, crossed>>

\* The process dies; snapshots that no flusher wrote are lost.
Die ==
    /\ Running /\ phase # "absent" /\ CanStop
    /\ phase' = "down"
    /\ claims' = {} /\ have' = {} /\ queued' = {} /\ late' = {} /\ erase' = <<>>
    /\ UNCHANGED <<data, bitv, touches, crossed>>

\* It is started again and restores the torrent.
Restart ==
    /\ phase = "down"
    /\ phase' = "load"
    /\ UNCHANGED <<data, bitv, claims, have, queued, late, erase, touches, stops, crossed>>

\* While it is down a file is removed, or its content changes.
TouchFile(f, how) ==
    /\ phase = "down" /\ touches < MaxTouch
    /\ touches' = touches + 1
    /\ data' = [p \in Pieces |->
                  IF p \in Files[f] /\ how = "lose" THEN "none"
                  ELSE IF p \in Files[f] /\ data[p] = "good" THEN "bad" ELSE data[p]]
    /\ UNCHANGED <<phase, bitv, claims, have, queued, late, erase, stops, crossed>>

----------------------------------------------------------------------------
ResumeInit ==
    /\ phase = "load"
    /\ data = [p \in Pieces |-> "none"]
    /\ bitv = NoBitv /\ claims = {} /\ have = {} /\ queued = {} /\ late = {} /\ erase = <<>>
    /\ touches = 0 /\ stops = 0 /\ crossed = FALSE

ResumeNext ==
    \/ Load \/ ValidateFastresume \/ FullCheck \/ EnsureLengths
    \/ \E p \in Pieces : PieceCompleted(p)
    \/ Flush \/ \E S \in SUBSET Pieces : LateFlush(S)
    \/ FatalError \/ StartErrored \/ Erase \/ Add \/ Die \/ Restart
    \/ \E files \in BOOLEAN : DeleteTorrent(files)
    \/ \E f \in DOMAIN Files, how \in Touch : TouchFile(f, how)

ResumeSpec == ResumeInit /\ [][ResumeNext]_resumeVars

----------------------------------------------------------------------------
(* Properties *)

\* A torrent that was checked claims only pieces that are on disk, over crashes at any point, lost
\* files, errors, deletions and re-additions, as long as no late write was out of date when it
\* landed (validate_fastresume, store_initial_check and the flusher, bitv.rs:112-153).
HaveIsOnDisk == phase \in {"lengths", "up"} /\ ~crossed => have \subseteq Good

\* The record never gets ahead of the data of a checked torrent: what the .bitv file claims was
\* verified first, whichever flusher wrote it, so that a crash leaves a truthful record.
RecordIsTruthful ==
    phase \in {"lengths", "up"} /\ ~crossed => bitv.have \subseteq Good

\* What a checked torrent and its record claim is on disk.
ResumeIsTruthful == HaveIsOnDisk /\ RecordIsTruthful
=============================================================================
