---------------------------- MODULE ChunkTracker ----------------------------
(***************************************************************************)
(* crates/librtbit/src/chunk_tracker.rs: which pieces are queued, which    *)
(* chunks were written, which pieces we have, which are selected, and the  *)
(* byte counters kept beside these bit fields.  Then piece_tracker.rs: the *)
(* ChunkTracker together with the map of in-flight pieces and the peers    *)
(* that own them.                                                          *)
(*                                                                         *)
(* A torrent is a finite set of bytes.  A byte lies in one piece, one      *)
(* chunk of that piece and one file, so every length the code computes is  *)
(* the cardinality of a set of bytes.                                      *)
(*                                                                         *)
(* Every operation of ChunkTracker is an action here.  The specification   *)
(* CTSpec calls them in any order, which is the contract the callers       *)
(* (PieceTracker, and module LivePieces) rely on.                          *)
(***************************************************************************)
EXTENDS Naturals, FiniteSets

CONSTANTS Piece,      \* piece indices
          File,       \* file indices, numbered in the order of the torrent
          Byte,       \* the bytes of the torrent
          PieceOf,    \* the piece a byte belongs to
          ChunkOf,    \* the chunk of that piece
          FileOf,     \* the file it belongs to
          Padding     \* the padding files (BEP 47)

ASSUME TorrentAssumption ==
  /\ IsFiniteSet(Byte)
  /\ IsFiniteSet(Piece)
  /\ File \subseteq Nat
  /\ PieceOf \in [Byte -> Piece]
  /\ ChunkOf \in [Byte -> Nat]
  /\ FileOf \in [Byte -> File]
  /\ Padding \subseteq File
  /\ \A p \in Piece : \E b \in Byte : PieceOf[b] = p

VARIABLES queue_pieces,    \* pieces waiting to be requested
          chunk_status,    \* chunks of each piece written to the file
          have,            \* pieces downloaded and verified
          selected,        \* pieces the user selected
          per_file_bytes,  \* bytes we have of each file
          hns              \* cached have / needed / selected byte counts

ctVars == <<queue_pieces, chunk_status, have, selected, per_file_bytes, hns>>

-----------------------------------------------------------------------------
(* Lengths *)

BytesIn(S) == {b \in Byte : PieceOf[b] \in S}

Size(S) == Cardinality(BytesIn(S))

Chunks(p) == {ChunkOf[b] : b \in BytesIn({p})}

Chunk == UNION {{p} \X Chunks(p) : p \in Piece}

FilePieces(f) == {PieceOf[b] : b \in {x \in Byte : FileOf[x] = f}}

FileLen(f) == Cardinality({b \in Byte : FileOf[b] = f})

SizeOfPieceInFile(p, f) == Cardinality({b \in BytesIn({p}) : FileOf[b] = f})

\* The files on_piece_completed visits: the first unbroken run, in file order,
\* of files whose piece range holds p (skip_while ... take_while).
FilesOnPieceCompleted(p) ==
  {f \in File : /\ p \in FilePieces(f)
                /\ \A g, h \in File : (g < h /\ h < f /\ p \in FilePieces(g))
                                          => p \in FilePieces(h)}

-----------------------------------------------------------------------------
(* Derived values the code recomputes *)

ComputeSelectedPieces(only_files) ==
  UNION {FilePieces(f) : f \in only_files \ Padding}

ComputeQueuedPieces(h, s) == s \ h

ComputeChunkHaveStatus(h) == [p \in Piece |-> IF p \in h THEN Chunks(p) ELSE {}]

CalcPerFileBytes(h) ==
  [f \in File |-> Cardinality({b \in BytesIn(h) : FileOf[b] = f})]

CalcHns(h, s) == [have_bytes     |-> Size(h),
                  needed_bytes   |-> Size(s \ h),
                  selected_bytes |-> Size(s)]

IsFinished == hns.needed_bytes = 0

IsFileFinished(f) == FilePieces(f) \subseteq have

\* iter_queued_pieces: the queued pieces of the files whose byte counter says
\* they are incomplete.  The order (file priority, then first, last, middle)
\* is not modelled: any of them may come first.
IterQueuedPieces ==
  {p \in queue_pieces : \E f \in File : /\ p \in FilePieces(f)
                                        /\ per_file_bytes[f] # FileLen(f)}

-----------------------------------------------------------------------------
(* Operations *)

\* ChunkTracker::new on the pieces the initial check (or the stored bit field)
\* found, and the files the user selected.
New(h, only_files) ==
  /\ have = h
  /\ selected = ComputeSelectedPieces(only_files)
  /\ queue_pieces = ComputeQueuedPieces(h, selected)
  /\ chunk_status = ComputeChunkHaveStatus(h)
  /\ per_file_bytes = CalcPerFileBytes(h)
  /\ hns = CalcHns(h, selected)

ReserveNeededPiece(p) ==
  /\ queue_pieces' = queue_pieces \ {p}
  /\ UNCHANGED <<chunk_status, have, selected, per_file_bytes, hns>>

\* Mutant: the broken pieces are not queued again.
MarkPiecesBrokenNotQueued(S) ==
  /\ chunk_status' = [p \in Piece |-> IF p \in S \ have THEN {} ELSE chunk_status[p]]
  /\ UNCHANGED <<queue_pieces, have, selected, per_file_bytes, hns>>

\* mark_piece_broken_if_not_have, called for every piece of S.
MarkPiecesBrokenIfNotHave(S) ==
  /\ queue_pieces' = queue_pieces \cup (S \ have)
  /\ chunk_status' = [p \in Piece |-> IF p \in S \ have THEN {} ELSE chunk_status[p]]
  /\ UNCHANGED <<have, selected, per_file_bytes, hns>>

\* Mutant: needed_bytes is not adjusted.
MarkPieceDownloadedKeepsNeeded(p) ==
  /\ have' = have \cup {p}
  /\ hns' = [hns EXCEPT !.have_bytes = @ + Size({p})]
  /\ UNCHANGED <<queue_pieces, chunk_status, selected, per_file_bytes>>

MarkPieceDownloaded(p) ==
  /\ have' = have \cup {p}
  /\ hns' = IF p \in have THEN hns
            ELSE [have_bytes     |-> hns.have_bytes + Size({p}),
                  needed_bytes   |-> hns.needed_bytes - (IF p \in selected THEN Size({p}) ELSE 0),
                  selected_bytes |-> hns.selected_bytes]
  /\ UNCHANGED <<queue_pieces, chunk_status, selected, per_file_bytes>>

PreviouslyCompleted(p) == chunk_status[p] = Chunks(p)

Completes(p, c) == ~ PreviouslyCompleted(p) /\ chunk_status[p] \cup {c} = Chunks(p)

MarkChunkDownloaded(p, c) ==
  /\ chunk_status' = [chunk_status EXCEPT ![p] = @ \cup {c}]
  /\ UNCHANGED <<queue_pieces, have, selected, per_file_bytes, hns>>

\* Mutant: newly selected pieces are not queued.
UpdateOnlyFilesQueuesNothing(only_files) ==
  LET sel == ComputeSelectedPieces(only_files)
  IN  /\ selected' = sel
      /\ queue_pieces' = queue_pieces \cap (have \cup sel)
      /\ hns' = CalcHns(have, sel)
      /\ UNCHANGED <<have, chunk_status, per_file_bytes>>

UpdateOnlyFilesTracker(only_files) ==
  LET sel   == ComputeSelectedPieces(only_files)
      fresh == (sel \ selected) \ have
  IN  /\ selected' = sel
      /\ chunk_status' = [p \in Piece |-> IF p \in fresh THEN {} ELSE chunk_status[p]]
      /\ queue_pieces' = (queue_pieces \cup fresh) \cap (have \cup sel)
      /\ hns' = CalcHns(have, sel)
      /\ UNCHANGED <<have, per_file_bytes>>

\* update_file_have_on_piece_completed for every file the caller visits.
UpdateFileHaveOnPieceCompleted(p) ==
  /\ per_file_bytes' = [f \in File |-> per_file_bytes[f] +
                          (IF f \in FilesOnPieceCompleted(p)
                           THEN SizeOfPieceInFile(p, f) ELSE 0)]
  /\ UNCHANGED <<queue_pieces, chunk_status, have, selected, hns>>

-----------------------------------------------------------------------------
(* The component, its operations called in any order *)

CTTypeOK ==
  /\ queue_pieces \subseteq Piece
  /\ have \subseteq Piece
  /\ selected \subseteq Piece
  /\ chunk_status \in [Piece -> SUBSET Nat]
  /\ \A p \in Piece : chunk_status[p] \subseteq Chunks(p)
  /\ per_file_bytes \in [File -> Nat]
  /\ hns \in [have_bytes : Nat, needed_bytes : Nat, selected_bytes : Nat]

CTInit == \E h \in SUBSET Piece, only_files \in SUBSET File : New(h, only_files)

CTNext ==
  \/ \E p \in Piece : ReserveNeededPiece(p)
  \/ \E S \in SUBSET Piece : MarkPiecesBrokenIfNotHave(S)
  \/ \E p \in Piece : MarkPieceDownloaded(p)
  \/ \E p \in Piece : \E c \in Chunks(p) : MarkChunkDownloaded(p, c)
  \/ \E only_files \in SUBSET File : UpdateOnlyFilesTracker(only_files)
  \/ \E p \in Piece : UpdateFileHaveOnPieceCompleted(p)

CTSpec == CTInit /\ [][CTNext]_ctVars

\* chunk_tracker.rs:42 "Quick to retrieve stats, that MUST be in sync with the
\* BFs above (have/selected)": after any sequence of operations the counters
\* mark_piece_downloaded adjusts by differences equal the ones calc_hns
\* recomputes, so needed_bytes never underflows.
HnsInSync == hns = CalcHns(have, selected)

-----------------------------------------------------------------------------
(***************************************************************************)
(* PieceTracker.  `started` times are not modelled.  Whether a peer is 10x *)
(* or 3x slower than another, and which of its pieces is the slowest, is   *)
(* left open: any piece that passes the other tests of try_steal may be    *)
(* stolen.                                                                 *)
(***************************************************************************)

CONSTANTS Peer,    \* peer addresses
          NoPeer   \* the owner of a piece that is not in flight

ASSUME PeerAssumption == NoPeer \notin Peer

VARIABLE inflight  \* the peer that downloads a piece, or NoPeer

ptVars == <<ctVars, inflight>>

IsInflight(p) == inflight[p] # NoPeer

OwnedBy(peer) == {p \in Piece : inflight[p] = peer}

-----------------------------------------------------------------------------
(* acquire_piece, its candidates *)

\* Priority pieces: only `have` and `inflight` are consulted.
PriorityCandidates(priority, peerHas) ==
  {p \in priority \cap peerHas : p \notin have /\ ~ IsInflight(p)}

\* Queued pieces: only `queue_pieces` (and the per-file counters) are
\* consulted; neither `inflight` nor `have` is.
QueueCandidates(peerHas) == IterQueuedPieces \cap peerHas

\* try_steal: a piece of another peer that this peer has.
StealCandidates(peer, peerHas) ==
  {p \in peerHas : inflight[p] \notin {peer, NoPeer}}

-----------------------------------------------------------------------------
(* Operations *)

NewPieceTracker(h, only_files) ==
  /\ New(h, only_files)
  /\ inflight = [p \in Piece |-> NoPeer]

ReservePiece(p, peer) ==
  /\ ReserveNeededPiece(p)
  /\ inflight' = [inflight EXCEPT ![p] = peer]

StealPiece(p, peer) ==
  /\ inflight' = [inflight EXCEPT ![p] = peer]
  /\ UNCHANGED ctVars

\* Mutant: the completed piece stays on the in-flight map.
MarkChunkKeepsInflight(p, c) ==
  /\ MarkChunkDownloaded(p, c)
  /\ UNCHANGED inflight

\* mark_chunk_downloaded, and take_inflight when it completed the piece (the
\* caller holds the state lock across both).
MarkChunkAndTake(p, c) ==
  /\ MarkChunkDownloaded(p, c)
  /\ inflight' = IF Completes(p, c) THEN [inflight EXCEPT ![p] = NoPeer] ELSE inflight

MarkPieceHashOk(p) == MarkPieceDownloaded(p) /\ UNCHANGED inflight

MarkPieceHashFailed(p) == MarkPiecesBrokenIfNotHave({p}) /\ UNCHANGED inflight

\* Mutant: only one piece of the peer is released.
ReleaseOnePiece(peer) ==
  LET S == IF OwnedBy(peer) = {} THEN {} ELSE {CHOOSE p \in OwnedBy(peer) : TRUE}
  IN  /\ MarkPiecesBrokenIfNotHave(S)
      /\ inflight' = [p \in Piece |-> IF p \in S THEN NoPeer ELSE inflight[p]]

\* Mutant: the filter on the owner is dropped.
ReleaseEveryPiece(peer) ==
  /\ MarkPiecesBrokenIfNotHave({p \in Piece : IsInflight(p)})
  /\ inflight' = [p \in Piece |-> NoPeer]

ReleasePiecesOwnedBy(peer) ==
  /\ MarkPiecesBrokenIfNotHave(OwnedBy(peer))
  /\ inflight' = [p \in Piece |-> IF inflight[p] = peer THEN NoPeer ELSE inflight[p]]

\* into_chunks (on pause), followed by PieceTracker::new on resume.
IntoChunks ==
  /\ MarkPiecesBrokenIfNotHave({p \in Piece : IsInflight(p)})
  /\ inflight' = [p \in Piece |-> NoPeer]

UpdateOnlyFiles(only_files) == UpdateOnlyFilesTracker(only_files) /\ UNCHANGED inflight

PTTypeOK == CTTypeOK /\ inflight \in [Piece -> Peer \cup {NoPeer}]
=============================================================================
