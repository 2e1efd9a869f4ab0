-------------------------- MODULE LivePiecesSteps --------------------------
(***************************************************************************)
(* The byte counters of ChunkTracker stay in sync with its bit fields, for *)
(* every torrent and every order of operations.  The steps of the download *)
(* keep the types of LivePieces and change the ChunkTracker through its    *)
(* operations only, so that this holds of them too.  Then the parts of the *)
(* invariant of the download, what each of them depends on, and the steps  *)
(* that move a piece between the queue and the in-flight map.  Last, the   *)
(* whole environment: what selections, streams, pauses and storage errors  *)
(* can make a torrent forget.                                              *)
(***************************************************************************)
EXTENDS LivePieces, FiniteSetTheorems, WellFoundedInduction, TLAPS

-----------------------------------------------------------------------------
(* LivePieces with its whole environment, and a history variable: the      *)
(* pieces whose hash check was interrupted.                                *)
VARIABLE interrupted

\* A pause drops every hash check there is; an unreadable file drops one.
Interrupts ==
  IF mode = "live" /\ mode' = "paused" THEN HashedPieces
  ELSE {PieceAt(w) : w \in {v \in Peer : At(v, "hashing") /\ writer'[v].at = "failed"}}

DisturbedInit == Init /\ interrupted = {}

DisturbedNext ==
  /\ Next
  /\ interrupted' = IF mode = "error" THEN {} ELSE (interrupted \cup Interrupts) \ queue_pieces'

DisturbedSpec == DisturbedInit /\ [][DisturbedNext]_<<vars, interrupted>>

\* Whatever the user selects, streams, pauses and resumes and whichever reads
\* and writes fail, a live torrent forgets no selected piece: it is queued, in
\* flight or being hashed.  The one way to lose a piece is to be interrupted
\* after it was taken off the in-flight map and before its hash is known:
\* neither into_chunks (pause) nor on_peer_died (read error) puts such a
\* piece back.
OnlyHashChecksAreLost ==
  mode = "live" =>
    selected \ have \subseteq queue_pieces \cup {p \in Piece : IsInflight(p)}
                                \cup HashedPieces \cup interrupted

-----------------------------------------------------------------------------
(* ChunkTracker *)

\* The byte count of a set of pieces is a natural number (bytes are finitely
\* many), zero only when no piece is in the set: no piece is empty.
LEMMA SizeType ==
  ASSUME NEW S \in SUBSET Piece
  PROVE  /\ IsFiniteSet(BytesIn(S))
         /\ Size(S) \in Nat
         /\ Size(S) = 0 <=> S = {}
<1>1. IsFiniteSet(Byte)
  BY TorrentAssumption, Zenon
<1>2. BytesIn(S) \subseteq Byte
  BY Zenon DEF BytesIn
<1>3. IsFiniteSet(BytesIn(S))
  BY <1>1, <1>2, FS_Subset, Zenon
<1>4. Size(S) \in Nat
  BY <1>3, FS_CardinalityType, Zenon DEF Size
<1>5. Size(S) = 0 <=> BytesIn(S) = {}
  BY <1>3, FS_EmptySet, Zenon DEF Size
<1>6. BytesIn(S) = {} <=> S = {}
  BY TorrentAssumption, ZenonT(30) DEF BytesIn
<1> QED
  BY <1>3, <1>4, <1>5, <1>6, Zenon

\* What mark_piece_downloaded relies on: bytes of disjoint sets of pieces add.
LEMMA SizeAdds ==
  ASSUME NEW S \in SUBSET Piece, NEW T \in SUBSET Piece, S \cap T = {}
  PROVE  Size(S \cup T) = Size(S) + Size(T)
<1>1. IsFiniteSet(BytesIn(S)) /\ IsFiniteSet(BytesIn(T))
  BY SizeType, Zenon
<1>2. BytesIn(S \cup T) = BytesIn(S) \cup BytesIn(T)
  BY Zenon DEF BytesIn
<1>3. BytesIn(S) \cap BytesIn(T) = {}
  BY Zenon DEF BytesIn
<1>4. Cardinality(BytesIn(S) \cup BytesIn(T)) =
        Cardinality(BytesIn(S)) + Cardinality(BytesIn(T))
              - Cardinality(BytesIn(S) \cap BytesIn(T))
  BY <1>1, FS_Union, Zenon
<1>5. Cardinality(BytesIn(S) \cap BytesIn(T)) = 0
  BY <1>3, FS_EmptySet, Zenon
<1>6. Cardinality(BytesIn(S)) \in Nat /\ Cardinality(BytesIn(T)) \in Nat
  BY SizeType, Zenon DEF Size
<1>7. Cardinality(BytesIn(S) \cup BytesIn(T)) =
        Cardinality(BytesIn(S)) + Cardinality(BytesIn(T))
  BY <1>4, <1>5, <1>6
<1>8. Size(S \cup T) = Cardinality(BytesIn(S) \cup BytesIn(T))
  BY <1>2, Zenon DEF Size
<1> QED
  BY <1>7, <1>8, Zenon DEF Size

\* Selecting files selects pieces of the torrent.
LEMMA SelectedArePieces ==
  ASSUME NEW only_files \in SUBSET File
  PROVE  ComputeSelectedPieces(only_files) \subseteq Piece
BY TorrentAssumption DEF ComputeSelectedPieces, FilePieces

\* The counters calc_hns computes are natural numbers.
LEMMA CalcHnsType ==
  ASSUME NEW h \in SUBSET Piece, NEW s \in SUBSET Piece
  PROVE  CalcHns(h, s) \in [have_bytes : Nat, needed_bytes : Nat, selected_bytes : Nat]
<1>1. Size(h) \in Nat /\ Size(s) \in Nat /\ Size(s \ h) \in Nat
  BY SizeType, Zenon
<1> QED
  BY <1>1, Zenon DEF CalcHns

\* The byte counts of files, and of pieces within files, are natural numbers.
LEMMA FileBytesType ==
  ASSUME NEW h \in SUBSET Piece, NEW f \in File
  PROVE  Cardinality({b \in BytesIn(h) : FileOf[b] = f}) \in Nat
<1>1. IsFiniteSet(BytesIn(h))
  BY SizeType, Zenon
<1>2. {b \in BytesIn(h) : FileOf[b] = f} \subseteq BytesIn(h)
  BY Zenon
<1>3. IsFiniteSet({b \in BytesIn(h) : FileOf[b] = f})
  BY <1>1, <1>2, FS_Subset, Zenon
<1> QED
  BY <1>3, FS_CardinalityType, Zenon

\* A chunk index is a natural number.
LEMMA ChunksType ==
  ASSUME NEW p \in Piece
  PROVE  Chunks(p) \subseteq Nat
BY TorrentAssumption, Zenon DEF Chunks, BytesIn

\* mark_piece_downloaded: adjusting the counters by the length of the piece
\* gives what calc_hns would recompute; the subtraction does not underflow.
LEMMA SizeAfterDownload ==
  ASSUME NEW h \in SUBSET Piece, NEW s \in SUBSET Piece, NEW p \in Piece, p \notin h
  PROVE  /\ Size(h \cup {p}) = Size(h) + Size({p})
         /\ Size(s \ (h \cup {p})) = Size(s \ h) - (IF p \in s THEN Size({p}) ELSE 0)
<1>1. Size(h \cup {p}) = Size(h) + Size({p})
  BY SizeAdds, ZenonT(30)
<1>2. Size(s \ h) \in Nat /\ Size(s \ (h \cup {p})) \in Nat /\ Size({p}) \in Nat
  BY SizeType, Zenon
<1>3. CASE p \in s
  <2>1. Size((s \ (h \cup {p})) \cup {p}) = Size(s \ (h \cup {p})) + Size({p})
    BY SizeAdds, Zenon
  <2>2. (s \ (h \cup {p})) \cup {p} = s \ h
    BY <1>3, Zenon
  <2>3. Size(s \ h) = Size(s \ (h \cup {p})) + Size({p})
    BY <2>1, <2>2, Zenon
  <2> QED
    BY <1>1, <1>2, <1>3, <2>3
<1>4. CASE p \notin s
  <2>1. s \ (h \cup {p}) = s \ h
    BY <1>4, Zenon
  <2>2. Size(s \ (h \cup {p})) = Size(s \ h)
    BY <2>1, Zenon
  <2> QED
    BY <1>1, <1>2, <1>4, <2>2
<1> QED
  BY <1>3, <1>4, Zenon

-----------------------------------------------------------------------------
CTInv == CTTypeOK /\ HnsInSync

LEMMA NewEstablishesCTInv ==
  ASSUME NEW h \in SUBSET Piece, NEW only_files \in SUBSET File, New(h, only_files)
  PROVE  CTInv
<1>1. have \subseteq Piece /\ selected \subseteq Piece /\ queue_pieces \subseteq Piece
  BY SelectedArePieces, Zenon DEF New, ComputeQueuedPieces
<1>2. /\ chunk_status \in [Piece -> SUBSET Nat]
      /\ \A p \in Piece : chunk_status[p] \subseteq Chunks(p)
  BY ChunksType, Zenon DEF New, ComputeChunkHaveStatus
<1>3. per_file_bytes \in [File -> Nat]
  BY FileBytesType, Zenon DEF New, CalcPerFileBytes
<1>4. hns = CalcHns(have, selected)
  BY Zenon DEF New
<1>5. hns \in [have_bytes : Nat, needed_bytes : Nat, selected_bytes : Nat]
  BY <1>1, <1>4, CalcHnsType, Zenon
<1> QED
  BY <1>1, <1>2, <1>3, <1>4, <1>5, Zenon DEF CTInv, CTTypeOK, HnsInSync

\* Every operation keeps the counters in sync.
LEMMA CTNextKeepsCTInv ==
  ASSUME CTInv, [CTNext]_ctVars
  PROVE  CTInv'
<1> USE DEF CTInv, CTTypeOK, HnsInSync
<1>1. CASE UNCHANGED ctVars
  BY <1>1, Zenon DEF ctVars, CalcHns
<1>2. ASSUME NEW p \in Piece, ReserveNeededPiece(p)
      PROVE  CTInv'
  BY <1>2, Zenon DEF ReserveNeededPiece
<1>3. ASSUME NEW S \in SUBSET Piece, MarkPiecesBrokenIfNotHave(S)
      PROVE  CTInv'
  BY <1>3, Zenon DEF MarkPiecesBrokenIfNotHave
<1>4. ASSUME NEW p \in Piece, MarkPieceDownloaded(p)
      PROVE  CTInv'
  <2>1. CASE p \in have
    <3>1. have' = have
      BY <1>4, <2>1, Zenon DEF MarkPieceDownloaded
    <3> QED
      BY <1>4, <2>1, <3>1, Zenon DEF MarkPieceDownloaded
  <2>2. CASE p \notin have
    <3> DEFINE dn == IF p \in selected THEN Size({p}) ELSE 0
    <3>1. have' = have \cup {p} /\ selected' = selected
      BY <1>4, Zenon DEF MarkPieceDownloaded
    <3>2. hns' = [have_bytes     |-> hns.have_bytes + Size({p}),
                  needed_bytes   |-> hns.needed_bytes - dn,
                  selected_bytes |-> hns.selected_bytes]
      BY <1>4, <2>2, Zenon DEF MarkPieceDownloaded
    <3>3. /\ hns.have_bytes = Size(have)
          /\ hns.needed_bytes = Size(selected \ have)
          /\ hns.selected_bytes = Size(selected)
      BY Zenon DEF CalcHns
    <3>4. /\ Size(have \cup {p}) = Size(have) + Size({p})
          /\ Size(selected \ (have \cup {p})) = Size(selected \ have) - dn
      BY <2>2, SizeAfterDownload, Zenon
    <3>5. hns' = CalcHns(have \cup {p}, selected)
      <4> HIDE DEF dn
      <4> QED
        BY <3>2, <3>3, <3>4, Zenon DEF CalcHns
    <3>6. hns' = CalcHns(have', selected')
      BY <3>1, <3>5, Zenon
    <3>7. CalcHns(have', selected') \in [have_bytes : Nat, needed_bytes : Nat, selected_bytes : Nat]
      BY <3>1, CalcHnsType, Zenon
    <3> QED
      BY <1>4, <3>1, <3>6, <3>7, Zenon DEF MarkPieceDownloaded
  <2> QED
    BY <2>1, <2>2, Zenon
<1>5. ASSUME NEW p \in Piece, NEW c \in Chunks(p), MarkChunkDownloaded(p, c)
      PROVE  CTInv'
  BY <1>5, ChunksType, Zenon DEF MarkChunkDownloaded
<1>6. ASSUME NEW only_files \in SUBSET File, UpdateOnlyFilesTracker(only_files)
      PROVE  CTInv'
  <2> DEFINE sel == ComputeSelectedPieces(only_files)
  <2>1. sel \subseteq Piece
    BY SelectedArePieces, Zenon
  <2>2. CalcHns(have, sel) \in [have_bytes : Nat, needed_bytes : Nat, selected_bytes : Nat]
    BY <2>1, CalcHnsType, Zenon
  <2> QED
    BY <1>6, <2>1, <2>2, Zenon DEF UpdateOnlyFilesTracker
<1>7. ASSUME NEW p \in Piece, UpdateFileHaveOnPieceCompleted(p)
      PROVE  CTInv'
  <2>1. \A f \in File : SizeOfPieceInFile(p, f) \in Nat
    BY FileBytesType, Zenon DEF SizeOfPieceInFile
  <2> QED
    BY <1>7, <2>1 DEF UpdateFileHaveOnPieceCompleted
<1> QED
  BY <1>1, <1>2, <1>3, <1>4, <1>5, <1>6, <1>7, Zenon DEF CTNext

\* chunk_tracker.rs:42: the cached byte counters MUST be in sync with the
\* bit fields, and are, in every torrent and after any sequence of calls.
THEOREM CountersStayInSync == CTSpec => [](CTTypeOK /\ HnsInSync)
<1>1. CTInit => CTInv
  BY NewEstablishesCTInv, Zenon DEF CTInit
<1>2. CTInv /\ [CTNext]_ctVars => CTInv'
  BY CTNextKeepsCTInv, Zenon
<1>3. CTInv => CTTypeOK /\ HnsInSync
  BY Zenon DEF CTInv
<1> QED
  BY <1>1, <1>2, <1>3, PTL DEF CTSpec

-----------------------------------------------------------------------------
(* The steps of the download *)

\* Every non-empty set of natural numbers has a least element.
LEMMA LeastNatural ==
  ASSUME NEW S \in SUBSET Nat, S # {}
  PROVE  \E x \in S : \A y \in S : x <= y
<1> DEFINE R == OpToRel(<, Nat)
<1>1. IsWellFoundedOn(R, Nat)
  BY NatLessThanWellFounded, Zenon
<1>2. \A x, y \in Nat : y < x => <<y, x>> \in R
  BY Zenon DEF OpToRel
<1> HIDE DEF R
<1>3. PICK x \in S : \A y \in S : ~ (<<y, x>> \in R)
  BY <1>1, WFMin, Zenon
<1>4. ASSUME NEW y \in S
      PROVE  x <= y
  <2>1. ~ (y < x)
    BY <1>2, <1>3, Zenon
  <2> QED
    BY <2>1
<1> QED
  BY <1>4, Zenon

\* A chunk is a piece of the torrent and the index of one of its chunks.
LEMMA ChunkParts ==
  ASSUME NEW x \in Chunk
  PROVE  /\ x[1] \in Piece
         /\ x[2] \in Chunks(x[1])
         /\ x[2] \in Nat
         /\ x = <<x[1], x[2]>>
<1>1. PICK p \in Piece : x \in {p} \X Chunks(p)
  BY Zenon DEF Chunk
<1>2. x[1] = p /\ x[2] \in Chunks(p) /\ x = <<x[1], x[2]>>
  BY <1>1
<1> QED
  BY <1>2, ChunksType, Zenon

\* iter_chunk_infos yields chunks of the piece it iterates over.
LEMMA PieceChunks ==
  ASSUME NEW p \in Piece
  PROVE  ChunksToRequest(p) \subseteq Chunk
BY DEF ChunksToRequest, Chunk

\* The chunk loop asks for one of the chunks that are left.
LEMMA NextChunkIsLeft ==
  ASSUME NEW S \in SUBSET Chunk, S # {}
  PROVE  NextChunk(S) \in S
<1> DEFINE I == {x[2] : x \in S}
<1>1. I \in SUBSET Nat /\ I # {}
  BY ChunkParts, Zenon
<1>2. PICK i \in I : \A j \in I : i <= j
  BY <1>1, LeastNatural, Zenon
<1>3. PICK x \in S : x[2] = i
  BY <1>2, Zenon
<1>4. \A y \in S : x[2] <= y[2]
  BY <1>2, <1>3, Zenon
<1> QED
  BY <1>3, <1>4, Zenon DEF NextChunk

-----------------------------------------------------------------------------
(* Types *)

\* Every step of the download changes the ChunkTracker through its operations.
LEMMA DownloadCallsTracker ==
  ASSUME TypeOK, NEW peer \in Peer, DownloadStep(peer)
  PROVE  [CTNext]_ctVars
<1>w. ~ At(peer, "idle") => writer[peer].chunk \in Chunk
  BY Zenon DEF TypeOK, WriterTypeOK
<1>0. ~ At(peer, "idle") => /\ PieceAt(peer) \in Piece
                           /\ writer[peer].chunk[2] \in Chunks(PieceAt(peer))
  BY <1>w, ChunkParts, Zenon DEF PieceAt
<1>1. CASE Connect(peer)
  BY <1>1, Zenon DEF Connect, ptVars
<1>2. CASE \E p \in LaterHave[peer] : OnHave(peer, p)
  BY <1>2, Zenon DEF OnHave, ptVars
<1>3. CASE OnPeerDied(peer)
  <2>1. MarkPiecesBrokenIfNotHave(OwnedBy(peer))
    BY <1>3, Zenon DEF OnPeerDied, ReleasePiecesOwnedBy
  <2>2. OwnedBy(peer) \in SUBSET Piece
    BY Zenon DEF OwnedBy
  <2> QED
    BY <2>1, <2>2, Zenon DEF CTNext
<1>4. CASE OnNotNeededPeerDied(peer)
  BY <1>4, Zenon DEF OnNotNeededPeerDied, ptVars
<1>5. CASE \E p \in Piece : AcquireReserved(peer, p)
  BY <1>5, Zenon DEF AcquireReserved, ReservePiece, CTNext
<1>6. CASE \E p \in Piece : AcquireStolen(peer, p)
  BY <1>6, Zenon DEF AcquireStolen, StealPiece
<1>7. CASE OnSteal(peer)
  BY <1>7, Zenon DEF OnSteal, ptVars
<1>8. CASE RequestChunk(peer)
  BY <1>8, Zenon DEF RequestChunk, ptVars
<1>9. CASE \E x \in Chunk, ok \in BOOLEAN : OnReceivedPiece(peer, x, ok)
  BY <1>9, Zenon DEF OnReceivedPiece, ptVars
<1>10. CASE CheckSteal(peer)
  BY <1>10, Zenon DEF CheckSteal, ptVars
<1>11. CASE WriteChunk(peer)
  BY <1>11, Zenon DEF WriteChunk, ptVars
<1>12. CASE MarkChunk(peer)
  <2>1. MarkChunkDownloaded(PieceAt(peer), writer[peer].chunk[2])
    BY <1>12, Zenon DEF MarkChunk, MarkChunkAndTake
  <2>2. ~ At(peer, "idle")
    BY <1>12, Zenon DEF MarkChunk, At
  <2> QED
    BY <1>0, <2>1, <2>2, Zenon DEF CTNext
<1>13. CASE CheckPieceOk(peer)
  <2>1. ~ At(peer, "idle")
    BY <1>13, Zenon DEF CheckPieceOk, At
  <2> QED
    BY <1>0, <1>13, <2>1, Zenon DEF CheckPieceOk, MarkPieceHashOk, CTNext
<1>14. CASE CheckPieceFailed(peer)
  <2>1. ~ At(peer, "idle")
    BY <1>14, Zenon DEF CheckPieceFailed, At
  <2>2. {PieceAt(peer)} \in SUBSET Piece
    BY <1>0, <2>1, Zenon
  <2> QED
    BY <1>14, <2>2, Zenon DEF CheckPieceFailed, MarkPieceHashFailed, CTNext
<1>15. CASE OnPieceCompleted(peer)
  <2>1. ~ At(peer, "idle")
    BY <1>15, Zenon DEF OnPieceCompleted, At
  <2> QED
    BY <1>0, <1>15, <2>1, Zenon DEF OnPieceCompleted, CTNext
<1>16. CASE DisconnectFullPeers(peer)
  BY <1>16, Zenon DEF DisconnectFullPeers, ptVars
<1> QED
  BY <1>1, <1>2, <1>3, <1>4, <1>5, <1>6, <1>7, <1>8, <1>9, <1>10, <1>11, <1>12,
     <1>13, <1>14, <1>15, <1>16, ZenonT(30) DEF DownloadStep

\* A step inside write_to_disk keeps the chunk; leaving it forgets the chunk.
LEMMA GotoType ==
  ASSUME WriterTypeOK, NEW peer \in Peer, ~ At(peer, "idle"), NEW where \in WriterPc,
         Goto(peer, where)
  PROVE  WriterTypeOK'
BY Zenon DEF WriterTypeOK, Goto, At

LEMMA DoneType ==
  ASSUME WriterTypeOK, NEW peer \in Peer, Done(peer)
  PROVE  WriterTypeOK'
BY Zenon DEF WriterTypeOK, Done, Idle, At, WriterPc

LEMMA SameWriterType ==
  ASSUME WriterTypeOK, UNCHANGED writer
  PROVE  WriterTypeOK'
BY Zenon DEF WriterTypeOK, At

\* The peer tasks and the file keep their types.
LEMMA DownloadKeepsTypes ==
  ASSUME TypeOK, HnsInSync, NEW peer \in Peer, DownloadStep(peer)
  PROVE  TypeOK' /\ HnsInSync'
<1>ct. CTTypeOK' /\ HnsInSync'
  BY DownloadCallsTracker, CTNextKeepsCTInv, Zenon DEF CTInv, TypeOK, PTTypeOK
<1> USE DEF TypeOK, PTTypeOK, taskVars, envVars, ptVars
<1>1. CASE Connect(peer)
  BY <1>ct, <1>1, LiveAssumption, SameWriterType, Zenon DEF Connect
<1>2. CASE \E p \in LaterHave[peer] : OnHave(peer, p)
  <2>1. PICK p \in LaterHave[peer] : OnHave(peer, p)
    BY <1>2, Zenon
  <2>2. p \in Piece
    BY LiveAssumption, Zenon
  <2> QED
    BY <1>ct, <2>1, <2>2, SameWriterType, Zenon DEF OnHave
<1>3. CASE OnPeerDied(peer)
  <2>1. Done(peer)
    BY <1>3, Zenon DEF OnPeerDied, DropTask, Done
  <2> QED
    BY <1>ct, <1>3, <2>1, DoneType, Zenon DEF OnPeerDied, DropTask, ReleasePiecesOwnedBy
<1>4. CASE OnNotNeededPeerDied(peer)
  <2>1. Done(peer)
    BY <1>4, Zenon DEF OnNotNeededPeerDied, DropTask, Done
  <2> QED
    BY <1>ct, <1>4, <2>1, DoneType, Zenon DEF OnNotNeededPeerDied, DropTask
<1>5. CASE \E p \in Piece : AcquireReserved(peer, p)
  BY <1>ct, <1>5, PieceChunks, SameWriterType DEF AcquireReserved, ReservePiece
<1>6. CASE \E p \in Piece : AcquireStolen(peer, p)
  BY <1>ct, <1>6, PieceChunks, SameWriterType, SMTT(30) DEF AcquireStolen, StealPiece
<1>7. CASE OnSteal(peer)
  BY <1>ct, <1>7, SameWriterType, Zenon DEF OnSteal
<1>8. CASE RequestChunk(peer)
  <2>1. NextChunk(to_request[peer]) \in Chunk
    BY <1>8, NextChunkIsLeft, Zenon DEF RequestChunk
  <2> QED
    BY <1>ct, <1>8, <2>1, SameWriterType, Zenon DEF RequestChunk
<1>9. CASE \E x \in Chunk, ok \in BOOLEAN : OnReceivedPiece(peer, x, ok)
  <2>1. WriterTypeOK'
    BY <1>9 DEF OnReceivedPiece, WriterTypeOK, At, WriterPc
  <2> QED
    BY <1>ct, <1>9, <2>1 DEF OnReceivedPiece
<1>10. CASE CheckSteal(peer)
  <2>1. WriterTypeOK'
    BY <1>10, GotoType, DoneType, Zenon DEF CheckSteal, At, WriterPc
  <2> QED
    BY <1>ct, <1>10, <2>1, Zenon DEF CheckSteal
<1>11. CASE WriteChunk(peer)
  <2>1. WriterTypeOK'
    BY <1>11, GotoType, Zenon DEF WriteChunk, At, WriterPc
  <2>2. writer[peer].chunk \in Chunk
    BY <1>11, Zenon DEF WriteChunk, WriterTypeOK, At
  <2> QED
    BY <1>ct, <1>11, <2>1, <2>2, Zenon DEF WriteChunk
<1>12. CASE MarkChunk(peer)
  <2>1. WriterTypeOK'
    BY <1>12, GotoType, DoneType, Zenon DEF MarkChunk, At, WriterPc
  <2> QED
    BY <1>ct, <1>12, <2>1, ZenonT(30) DEF MarkChunk, MarkChunkAndTake
<1>13. CASE CheckPieceOk(peer)
  <2>1. WriterTypeOK'
    BY <1>13, GotoType, Zenon DEF CheckPieceOk, At, WriterPc
  <2> QED
    BY <1>ct, <1>13, <2>1, Zenon DEF CheckPieceOk, MarkPieceHashOk
<1>14. CASE CheckPieceFailed(peer)
  <2>1. WriterTypeOK'
    BY <1>14, GotoType, Zenon DEF CheckPieceFailed, At, WriterPc
  <2> QED
    BY <1>ct, <1>14, <2>1, Zenon DEF CheckPieceFailed, MarkPieceHashFailed
<1>15. CASE OnPieceCompleted(peer)
  <2>1. WriterTypeOK'
    BY <1>15, GotoType, DoneType, Zenon DEF OnPieceCompleted, At, WriterPc
  <2> QED
    BY <1>ct, <1>15, <2>1, Zenon DEF OnPieceCompleted
<1>16. CASE DisconnectFullPeers(peer)
  <2>1. WriterTypeOK'
    BY <1>16, DoneType, Zenon DEF DisconnectFullPeers
  <2> QED
    BY <1>ct, <1>16, <2>1, Zenon DEF DisconnectFullPeers
<1> QED
  BY <1>1, <1>2, <1>3, <1>4, <1>5, <1>6, <1>7, <1>8, <1>9, <1>10, <1>11, <1>12,
     <1>13, <1>14, <1>15, <1>16, ZenonT(30) DEF DownloadStep

-----------------------------------------------------------------------------

\* What DownloadInv says beyond the types.
Safe ==
  /\ mode = "live" /\ streams = {}
  /\ PieceStatesDisjoint
  /\ WriterOwnsPiece
  /\ HashingIsExclusive
  /\ FullPieceIsHashed
  /\ HaveIsOnDisk
  /\ NeededPieceTracked
  /\ FinishedIsStable
  /\ OwnerIsLive

\* A task that processes a chunk processes one of a piece of the torrent.
LEMMA WriterPiece ==
  ASSUME TypeOK, NEW w \in Peer, writer[w].at # "idle"
  PROVE  /\ PieceAt(w) \in Piece
         /\ writer[w].chunk[2] \in Chunks(PieceAt(w))
         /\ writer[w].chunk = <<PieceAt(w), writer[w].chunk[2]>>
<1>1. writer[w].chunk \in Chunk
  BY Zenon DEF TypeOK, WriterTypeOK, At
<1> QED
  BY <1>1, ChunkParts, Zenon DEF PieceAt

\* No piece is empty.
LEMMA PieceHasChunks ==
  ASSUME NEW p \in Piece
  PROVE  Chunks(p) # {}
<1>1. PICK b \in Byte : PieceOf[b] = p
  BY TorrentAssumption, Zenon
<1>2. ChunkOf[b] \in Chunks(p)
  BY <1>1, Zenon DEF Chunks, BytesIn
<1> QED
  BY <1>2, Zenon

\* Hash checks stay exclusive as long as none begins and the pieces being
\* hashed are left alone.
LEMMA HashersLeftAlone ==
  ASSUME HashingIsExclusive,
         \A w \in Peer : writer'[w].at = "hashing" =>
            /\ writer'[w] = writer[w]
            /\ PieceAt(w) \notin have' \cup queue_pieces'
            /\ inflight'[PieceAt(w)] = NoPeer
  PROVE  HashingIsExclusive'
<1> SUFFICES ASSUME NEW w \in Peer, At(w, "hashing")'
             PROVE  /\ PieceAt(w)' \notin have' \cup queue_pieces'
                    /\ ~ IsInflight(PieceAt(w))'
                    /\ \A v \in Peer : At(v, "hashing")' /\ PieceAt(v)' = PieceAt(w)' => v = w
  BY Zenon DEF HashingIsExclusive
<1>1. writer'[w] = writer[w] /\ PieceAt(w)' = PieceAt(w) /\ At(w, "hashing")
  BY Zenon DEF At, PieceAt
<1>2. PieceAt(w)' \notin have' \cup queue_pieces' /\ ~ IsInflight(PieceAt(w))'
  BY <1>1, Zenon DEF At, IsInflight
<1>3. ASSUME NEW v \in Peer, At(v, "hashing")', PieceAt(v)' = PieceAt(w)'
      PROVE  v = w
  <2>1. At(v, "hashing") /\ PieceAt(v) = PieceAt(w)
    BY <1>1, <1>3, Zenon DEF At, PieceAt
  <2> QED
    BY <1>1, <2>1, Zenon DEF HashingIsExclusive
<1> QED
  BY <1>2, <1>3, Zenon

LEMMA HashersUntouched ==
  ASSUME HashingIsExclusive, UNCHANGED <<have, queue_pieces, inflight>>,
         \A w \in Peer : writer'[w].at = "hashing" => writer'[w] = writer[w]
  PROVE  HashingIsExclusive'
<1>1. ASSUME NEW w \in Peer, writer'[w].at = "hashing"
      PROVE  /\ writer'[w] = writer[w]
             /\ PieceAt(w) \notin have' \cup queue_pieces'
             /\ inflight'[PieceAt(w)] = NoPeer
  BY <1>1, Zenon DEF HashingIsExclusive, At, IsInflight
<1> QED
  BY <1>1, HashersLeftAlone, Zenon

\* The torrent is finished exactly when nothing selected is missing.
LEMMA FinishedMeaning ==
  ASSUME CTTypeOK, HnsInSync
  PROVE  IsFinished <=> selected \subseteq have
<1>1. hns.needed_bytes = Size(selected \ have)
  BY Zenon DEF HnsInSync, CalcHns
<1>2. selected \ have \in SUBSET Piece
  BY Zenon DEF CTTypeOK
<1>3. Size(selected \ have) = 0 <=> selected \ have = {}
  BY <1>2, SizeType, Zenon
<1> QED
  BY <1>1, <1>3, Zenon DEF IsFinished

\* What a step inside write_to_disk does to the position of the tasks.
LEMMA GotoMoves ==
  ASSUME TypeOK, NEW peer \in Peer, NEW where, Goto(peer, where)
  PROVE  /\ \A w \in Peer : w # peer => writer'[w] = writer[w]
         /\ writer'[peer].at = where
         /\ writer'[peer].chunk = writer[peer].chunk
BY Zenon DEF TypeOK, WriterTypeOK, Goto

LEMMA DoneMoves ==
  ASSUME TypeOK, NEW peer \in Peer, Done(peer)
  PROVE  /\ \A w \in Peer : w # peer => writer'[w] = writer[w]
         /\ writer'[peer].at = "idle"
BY Zenon DEF TypeOK, WriterTypeOK, Done, Idle

-----------------------------------------------------------------------------
(* What each part of the invariant depends on *)

LEMMA DisjointFrame ==
  ASSUME PieceStatesDisjoint, UNCHANGED <<have, queue_pieces, inflight>>
  PROVE  PieceStatesDisjoint'
BY Zenon DEF PieceStatesDisjoint, IsInflight

LEMMA OnDiskFrame ==
  ASSUME HaveIsOnDisk, UNCHANGED <<have, good>>
  PROVE  HaveIsOnDisk'
BY Zenon DEF HaveIsOnDisk, GoodPieces

LEMMA OwnerFrame ==
  ASSUME OwnerIsLive, UNCHANGED inflight, live \subseteq live'
  PROVE  OwnerIsLive'
BY Zenon DEF OwnerIsLive, IsInflight

LEMMA WriterFrame ==
  ASSUME WriterOwnsPiece, UNCHANGED inflight,
         \A w \in Peer : writer'[w].at \in {"checked", "written"} =>
            /\ writer[w].at \in {"checked", "written"}
            /\ writer'[w].chunk = writer[w].chunk
  PROVE  WriterOwnsPiece'
BY Zenon DEF WriterOwnsPiece, PieceAt

LEMMA FullFrame ==
  ASSUME FullPieceIsHashed, UNCHANGED <<chunk_status, have>>, HashedPieces \subseteq HashedPieces'
  PROVE  FullPieceIsHashed'
BY Zenon DEF FullPieceIsHashed, PreviouslyCompleted

LEMMA TrackedFrame ==
  ASSUME NeededPieceTracked, UNCHANGED <<selected, have, queue_pieces, inflight>>,
         HashedPieces \subseteq HashedPieces'
  PROVE  NeededPieceTracked'
BY Zenon DEF NeededPieceTracked, IsInflight

LEMMA StableFrame ==
  ASSUME FinishedIsStable, UNCHANGED <<selected, queue_pieces, inflight>>,
         HashedPieces' \subseteq HashedPieces, IsFinished => IsFinished',
         \A w \in Peer : writer'[w].at = "finishing" => IsFinished
  PROVE  FinishedIsStable'
<1>1. (queue_pieces \cup {p \in Piece : IsInflight(p)} \cup HashedPieces)' \subseteq selected'
  BY Zenon DEF FinishedIsStable, IsInflight
<1> QED
  BY <1>1, Zenon DEF FinishedIsStable, At

\* Once a task is about to park peers the torrent is finished.
LEMMA FinishingMeansFinished ==
  ASSUME FinishedIsStable, NEW w \in Peer, writer[w].at = "finishing"
  PROVE  IsFinished
BY Zenon DEF FinishedIsStable, At

LEMMA HashedFrame ==
  ASSUME \A w \in Peer : (writer'[w].at = "hashing" \/ writer[w].at = "hashing") =>
            writer'[w] = writer[w]
  PROVE  HashedPieces' = HashedPieces
BY ZenonT(30) DEF HashedPieces, At, PieceAt

\* A torrent that has just become live satisfies the invariant.
LEMMA InitSafe ==
  ASSUME Init
  PROVE  TypeOK /\ HnsInSync /\ Safe
<1>1. PICK h \in SUBSET Piece, only_files \in OnlyFiles :
         /\ NewPieceTracker(h, only_files)
         /\ good = UNION {ChunksToRequest(p) : p \in h}
  BY Zenon DEF Init
<1>2. CTTypeOK /\ HnsInSync
  BY <1>1, LiveAssumption, NewEstablishesCTInv, Zenon DEF NewPieceTracker, CTInv
<1>3. inflight = [p \in Piece |-> NoPeer]
  BY <1>1, Zenon DEF NewPieceTracker
<1>4. good \subseteq Chunk
  BY <1>1, PieceChunks, Zenon
<1>5. WriterTypeOK /\ \A w \in Peer : writer[w].at = "idle"
  BY Zenon DEF Init, WriterTypeOK, Idle, WriterPc, At
<1>6. TypeOK
  <2>1. PTTypeOK
    BY <1>2, <1>3, Zenon DEF PTTypeOK
  <2>2. /\ bitfield \in [Peer -> SUBSET Piece]
        /\ inflight_requests \in [Peer -> SUBSET Chunk]
        /\ to_request \in [Peer -> SUBSET Chunk]
        /\ victim \in [Peer -> Peer \cup {NoPeer}]
    BY Zenon DEF Init
  <2>3. disturbances \in 0..MaxDisturbances
    BY LiveAssumption DEF Init
  <2> QED
    BY <1>4, <1>5, <2>1, <2>2, <2>3, ZenonT(30) DEF TypeOK, Init
<1>7. /\ have = h
      /\ queue_pieces = selected \ have
      /\ chunk_status = [p \in Piece |-> IF p \in h THEN Chunks(p) ELSE {}]
  BY <1>1, Zenon DEF NewPieceTracker, New, ComputeQueuedPieces, ComputeChunkHaveStatus
<1>8. HashedPieces = {}
  BY <1>5, Zenon DEF HashedPieces, At
<1>9. PieceStatesDisjoint /\ OwnerIsLive
  BY <1>3, <1>7, Zenon DEF PieceStatesDisjoint, OwnerIsLive, IsInflight
<1>10. WriterOwnsPiece /\ HashingIsExclusive
  BY <1>5, Zenon DEF WriterOwnsPiece, HashingIsExclusive, At
<1>11. FullPieceIsHashed
  BY <1>7, PieceHasChunks, Zenon DEF FullPieceIsHashed, PreviouslyCompleted
<1>12. HaveIsOnDisk
  BY <1>1, <1>7 DEF HaveIsOnDisk, GoodPieces, ChunksToRequest
<1>13. NeededPieceTracked
  BY <1>7, Zenon DEF NeededPieceTracked
<1>14. FinishedIsStable
  BY <1>3, <1>5, <1>7, <1>8, Zenon DEF FinishedIsStable, IsInflight, At
<1> QED
  BY <1>2, <1>6, <1>9, <1>10, <1>11, <1>12, <1>13, <1>14, Zenon DEF Safe, Init

-----------------------------------------------------------------------------
(* The actions *)

\* A step that neither touches the tracker nor enters or leaves the critical
\* part of write_to_disk.
LEMMA QuietStepKeepsSafe ==
  ASSUME TypeOK, Safe,
         UNCHANGED <<ptVars, good, mode, streams>>,
         live \subseteq live',
         \A w \in Peer : \/ writer'[w] = writer[w]
                         \/ /\ writer[w].at # "hashing"
                            /\ writer'[w].at \notin {"checked", "written", "hashing", "finishing"}
  PROVE  Safe'
<1>1. UNCHANGED <<queue_pieces, chunk_status, have, selected, hns, inflight>>
  BY Zenon DEF ptVars, ctVars
<1>2. HashedPieces' = HashedPieces
  BY HashedFrame, Zenon
<1>3. IsFinished' <=> IsFinished
  BY <1>1, Zenon DEF IsFinished
<1>4. \A w \in Peer : writer'[w].at = "finishing" => IsFinished
  BY FinishingMeansFinished, Zenon DEF Safe
<1>5. WriterOwnsPiece'
  BY <1>1, WriterFrame, Zenon DEF Safe
<1>6. HashingIsExclusive'
  BY <1>1, HashersUntouched, Zenon DEF Safe
<1>7. FinishedIsStable'
  BY <1>1, <1>2, <1>3, <1>4, StableFrame, Zenon DEF Safe
<1>8. FullPieceIsHashed' /\ NeededPieceTracked'
  BY <1>1, <1>2, FullFrame, TrackedFrame, Zenon DEF Safe
<1> QED
  BY <1>1, <1>5, <1>6, <1>7, <1>8, DisjointFrame, OnDiskFrame, OwnerFrame, ZenonT(30) DEF Safe

\* acquire_piece takes the piece off the queue as it puts it in flight.
LEMMA AcquireReservedKeepsSafe ==
  ASSUME TypeOK, Safe, NEW peer \in Peer, NEW p \in Piece, AcquireReserved(peer, p)
  PROVE  Safe'
<1>1. p \in queue_pieces
  BY Zenon DEF AcquireReserved, Safe, PriorityCandidates, QueueCandidates, IterQueuedPieces
<1>2. /\ queue_pieces' = queue_pieces \ {p}
      /\ inflight' = [inflight EXCEPT ![p] = peer]
      /\ UNCHANGED <<chunk_status, have, selected, hns, writer, good, mode, streams, live>>
  BY Zenon DEF AcquireReserved, ReservePiece, ReserveNeededPiece, envVars
<1>3. peer # NoPeer /\ peer \in live
  BY PeerAssumption, Zenon DEF AcquireReserved, CanAcquire
<1>t. inflight \in [Piece -> Peer \cup {NoPeer}] /\ queue_pieces \subseteq Piece
  BY Zenon DEF TypeOK, PTTypeOK, CTTypeOK
<1>4. p \notin have /\ inflight[p] = NoPeer
  BY <1>1, Zenon DEF Safe, PieceStatesDisjoint, IsInflight
<1>h. \A w \in Peer : writer[w].at = "hashing" =>
         PieceAt(w) # p /\ PieceAt(w) \notin have \cup queue_pieces /\ inflight[PieceAt(w)] = NoPeer
  BY <1>1, Zenon DEF Safe, HashingIsExclusive, At, IsInflight
<1>5. HashedPieces' = HashedPieces
  BY <1>2, HashedFrame, Zenon
<1>6. PieceStatesDisjoint'
  BY <1>2, <1>4, <1>t, Zenon DEF Safe, PieceStatesDisjoint, IsInflight
<1>7. OwnerIsLive'
  BY <1>2, <1>3, <1>t, Zenon DEF Safe, OwnerIsLive, IsInflight
<1>8. WriterOwnsPiece'
  BY <1>2, <1>4, <1>t, PeerAssumption, SMTT(20) DEF Safe, WriterOwnsPiece, PieceAt
<1>9. HashingIsExclusive'
  BY <1>2, <1>h, <1>t, HashersLeftAlone DEF Safe
<1>10. NeededPieceTracked'
  BY <1>2, <1>3, <1>5, <1>t, Zenon DEF Safe, NeededPieceTracked, IsInflight
<1>11. FinishedIsStable'
  <2>1. (queue_pieces \cup {q \in Piece : IsInflight(q)} \cup HashedPieces)' \subseteq selected'
    BY <1>1, <1>2, <1>5, <1>t, Zenon DEF Safe, FinishedIsStable, IsInflight
  <2> QED
    BY <1>2, <2>1, Zenon DEF Safe, FinishedIsStable, IsFinished, At
<1> QED
  BY <1>2, <1>5, <1>6, <1>7, <1>8, <1>9, <1>10, <1>11, OnDiskFrame, FullFrame, ZenonT(30) DEF Safe

\* try_steal takes no piece whose per-piece lock is held.
LEMMA AcquireStolenKeepsSafe ==
  ASSUME TypeOK, Safe, NEW peer \in Peer, NEW p \in Piece, AcquireStolen(peer, p)
  PROVE  Safe'
<1>1. /\ inflight' = [inflight EXCEPT ![p] = peer]
      /\ UNCHANGED <<queue_pieces, chunk_status, have, selected, hns, writer, good, mode,
                     streams, live>>
  BY Zenon DEF AcquireStolen, StealPiece, ctVars, envVars
<1>2. inflight[p] # NoPeer /\ ~ PieceLocked(p)
  BY Zenon DEF AcquireStolen, StealCandidates
<1>3. peer # NoPeer /\ peer \in live
  BY PeerAssumption, Zenon DEF AcquireStolen, CanAcquire
<1>t. inflight \in [Piece -> Peer \cup {NoPeer}]
  BY Zenon DEF TypeOK, PTTypeOK
<1>h. \A w \in Peer : writer[w].at = "hashing" =>
         PieceAt(w) # p /\ PieceAt(w) \notin have \cup queue_pieces /\ inflight[PieceAt(w)] = NoPeer
  BY <1>2, Zenon DEF Safe, HashingIsExclusive, At, IsInflight
<1>4. HashedPieces' = HashedPieces
  BY <1>1, HashedFrame, Zenon
<1>5. \A q \in Piece : IsInflight(q)' <=> IsInflight(q)
  BY <1>1, <1>2, <1>3, <1>t, Zenon DEF IsInflight
<1>6. PieceStatesDisjoint'
  BY <1>1, <1>5, Zenon DEF Safe, PieceStatesDisjoint
<1>7. OwnerIsLive'
  BY <1>1, <1>3, <1>t, Zenon DEF Safe, OwnerIsLive, IsInflight
<1>8. WriterOwnsPiece'
  BY <1>1, <1>2, <1>t DEF Safe, WriterOwnsPiece, PieceLocked, PieceAt
<1>9. HashingIsExclusive'
  BY <1>1, <1>h, <1>t, HashersLeftAlone DEF Safe
<1>10. NeededPieceTracked'
  BY <1>1, <1>4, <1>5, Zenon DEF Safe, NeededPieceTracked
<1>11. FinishedIsStable'
  <2>1. (queue_pieces \cup {q \in Piece : IsInflight(q)} \cup HashedPieces)' \subseteq selected'
    BY <1>1, <1>4, <1>5, Zenon DEF Safe, FinishedIsStable
  <2> QED
    BY <1>1, <2>1, Zenon DEF Safe, FinishedIsStable, IsFinished, At
<1> QED
  BY <1>1, <1>4, <1>6, <1>7, <1>8, <1>9, <1>10, <1>11, OnDiskFrame, FullFrame, ZenonT(30) DEF Safe

\* release_pieces_owned_by returns a dead peer's pieces to the queue.  The peer
\* is not in the critical part of write_to_disk, so nobody writes to them.
LEMMA OnPeerDiedKeepsSafe ==
  ASSUME TypeOK, Safe, NEW peer \in Peer, OnPeerDied(peer)
  PROVE  Safe'
<1> DEFINE owned == OwnedBy(peer)
<1>1. /\ queue_pieces' = queue_pieces \cup (owned \ have)
      /\ chunk_status' = [p \in Piece |-> IF p \in owned \ have THEN {} ELSE chunk_status[p]]
      /\ inflight' = [p \in Piece |-> IF inflight[p] = peer THEN NoPeer ELSE inflight[p]]
      /\ UNCHANGED <<have, selected, hns, good, mode, streams>>
      /\ live' = live \ {peer}
      /\ Done(peer)
  BY Zenon DEF OnPeerDied, ReleasePiecesOwnedBy, MarkPiecesBrokenIfNotHave, DropTask, envVars, Done
<1>2. owned \subseteq Piece /\ \A p \in Piece : p \in owned <=> inflight[p] = peer
  BY Zenon DEF OwnedBy
<1> HIDE DEF owned
<1>3. owned \cap have = {} /\ peer # NoPeer
  BY <1>2, PeerAssumption, Zenon DEF Safe, PieceStatesDisjoint, IsInflight
<1>4. writer[peer].at \notin {"checked", "written", "hashing", "finishing"}
  BY Zenon DEF OnPeerDied, Runnable, InWriteToDisk, At
<1>5. /\ \A w \in Peer : w # peer => writer'[w] = writer[w]
      /\ writer'[peer].at = "idle"
  BY <1>1, DoneMoves, Zenon
<1>p. \A w \in Peer : writer[w].at # "idle" => PieceAt(w) \in Piece
  BY WriterPiece, Zenon
<1>6. HashedPieces' = HashedPieces
  BY <1>4, <1>5, HashedFrame, Zenon
<1>7. PieceStatesDisjoint'
  BY <1>1, <1>2, <1>3, Zenon DEF Safe, PieceStatesDisjoint, IsInflight
<1>8. OwnerIsLive'
  BY <1>1, <1>3, Zenon DEF Safe, OwnerIsLive, IsInflight
<1>9. WriterOwnsPiece'
  <2>1. ASSUME NEW w \in Peer, writer'[w].at \in {"checked", "written"}
        PROVE  inflight'[PieceAt(w)'] = w
    <3>1. w # peer /\ writer'[w] = writer[w] /\ PieceAt(w)' = PieceAt(w)
      BY <1>5, <2>1, Zenon DEF PieceAt
    <3>2. PieceAt(w) \in Piece /\ inflight[PieceAt(w)] = w
      BY <1>p, <2>1, <3>1, Zenon DEF Safe, WriterOwnsPiece
    <3> QED
      BY <1>1, <3>1, <3>2, Zenon
  <2> QED
    BY <2>1, ZenonT(30) DEF WriterOwnsPiece
<1>10. HashingIsExclusive'
  <2>1. ASSUME NEW w \in Peer, writer'[w].at = "hashing"
        PROVE  /\ writer'[w] = writer[w]
               /\ PieceAt(w) \notin have' \cup queue_pieces'
               /\ inflight'[PieceAt(w)] = NoPeer
    <3>1. writer'[w] = writer[w] /\ PieceAt(w) \in Piece
      BY <1>5, <1>p, <2>1, Zenon
    <3>2. PieceAt(w) \notin have \cup queue_pieces /\ inflight[PieceAt(w)] = NoPeer
      BY <2>1, <3>1, Zenon DEF Safe, HashingIsExclusive, At, IsInflight
    <3> QED
      BY <1>1, <1>2, <1>3, <3>1, <3>2, Zenon
  <2> QED
    BY <2>1, HashersLeftAlone, ZenonT(30) DEF Safe
<1>11. FullPieceIsHashed'
  BY <1>1, <1>6, PieceHasChunks, Zenon DEF Safe, FullPieceIsHashed, PreviouslyCompleted
<1>12. NeededPieceTracked'
  BY <1>1, <1>2, <1>3, <1>6, Zenon DEF Safe, NeededPieceTracked, IsInflight
<1>13. FinishedIsStable'
  <2>1. owned \subseteq selected
    BY <1>2, <1>3, Zenon DEF Safe, FinishedIsStable, IsInflight
  <2>2. (queue_pieces \cup {p \in Piece : IsInflight(p)} \cup HashedPieces)' \subseteq selected'
    BY <1>1, <1>6, <2>1, Zenon DEF Safe, FinishedIsStable, IsInflight
  <2>3. \A w \in Peer : writer'[w].at = "finishing" => IsFinished'
    BY <1>1, <1>5, FinishingMeansFinished, Zenon DEF Safe, IsFinished
  <2> QED
    BY <2>2, <2>3, Zenon DEF FinishedIsStable, At
<1> QED
  BY <1>1, <1>7, <1>8, <1>9, <1>10, <1>11, <1>12, <1>13, OnDiskFrame, ZenonT(30) DEF Safe

-----------------------------------------------------------------------------
(***************************************************************************)
(* The whole environment: selections, streams, pauses and storage errors   *)
(* in the middle of the download.                                          *)
(***************************************************************************)

\* Rebuilding the tracker from a bit field counts its bytes anew.
LEMMA ReinitializeKeepsCTInv ==
  ASSUME CTInv, NEW h \in SUBSET Piece,
         have' = h,
         queue_pieces' = ComputeQueuedPieces(h, selected),
         chunk_status' = ComputeChunkHaveStatus(h),
         per_file_bytes' = CalcPerFileBytes(h),
         hns' = CalcHns(h, selected),
         UNCHANGED selected
  PROVE  CTInv'
<1>1. have' \subseteq Piece /\ selected' \subseteq Piece /\ queue_pieces' \subseteq Piece
  BY Zenon DEF CTInv, CTTypeOK, ComputeQueuedPieces
<1>2. /\ chunk_status' \in [Piece -> SUBSET Nat]
      /\ \A p \in Piece : chunk_status'[p] \subseteq Chunks(p)
  BY ChunksType, Zenon DEF ComputeChunkHaveStatus
<1>3. per_file_bytes' \in [File -> Nat]
  BY FileBytesType, Zenon DEF CalcPerFileBytes
<1>4. hns' \in [have_bytes : Nat, needed_bytes : Nat, selected_bytes : Nat]
  BY <1>1, CalcHnsType, Zenon
<1>5. hns' = CalcHns(have', selected')
  BY Zenon
<1>6. CTTypeOK'
  BY <1>1, <1>2, <1>3, <1>4, Zenon DEF CTTypeOK
<1>7. HnsInSync'
  BY <1>5, Zenon DEF HnsInSync, CalcHns, Size, BytesIn
<1> QED
  BY <1>6, <1>7, Zenon DEF CTInv

\* What pause and a fatal error leave of the tasks.
LEMMA DropAllTasksType ==
  ASSUME DropAllTasks
  PROVE  /\ live' \subseteq Peer
         /\ bitfield' \in [Peer -> SUBSET Piece]
         /\ inflight_requests' \in [Peer -> SUBSET Chunk]
         /\ to_request' \in [Peer -> SUBSET Chunk]
         /\ victim' \in [Peer -> Peer \cup {NoPeer}]
         /\ timed' \subseteq Peer
         /\ WriterTypeOK'
<1>1. WriterTypeOK'
  BY Zenon DEF DropAllTasks, WriterTypeOK, Idle, WriterPc, At
<1> QED
  BY <1>1, Zenon DEF DropAllTasks

LEMMA DisturbType ==
  ASSUME TypeOK, Disturb
  PROVE  disturbances' \in 0..MaxDisturbances
<1>1. disturbances \in 0..MaxDisturbances /\ MaxDisturbances \in Nat
  BY LiveAssumption, Zenon DEF TypeOK
<1> QED
  BY <1>1 DEF Disturb

LEMMA SelectFilesType ==
  ASSUME TypeOK, HnsInSync, NEW only_files \in OnlyFiles, SelectFiles(only_files)
  PROVE  TypeOK' /\ HnsInSync'
<1>1. only_files \in SUBSET File
  BY LiveAssumption, Zenon
<1>2. UpdateOnlyFilesTracker(only_files) /\ UNCHANGED inflight
  BY Zenon DEF SelectFiles, UpdateOnlyFiles
<1>3. CTTypeOK' /\ HnsInSync'
  BY <1>1, <1>2, CTNextKeepsCTInv, Zenon DEF CTInv, TypeOK, PTTypeOK, CTNext
<1>4. UNCHANGED <<taskVars, mode, fatal, good, streams>>
  BY Zenon DEF SelectFiles
<1>5. disturbances' \in 0..MaxDisturbances
  BY DisturbType, Zenon DEF SelectFiles
<1>6. WriterTypeOK'
  BY <1>4, SameWriterType, Zenon DEF TypeOK, taskVars
<1> QED
  BY <1>2, <1>3, <1>4, <1>5, <1>6, Zenon DEF TypeOK, PTTypeOK, taskVars

LEMMA PauseType ==
  ASSUME TypeOK, HnsInSync, Pause
  PROVE  TypeOK' /\ HnsInSync'
<1>1. /\ MarkPiecesBrokenIfNotHave({p \in Piece : IsInflight(p)})
      /\ inflight' = [p \in Piece |-> NoPeer]
  BY Zenon DEF Pause, IntoChunks
<1>2. CTTypeOK' /\ HnsInSync'
  <2>1. {p \in Piece : IsInflight(p)} \in SUBSET Piece
    BY Zenon
  <2>2. CTNext
    BY <1>1, <2>1, Zenon DEF CTNext
  <2> QED
    BY <2>2, CTNextKeepsCTInv, Zenon DEF CTInv, TypeOK, PTTypeOK
<1>3. PTTypeOK'
  BY <1>1, <1>2, Zenon DEF PTTypeOK
<1>4. mode' = "paused" /\ fatal' = FALSE /\ DropAllTasks /\ UNCHANGED <<good, streams>>
  BY Zenon DEF Pause
<1>5. disturbances' \in 0..MaxDisturbances
  BY DisturbType, Zenon DEF Pause
<1> QED
  BY <1>2, <1>3, <1>4, <1>5, DropAllTasksType, Zenon DEF TypeOK

LEMMA TrackerUntouched ==
  ASSUME TypeOK, HnsInSync, UNCHANGED ptVars
  PROVE  PTTypeOK' /\ HnsInSync'
<1>1. UNCHANGED ctVars /\ UNCHANGED inflight
  BY Zenon DEF ptVars
<1>2. CTTypeOK' /\ HnsInSync'
  BY <1>1, CTNextKeepsCTInv, Zenon DEF CTInv, TypeOK, PTTypeOK
<1> QED
  BY <1>1, <1>2, Zenon DEF TypeOK, PTTypeOK

LEMMA ErrorType ==
  ASSUME TypeOK, HnsInSync, NEW peer \in Peer,
         CheckPieceError(peer) \/ WriteChunkError(peer)
  PROVE  TypeOK' /\ HnsInSync'
<1>1. /\ UNCHANGED <<ptVars, live, bitfield, inflight_requests, to_request, victim, timed,
                     mode, good, streams>>
      /\ Goto(peer, "failed") /\ ~ At(peer, "idle") /\ Disturb
      /\ fatal' \in {fatal, TRUE}
  BY Zenon DEF CheckPieceError, WriteChunkError, At
<1>2. WriterTypeOK'
  BY <1>1, GotoType, Zenon DEF TypeOK, WriterPc
<1>3. disturbances' \in 0..MaxDisturbances
  BY <1>1, DisturbType, Zenon
<1>4. PTTypeOK' /\ HnsInSync'
  BY <1>1, TrackerUntouched, Zenon
<1> QED
  BY <1>1, <1>2, <1>3, <1>4, Zenon DEF TypeOK

LEMMA ReinitializeType ==
  ASSUME TypeOK, HnsInSync, Reinitialize
  PROVE  TypeOK' /\ HnsInSync'
<1>1. PICK h \in (SUBSET have) \cup {GoodPieces} :
        /\ have' = h
        /\ queue_pieces' = ComputeQueuedPieces(h, selected)
        /\ chunk_status' = ComputeChunkHaveStatus(h)
        /\ per_file_bytes' = CalcPerFileBytes(h)
        /\ hns' = CalcHns(h, selected)
  BY Zenon DEF Reinitialize
<1>2. h \in SUBSET Piece
  BY Zenon DEF TypeOK, PTTypeOK, CTTypeOK, GoodPieces
<1>3. UNCHANGED <<selected, taskVars, fatal, good, disturbances>> /\ mode' = "live" /\ streams' = {}
      /\ inflight' = [p \in Piece |-> NoPeer]
  BY Zenon DEF Reinitialize
<1>4. CTTypeOK' /\ HnsInSync'
  BY <1>1, <1>2, <1>3, ReinitializeKeepsCTInv, ZenonT(30) DEF CTInv, TypeOK, PTTypeOK
<1>5. PTTypeOK'
  BY <1>3, <1>4, Zenon DEF PTTypeOK
<1>6. WriterTypeOK'
  BY <1>3, SameWriterType, Zenon DEF TypeOK, taskVars
<1> QED
  BY <1>3, <1>4, <1>5, <1>6, ZenonT(30) DEF TypeOK, taskVars

\* The types, and the counters in sync, whatever the user and the storage do.
LEMMA NextKeepsTypes ==
  ASSUME TypeOK, HnsInSync, Next
  PROVE  TypeOK' /\ HnsInSync'
<1>1. CASE Download
  BY <1>1, DownloadKeepsTypes, Zenon DEF Download
<1>2. CASE Reselection
  BY <1>2, SelectFilesType, Zenon DEF Reselection
<1>3. CASE Streaming
  <2>1. PICK f \in File : OpenStream(f) \/ CloseStream(f)
    BY <1>3, Zenon DEF Streaming
  <2>2. UNCHANGED <<ptVars, taskVars, mode, fatal, good>> /\ streams' \subseteq streams \cup {f}
    BY <2>1, Zenon DEF OpenStream, CloseStream
  <2>3. disturbances' \in 0..MaxDisturbances
    BY <2>1, DisturbType, Zenon DEF OpenStream, CloseStream, TypeOK
  <2>4. PTTypeOK' /\ HnsInSync'
    BY <2>2, TrackerUntouched, Zenon
  <2>5. WriterTypeOK'
    BY <2>2, SameWriterType, Zenon DEF TypeOK, taskVars
  <2> QED
    BY <2>2, <2>3, <2>4, <2>5, Zenon DEF TypeOK, taskVars
<1>4. CASE Pausing
  <2>1. CASE Resume
    <3>1. UNCHANGED <<ptVars, taskVars, fatal, good, streams, disturbances>> /\ mode' = "live"
      BY <2>1, Zenon DEF Resume
    <3>2. PTTypeOK' /\ HnsInSync'
      BY <3>1, TrackerUntouched, Zenon
    <3>3. WriterTypeOK'
      BY <3>1, SameWriterType, Zenon DEF TypeOK, taskVars
    <3> QED
      BY <3>1, <3>2, <3>3, Zenon DEF TypeOK, taskVars
  <2> QED
    BY <1>4, <2>1, PauseType, Zenon DEF Pausing
<1>5. CASE ReadErrors
  BY <1>5, ErrorType, Zenon DEF ReadErrors
<1>6. CASE WriteErrors
  <2>1. CASE StopWithError
    <3>1. /\ UNCHANGED <<ptVars, good, streams, disturbances>>
          /\ mode' = "error" /\ fatal' = FALSE /\ DropAllTasks
      BY <2>1, Zenon DEF StopWithError
    <3>2. PTTypeOK' /\ HnsInSync'
      BY <3>1, TrackerUntouched, Zenon
    <3> QED
      BY <3>1, <3>2, DropAllTasksType, Zenon DEF TypeOK
  <2> QED
    BY <1>6, <2>1, ErrorType, ReinitializeType, Zenon DEF WriteErrors
<1> QED
  BY <1>1, <1>2, <1>3, <1>4, <1>5, <1>6, Zenon DEF Next

\* What works on a piece, and a selection nothing of which is lost: every
\* missing piece is worked on or had its hash check interrupted.
Pursued == queue_pieces \cup {p \in Piece : IsInflight(p)} \cup HashedPieces

NothingElseLost == selected \ have \subseteq Pursued \cup interrupted

\* Whatever step: a missing piece that was worked on is worked on, downloaded
\* or interrupted, and one that was not selected is queued.
LEMMA PursuitFrame ==
  ASSUME NothingElseLost, mode # "error",
         interrupted' = IF mode = "error" THEN {}
                        ELSE (interrupted \cup Interrupts) \ queue_pieces',
         selected' \ have' \subseteq (selected \ have) \cup queue_pieces',
         selected' \cap Pursued \subseteq Pursued' \cup have' \cup Interrupts
  PROVE  NothingElseLost'
<1>1. queue_pieces' \subseteq Pursued'
  BY Zenon DEF Pursued
<1> QED
  BY <1>1, Zenon DEF NothingElseLost

\* A hash check goes on while its task is elsewhere.
LEMMA HashersStay ==
  ASSUME \A w \in Peer : writer[w].at = "hashing" => writer'[w] = writer[w]
  PROVE  HashedPieces \subseteq HashedPieces'
BY Zenon DEF HashedPieces, At, PieceAt

LEMMA HashersStayWithout ==
  ASSUME NEW peer \in Peer, writer[peer].at # "hashing",
         \A w \in Peer : w # peer => writer'[w] = writer[w]
  PROVE  HashedPieces \subseteq HashedPieces'
BY HashersStay, Zenon

\* The last chunk of a piece hands it from its owner to the hash check.
LEMMA MarkChunkPursues ==
  ASSUME TypeOK, NEW peer \in Peer, MarkChunk(peer)
  PROVE  Pursued \subseteq Pursued' /\ UNCHANGED <<have, selected>>
<1> DEFINE p == PieceAt(peer)
           c == writer[peer].chunk[2]
<1>1. /\ MarkChunkAndTake(p, c)
      /\ writer[peer].at = "written"
      /\ IF Completes(p, c) /\ IsInflight(p) THEN Goto(peer, "hashing") ELSE Done(peer)
  BY Zenon DEF MarkChunk, At
<1>2. /\ UNCHANGED <<queue_pieces, have, selected>>
      /\ inflight' = IF Completes(p, c) THEN [inflight EXCEPT ![p] = NoPeer] ELSE inflight
  BY <1>1, Zenon DEF MarkChunkAndTake, MarkChunkDownloaded
<1>3. p \in Piece
  BY <1>1, WriterPiece, Zenon
<1>t. inflight \in [Piece -> Peer \cup {NoPeer}]
  BY Zenon DEF TypeOK, PTTypeOK
<1>4. CASE Completes(p, c) /\ IsInflight(p)
  <2>1. /\ writer'[peer].at = "hashing"
        /\ writer'[peer].chunk = writer[peer].chunk
        /\ \A w \in Peer : w # peer => writer'[w] = writer[w]
    BY <1>1, <1>4, GotoMoves, Zenon
  <2>2. p \in HashedPieces'
    BY <2>1, ZenonT(30) DEF HashedPieces, At, PieceAt
  <2>3. HashedPieces \subseteq HashedPieces'
    BY <1>1, <2>1, HashersStayWithout, Zenon
  <2> HIDE DEF p, c
  <2>4. \A q \in Piece : q # p => inflight'[q] = inflight[q]
    BY <1>2, <1>3, <1>t, Zenon
  <2>5. ASSUME NEW q \in Piece, IsInflight(q)
        PROVE  q \in Pursued'
    BY <2>2, <2>4, <2>5, Zenon DEF Pursued, IsInflight
  <2> QED
    BY <1>2, <2>3, <2>5, ZenonT(30) DEF Pursued
<1>5. CASE ~ (Completes(p, c) /\ IsInflight(p))
  <2>1. \A w \in Peer : w # peer => writer'[w] = writer[w]
    BY <1>1, <1>5, DoneMoves, ZenonT(30)
  <2>2. HashedPieces \subseteq HashedPieces'
    BY <1>1, <2>1, HashersStayWithout, Zenon
  <2> HIDE DEF p, c
  <2>3. \A q \in Piece : inflight'[q] = inflight[q]
    BY <1>2, <1>3, <1>5, <1>t, Zenon DEF IsInflight
  <2> QED
    BY <1>2, <2>2, <2>3, Zenon DEF Pursued, IsInflight
<1> QED
  BY <1>4, <1>5, Zenon

\* The end of a hash check: the piece is downloaded, or queued again.
LEMMA CheckPiecePursues ==
  ASSUME TypeOK, NEW peer \in Peer, CheckPieceOk(peer) \/ CheckPieceFailed(peer)
  PROVE  /\ Pursued \subseteq Pursued' \cup have'
         /\ UNCHANGED selected /\ have \subseteq have'
<1> DEFINE p == PieceAt(peer)
<1>1. writer[peer].at = "hashing" /\ UNCHANGED <<inflight, selected>>
  BY Zenon DEF CheckPieceOk, CheckPieceFailed, MarkPieceHashOk, MarkPieceHashFailed, At,
         MarkPieceDownloaded, MarkPiecesBrokenIfNotHave
<1>2. \A w \in Peer : w # peer => writer'[w] = writer[w]
  BY GotoMoves, Zenon DEF CheckPieceOk, CheckPieceFailed
<1>3. /\ queue_pieces \subseteq queue_pieces'
      /\ have \subseteq have'
      /\ p \in queue_pieces' \cup have'
  BY Zenon DEF CheckPieceOk, CheckPieceFailed, MarkPieceHashOk, MarkPieceHashFailed,
         MarkPieceDownloaded, MarkPiecesBrokenIfNotHave
<1>4. HashedPieces \subseteq HashedPieces' \cup {p}
  BY <1>1, <1>2 DEF HashedPieces, At, PieceAt
<1> HIDE DEF p
<1> QED
  BY <1>1, <1>3, <1>4, Zenon DEF Pursued, IsInflight

\* A peer's task never drops a piece: what it leaves behind when it dies is
\* queued, and a piece it hashes is downloaded or queued.
LEMMA DownloadStepPursues ==
  ASSUME TypeOK, NEW peer \in Peer, DownloadStep(peer)
  PROVE  /\ Pursued \subseteq Pursued' \cup have'
         /\ UNCHANGED selected /\ have \subseteq have'
<1> DEFINE Same == UNCHANGED <<queue_pieces, have, selected, inflight>>
           Result == /\ Pursued \subseteq Pursued' \cup have'
                     /\ UNCHANGED selected /\ have \subseteq have'
<1>s. Same /\ HashedPieces \subseteq HashedPieces' => Result
  BY Zenon DEF Pursued, IsInflight
<1>w. UNCHANGED writer => HashedPieces \subseteq HashedPieces'
  BY HashersStay, Zenon
<1>d. Done(peer) /\ writer[peer].at # "hashing" => HashedPieces \subseteq HashedPieces'
  BY DoneMoves, HashersStayWithout, Zenon
<1>g. ASSUME NEW where, Goto(peer, where), writer[peer].at # "hashing"
      PROVE  HashedPieces \subseteq HashedPieces'
  BY <1>g, GotoMoves, HashersStayWithout, Zenon
<1>t. inflight \in [Piece -> Peer \cup {NoPeer}] /\ WriterTypeOK /\ peer # NoPeer
  BY PeerAssumption, Zenon DEF TypeOK, PTTypeOK
<1>1. CASE Connect(peer)
  <2>1. Same /\ UNCHANGED writer
    BY <1>1, ZenonT(30) DEF Connect, ptVars, ctVars
  <2> QED
    BY <1>s, <1>w, <2>1, Zenon
<1>2. CASE \E p \in LaterHave[peer] : OnHave(peer, p)
  <2>1. Same /\ UNCHANGED writer
    BY <1>2, Zenon DEF OnHave, ptVars, ctVars
  <2> QED
    BY <1>s, <1>w, <2>1, Zenon
<1>3. CASE OnPeerDied(peer)
  <2>1. /\ queue_pieces' = queue_pieces \cup (OwnedBy(peer) \ have)
        /\ inflight' = [p \in Piece |-> IF inflight[p] = peer THEN NoPeer ELSE inflight[p]]
        /\ UNCHANGED <<have, selected>>
        /\ Done(peer) /\ writer[peer].at # "hashing"
    BY <1>3, Zenon DEF OnPeerDied, ReleasePiecesOwnedBy, MarkPiecesBrokenIfNotHave, DropTask, Done,
                Runnable, InWriteToDisk, At
  <2>2. HashedPieces \subseteq HashedPieces'
    BY <1>d, <2>1, Zenon
  <2>3. ASSUME NEW p \in Piece, IsInflight(p)
        PROVE  p \in Pursued' \cup have'
    <3>1. CASE inflight[p] = peer
      BY <2>1, <3>1, ZenonT(30) DEF Pursued, OwnedBy
    <3>2. CASE inflight[p] # peer
      BY <2>1, <2>3, <3>2, Zenon DEF Pursued, IsInflight
    <3> QED
      BY <3>1, <3>2, Zenon
  <2> QED
    BY <2>1, <2>2, <2>3, Zenon DEF Pursued
<1>4. CASE OnNotNeededPeerDied(peer)
  <2>1. Same /\ Done(peer) /\ writer[peer].at # "hashing"
    BY <1>4, Zenon DEF OnNotNeededPeerDied, DropTask, Done, Runnable, InWriteToDisk, At, ptVars, ctVars
  <2> QED
    BY <1>s, <1>d, <2>1, Zenon
<1>5. CASE \E p \in Piece : AcquireReserved(peer, p)
  <2>1. PICK p \in Piece : AcquireReserved(peer, p)
    BY <1>5, Zenon
  <2>2. /\ queue_pieces' = queue_pieces \ {p}
        /\ inflight' = [inflight EXCEPT ![p] = peer]
        /\ UNCHANGED <<have, selected, writer>>
    BY <2>1, Zenon DEF AcquireReserved, ReservePiece, ReserveNeededPiece
  <2>3. HashedPieces \subseteq HashedPieces'
    BY <1>w, <2>2, Zenon
  <2>4. \A q \in Piece : inflight'[q] = IF q = p THEN peer ELSE inflight[q]
    BY <1>t, <2>2, Zenon
  <2> QED
    BY <1>t, <2>2, <2>3, <2>4, ZenonT(30) DEF Pursued, IsInflight
<1>6. CASE \E p \in Piece : AcquireStolen(peer, p)
  <2>1. PICK p \in Piece : AcquireStolen(peer, p)
    BY <1>6, Zenon
  <2>2. /\ inflight' = [inflight EXCEPT ![p] = peer]
        /\ UNCHANGED <<queue_pieces, have, selected, writer>>
    BY <2>1, Zenon DEF AcquireStolen, StealPiece, ctVars
  <2>3. HashedPieces \subseteq HashedPieces'
    BY <1>w, <2>2, Zenon
  <2>4. \A q \in Piece : inflight'[q] = IF q = p THEN peer ELSE inflight[q]
    BY <1>t, <2>2, ZenonT(30)
  <2> QED
    BY <1>t, <2>2, <2>3, <2>4, ZenonT(30) DEF Pursued, IsInflight
<1>7. CASE OnSteal(peer)
  <2>1. Same /\ UNCHANGED writer
    BY <1>7, ZenonT(30) DEF OnSteal, ptVars, ctVars
  <2> QED
    BY <1>s, <1>w, <2>1, Zenon
<1>8. CASE RequestChunk(peer)
  <2>1. Same /\ UNCHANGED writer
    BY <1>8, Zenon DEF RequestChunk, ptVars, ctVars
  <2> QED
    BY <1>s, <1>w, <2>1, Zenon
<1>9. CASE \E x \in Chunk, ok \in BOOLEAN : OnReceivedPiece(peer, x, ok)
  <2>1. Same /\ writer[peer].at # "hashing"
    BY <1>9, Zenon DEF OnReceivedPiece, ptVars, ctVars, At
  <2>2. \A w \in Peer : w # peer => writer'[w] = writer[w]
    BY <1>9, <1>t, Zenon DEF OnReceivedPiece, WriterTypeOK
  <2> QED
    BY <1>s, <2>1, <2>2, HashersStayWithout, ZenonT(30)
<1>10. CASE CheckSteal(peer)
  <2>1. Same /\ writer[peer].at # "hashing"
    BY <1>10, Zenon DEF CheckSteal, At, ptVars, ctVars
  <2>2. Done(peer) \/ Goto(peer, "checked")
    BY <1>10, Zenon DEF CheckSteal
  <2>3. HashedPieces \subseteq HashedPieces'
    BY <1>d, <1>g, <2>1, <2>2, Zenon
  <2> QED
    BY <1>s, <2>1, <2>3, ZenonT(30)
<1>11. CASE WriteChunk(peer)
  <2>1. Same /\ writer[peer].at # "hashing" /\ Goto(peer, "written")
    BY <1>11, Zenon DEF WriteChunk, At, ptVars, ctVars
  <2> QED
    BY <1>s, <1>g, <2>1, ZenonT(30)
<1>12. CASE MarkChunk(peer)
  BY <1>12, MarkChunkPursues, Zenon
<1>13. CASE CheckPieceOk(peer)
  BY <1>13, CheckPiecePursues, Zenon
<1>14. CASE CheckPieceFailed(peer)
  BY <1>14, CheckPiecePursues, ZenonT(30)
<1>15. CASE OnPieceCompleted(peer)
  <2>1. Same /\ writer[peer].at # "hashing"
    BY <1>15, Zenon DEF OnPieceCompleted, UpdateFileHaveOnPieceCompleted, At
  <2>2. Done(peer) \/ Goto(peer, "finishing")
    BY <1>15, Zenon DEF OnPieceCompleted
  <2>3. HashedPieces \subseteq HashedPieces'
    BY <1>d, <1>g, <2>1, <2>2, ZenonT(30)
  <2> QED
    BY <1>s, <2>1, <2>3, Zenon
<1>16. CASE DisconnectFullPeers(peer)
  <2>1. Same /\ Done(peer) /\ writer[peer].at # "hashing"
    BY <1>16, Zenon DEF DisconnectFullPeers, At, ptVars, ctVars
  <2> QED
    BY <1>s, <1>d, <2>1, Zenon
<1> HIDE DEF Same, Result
<1> QED
  BY <1>1, <1>2, <1>3, <1>4, <1>5, <1>6, <1>7, <1>8, <1>9, <1>10, <1>11, <1>12,
     <1>13, <1>14, <1>15, <1>16, ZenonT(30) DEF DownloadStep, Result

\* A pause queues what is in flight; only the hash checks are left out.
LEMMA PausePursues ==
  ASSUME TypeOK, Pause
  PROVE  /\ Pursued \subseteq Pursued' \cup have' \cup Interrupts
         /\ UNCHANGED <<have, selected>>
<1>1. /\ queue_pieces' = queue_pieces \cup ({p \in Piece : IsInflight(p)} \ have)
      /\ UNCHANGED <<have, selected>>
  BY Zenon DEF Pause, IntoChunks, MarkPiecesBrokenIfNotHave
<1>2. Interrupts = HashedPieces
  BY Zenon DEF Pause, Interrupts
<1> QED
  BY <1>1, <1>2, Zenon DEF Pursued

\* A hash check that cannot read the file is interrupted.
LEMMA CheckPieceErrorPursues ==
  ASSUME TypeOK, NEW peer \in Peer, CheckPieceError(peer)
  PROVE  /\ Pursued \subseteq Pursued' \cup Interrupts
         /\ UNCHANGED <<have, selected>>
<1>1. /\ UNCHANGED <<queue_pieces, have, selected, inflight, mode>>
      /\ writer[peer].at = "hashing"
  BY Zenon DEF CheckPieceError, ptVars, ctVars, At
<1>2. writer'[peer].at = "failed" /\ \A w \in Peer : w # peer => writer'[w] = writer[w]
  BY GotoMoves, Zenon DEF CheckPieceError
<1>3. PieceAt(peer) \in Interrupts
  BY <1>1, <1>2, Zenon DEF Interrupts, At
<1>4. HashedPieces \subseteq HashedPieces' \cup {PieceAt(peer)}
  BY <1>1, <1>2 DEF HashedPieces, At, PieceAt
<1> QED
  BY <1>1, <1>3, <1>4, Zenon DEF Pursued, IsInflight

\* The steps of the whole environment lose nothing but hash checks.
LEMMA NextLosesNothingElse ==
  ASSUME TypeOK, mode # "error" => NothingElseLost, DisturbedNext
  PROVE  (mode # "error" => NothingElseLost)'
<1>i. interrupted' = IF mode = "error" THEN {}
                     ELSE (interrupted \cup Interrupts) \ queue_pieces'
  BY Zenon DEF DisturbedNext
<1>q. ASSUME UNCHANGED <<ptVars, writer>>, mode # "error"
      PROVE  NothingElseLost'
  <2>1. UNCHANGED <<queue_pieces, have, selected, inflight>>
    BY <1>q, Zenon DEF ptVars, ctVars
  <2>2. HashedPieces \subseteq HashedPieces'
    BY <1>q, HashersStay, Zenon
  <2>3. Pursued \subseteq Pursued'
    BY <2>1, <2>2, Zenon DEF Pursued, IsInflight
  <2> QED
    BY <1>i, <1>q, <2>1, <2>3, PursuitFrame, Zenon
<1>1. CASE Download
  <2>1. PICK peer \in Peer : DownloadStep(peer)
    BY <1>1, Zenon DEF Download
  <2>2. /\ Pursued \subseteq Pursued' \cup have'
        /\ UNCHANGED selected /\ have \subseteq have'
    BY <2>1, DownloadStepPursues, Zenon
  <2>3. UNCHANGED mode
    BY <2>1, ZenonT(30)
       DEF DownloadStep, Connect, OnHave, OnPeerDied, OnNotNeededPeerDied, AcquireReserved,
       AcquireStolen, OnSteal, RequestChunk, OnReceivedPiece, CheckSteal, WriteChunk, MarkChunk,
       CheckPieceOk, CheckPieceFailed, OnPieceCompleted, DisconnectFullPeers, envVars
  <2> QED
    BY <1>i, <2>2, <2>3, PursuitFrame, Zenon
<1>2. CASE Reselection
  <2>1. PICK only_files \in OnlyFiles : SelectFiles(only_files)
    BY <1>2, Zenon DEF Reselection
  <2> DEFINE fresh == (selected' \ selected) \ have
  <2>2. /\ queue_pieces' = (queue_pieces \cup fresh) \cap (have \cup selected')
        /\ UNCHANGED <<have, inflight, writer>>
        /\ mode # "error" /\ UNCHANGED mode
    BY <2>1, Zenon DEF SelectFiles, UpdateOnlyFiles, UpdateOnlyFilesTracker, taskVars
  <2>3. HashedPieces \subseteq HashedPieces'
    BY <2>2, HashersStay, Zenon
  <2>4. selected' \cap Pursued \subseteq Pursued'
    BY <2>2, <2>3, Zenon DEF Pursued, IsInflight
  <2>5. selected' \ have' \subseteq (selected \ have) \cup queue_pieces'
    BY <2>2, Zenon
  <2> QED
    BY <1>i, <2>2, <2>4, <2>5, PursuitFrame, ZenonT(30)
<1>3. CASE Streaming
  <2>1. UNCHANGED <<ptVars, writer, mode>>
    BY <1>3, Zenon DEF Streaming, OpenStream, CloseStream, taskVars
  <2> QED
    BY <1>q, <2>1, Zenon
<1>4. CASE Pause
  <2>1. mode = "live"
    BY <1>4, Zenon DEF Pause
  <2> QED
    BY <1>4, <1>i, <2>1, PausePursues, PursuitFrame, ZenonT(30)
<1>5. CASE Resume
  <2>1. UNCHANGED <<ptVars, writer>> /\ mode = "paused"
    BY <1>5, Zenon DEF Resume, taskVars
  <2> QED
    BY <1>q, <2>1, Zenon
<1>6. CASE ReadErrors
  <2>1. PICK peer \in Peer : CheckPieceError(peer)
    BY <1>6, Zenon DEF ReadErrors
  <2>2. mode = "live"
    BY <2>1, Zenon DEF CheckPieceError
  <2> QED
    BY <1>i, <2>1, <2>2, CheckPieceErrorPursues, PursuitFrame, ZenonT(30)
<1>7. CASE \E peer \in Peer : WriteChunkError(peer)
  <2>1. PICK peer \in Peer : WriteChunkError(peer)
    BY <1>7, Zenon
  <2>2. /\ UNCHANGED <<queue_pieces, have, selected, inflight>>
        /\ mode = "live" /\ writer[peer].at = "checked"
    BY <2>1, Zenon DEF WriteChunkError, ptVars, ctVars, At
  <2>3. \A w \in Peer : w # peer => writer'[w] = writer[w]
    BY <2>1, GotoMoves, Zenon DEF WriteChunkError
  <2>4. HashedPieces \subseteq HashedPieces'
    BY <2>2, <2>3, HashersStayWithout, Zenon
  <2>5. Pursued \subseteq Pursued'
    BY <2>2, <2>4, Zenon DEF Pursued, IsInflight
  <2> QED
    BY <1>i, <2>2, <2>5, PursuitFrame, Zenon
<1>8. CASE StopWithError
  BY <1>8, Zenon DEF StopWithError
<1>9. CASE Reinitialize
  <2>1. queue_pieces' = selected' \ have'
    BY <1>9, Zenon DEF Reinitialize, ComputeQueuedPieces
  <2> QED
    BY <2>1, Zenon DEF NothingElseLost, Pursued
<1> QED
  BY <1>1, <1>2, <1>3, <1>4, <1>5, <1>6, <1>7, <1>8, <1>9, ZenonT(30)
     DEF DisturbedNext, Next, Pausing, WriteErrors

DisturbedInv == TypeOK /\ HnsInSync /\ (mode # "error" => NothingElseLost)

LEMMA DisturbedInvariant == DisturbedSpec => []DisturbedInv
<1>1. DisturbedInit => DisturbedInv
  <2> SUFFICES ASSUME DisturbedInit
               PROVE  DisturbedInv
    BY Zenon
  <2>1. TypeOK /\ HnsInSync /\ Safe
    BY InitSafe, Zenon DEF DisturbedInit
  <2>2. NothingElseLost
    BY <2>1, Zenon DEF Safe, NeededPieceTracked, NothingElseLost, Pursued
  <2> QED
    BY <2>1, <2>2, Zenon DEF DisturbedInv
<1>2. DisturbedInv /\ [DisturbedNext]_<<vars, interrupted>> => DisturbedInv'
  <2>1. ASSUME DisturbedInv, DisturbedNext
        PROVE  DisturbedInv'
    BY <2>1, NextKeepsTypes, NextLosesNothingElse, Zenon DEF DisturbedInv, DisturbedNext
  <2>2. ASSUME DisturbedInv, UNCHANGED <<vars, interrupted>>
        PROVE  DisturbedInv'
    <3>1. UNCHANGED <<ptVars, taskVars, envVars, interrupted>>
      BY <2>2, Zenon DEF vars
    <3>2. PTTypeOK' /\ HnsInSync'
      BY <2>2, <3>1, TrackerUntouched, ZenonT(30) DEF DisturbedInv
    <3>3. WriterTypeOK'
      BY <2>2, <3>1, SameWriterType, ZenonT(30) DEF DisturbedInv, TypeOK, taskVars
    <3>4. TypeOK'
      BY <2>2, <3>1, <3>2, <3>3, ZenonT(30) DEF DisturbedInv, TypeOK, taskVars, envVars
    <3>5. UNCHANGED <<queue_pieces, have, selected, inflight, writer, mode>>
      BY <3>1, Zenon DEF ptVars, ctVars, taskVars, envVars
    <3>6. HashedPieces \subseteq HashedPieces'
      BY <3>5, HashersStay, Zenon
    <3>7. Pursued \subseteq Pursued'
      BY <3>5, <3>6, Zenon DEF Pursued, IsInflight
    <3> QED
      BY <2>2, <3>1, <3>2, <3>4, <3>5, <3>7, ZenonT(30) DEF DisturbedInv, NothingElseLost
  <2> QED
    BY <2>1, <2>2, Zenon
<1> QED
  BY <1>1, <1>2, PTL DEF DisturbedSpec

\* Whatever the user and the storage do in the middle of a download, the only
\* selected pieces a live torrent forgets are those whose hash check a pause or
\* a read error interrupted.
THEOREM OnlyHashChecksGetLost == DisturbedSpec => []OnlyHashChecksAreLost
<1>1. DisturbedInv => OnlyHashChecksAreLost
  BY Zenon DEF DisturbedInv, NothingElseLost, Pursued, OnlyHashChecksAreLost
<1> QED
  BY <1>1, DisturbedInvariant, PTL

\* chunk_tracker.rs:42: the cached byte counts stay in sync with the bit fields
\* through selections, pauses, errors and rebuilt trackers.
THEOREM CountersSurviveDisturbances == DisturbedSpec => []HnsInSync
<1>1. DisturbedInv => HnsInSync
  BY Zenon DEF DisturbedInv
<1> QED
  BY <1>1, DisturbedInvariant, PTL
=============================================================================
