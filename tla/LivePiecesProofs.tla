-------------------------- MODULE LivePiecesProofs --------------------------
(***************************************************************************)
(* The undisturbed download keeps its pieces in order, for every torrent,  *)
(* every set of peers and every interleaving of their tasks: the steps of  *)
(* write_to_disk, and the theorems.                                        *)
(***************************************************************************)
EXTENDS LivePiecesSteps

\* A step of write_to_disk that leaves the tracker alone.
LEMMA WriterStepKeepsSafe ==
  ASSUME TypeOK, Safe, NEW peer \in Peer,
         UNCHANGED <<queue_pieces, chunk_status, have, selected, hns, inflight, mode, streams>>,
         \A w \in Peer : w # peer => writer'[w] = writer[w],
         writer[peer].at # "hashing", writer'[peer].at # "hashing",
         writer'[peer].at \in {"checked", "written"} =>
            inflight[PieceAt(peer)] = peer /\ writer'[peer].chunk = writer[peer].chunk,
         writer'[peer].at = "finishing" => IsFinished,
         HaveIsOnDisk', OwnerIsLive'
  PROVE  Safe'
<1>1. HashedPieces' = HashedPieces
  BY HashedFrame, Zenon
<1>2. WriterOwnsPiece'
  BY Zenon DEF Safe, WriterOwnsPiece, PieceAt
<1>3. HashingIsExclusive'
  BY HashersUntouched, Zenon DEF Safe
<1>4. \A w \in Peer : writer'[w].at = "finishing" => IsFinished
  BY FinishingMeansFinished, Zenon DEF Safe
<1>5. IsFinished => IsFinished'
  BY Zenon DEF IsFinished
<1>6. FinishedIsStable'
  BY <1>1, <1>4, <1>5, StableFrame, Zenon DEF Safe
<1>7. FullPieceIsHashed' /\ NeededPieceTracked'
  BY <1>1, FullFrame, TrackedFrame, Zenon DEF Safe
<1> QED
  BY <1>2, <1>3, <1>6, <1>7, DisjointFrame, Zenon DEF Safe

\* Only the owner of a piece gets past the check, and takes its read lock.
LEMMA CheckStealKeepsSafe ==
  ASSUME TypeOK, Safe, NEW peer \in Peer, CheckSteal(peer)
  PROVE  Safe'
<1>1. UNCHANGED <<ptVars, good, mode, streams, live>> /\ writer[peer].at = "received"
  BY Zenon DEF CheckSteal, envVars, At
<1>2. UNCHANGED <<queue_pieces, chunk_status, have, selected, hns, inflight>>
  BY <1>1, Zenon DEF ptVars, ctVars
<1>3. HaveIsOnDisk' /\ OwnerIsLive'
  BY <1>1, <1>2, OnDiskFrame, OwnerFrame, Zenon DEF Safe
<1>4. CASE Done(peer)
  <2>1. writer'[peer].at = "idle" /\ \A w \in Peer : w # peer => writer'[w] = writer[w]
    BY <1>4, DoneMoves, Zenon
  <2> QED
    BY <1>1, <1>2, <1>3, <2>1, WriterStepKeepsSafe, Zenon
<1>5. CASE inflight[PieceAt(peer)] = peer /\ Goto(peer, "checked")
  <2>1. /\ \A w \in Peer : w # peer => writer'[w] = writer[w]
        /\ writer'[peer].at = "checked"
        /\ writer'[peer].chunk = writer[peer].chunk
    BY <1>5, GotoMoves, Zenon
  <2> QED
    BY <1>1, <1>2, <1>3, <1>5, <2>1, WriterStepKeepsSafe, Zenon
<1> QED
  BY <1>4, <1>5, Zenon DEF CheckSteal

\* A chunk is written to a piece its writer owns, hence never to one we have.
LEMMA WriteChunkKeepsSafe ==
  ASSUME TypeOK, Safe, NEW peer \in Peer, WriteChunk(peer)
  PROVE  Safe'
<1>1. /\ UNCHANGED <<ptVars, mode, streams, live>>
      /\ writer[peer].at = "checked"
      /\ good \ {writer[peer].chunk} \subseteq good'
  BY Zenon DEF WriteChunk, At
<1>2. UNCHANGED <<queue_pieces, chunk_status, have, selected, hns, inflight>>
  BY <1>1, Zenon DEF ptVars, ctVars
<1>3. /\ \A w \in Peer : w # peer => writer'[w] = writer[w]
      /\ writer'[peer].at = "written"
      /\ writer'[peer].chunk = writer[peer].chunk
  BY GotoMoves, Zenon DEF WriteChunk
<1>4. /\ PieceAt(peer) \in Piece
      /\ writer[peer].chunk = <<PieceAt(peer), writer[peer].chunk[2]>>
  BY <1>1, WriterPiece, Zenon
<1>5. inflight[PieceAt(peer)] = peer
  BY <1>1, Zenon DEF Safe, WriterOwnsPiece
<1>6. PieceAt(peer) \notin have
  BY <1>4, <1>5, PeerAssumption, Zenon DEF Safe, PieceStatesDisjoint, IsInflight
<1>7. HaveIsOnDisk'
  <2>1. ASSUME NEW p \in have
        PROVE  p \in GoodPieces'
    <3>1. p \in GoodPieces /\ p # PieceAt(peer)
      BY <1>6, Zenon DEF Safe, HaveIsOnDisk
    <3>2. p \in Piece /\ \A c \in Chunks(p) : <<p, c>> \in good
      BY <3>1, Zenon DEF GoodPieces
    <3>3. \A c \in Chunks(p) : <<p, c>> # writer[peer].chunk
      BY <1>4, <3>1
    <3> QED
      BY <1>1, <3>2, <3>3, Zenon DEF GoodPieces
  <2> QED
    BY <1>2, <2>1, Zenon DEF HaveIsOnDisk
<1>8. OwnerIsLive'
  BY <1>1, <1>2, OwnerFrame, Zenon DEF Safe
<1> QED
  BY <1>1, <1>2, <1>3, <1>5, <1>7, <1>8, WriterStepKeepsSafe, ZenonT(30)

\* on_piece_completed only counts, and finds out whether the torrent is done.
LEMMA OnPieceCompletedKeepsSafe ==
  ASSUME TypeOK, Safe, NEW peer \in Peer, OnPieceCompleted(peer)
  PROVE  Safe'
<1>1. /\ UNCHANGED <<queue_pieces, chunk_status, have, selected, hns, inflight, mode, streams>>
      /\ UNCHANGED <<good, live>>
      /\ writer[peer].at = "verified"
  BY Zenon DEF OnPieceCompleted, UpdateFileHaveOnPieceCompleted, envVars, At
<1>2. /\ \A w \in Peer : w # peer => writer'[w] = writer[w]
      /\ \/ writer'[peer].at = "idle"
         \/ writer'[peer].at = "finishing" /\ IsFinished
  BY GotoMoves, DoneMoves, Zenon DEF OnPieceCompleted, IsFinishedAndNoActiveStreams
<1>3. HaveIsOnDisk' /\ OwnerIsLive'
  BY <1>1, OnDiskFrame, OwnerFrame, Zenon DEF Safe
<1> QED
  BY <1>1, <1>2, <1>3, WriterStepKeepsSafe, Zenon

\* Full peers are parked only when everything selected is there, so that no
\* piece is in flight and none is left with a parked owner.
LEMMA DisconnectFullPeersKeepsSafe ==
  ASSUME TypeOK, HnsInSync, Safe, NEW peer \in Peer, DisconnectFullPeers(peer)
  PROVE  Safe'
<1>1. UNCHANGED <<ptVars, good, mode, streams>> /\ writer[peer].at = "finishing"
  BY Zenon DEF DisconnectFullPeers, envVars, At
<1>2. UNCHANGED <<queue_pieces, chunk_status, have, selected, hns, inflight>>
  BY <1>1, Zenon DEF ptVars, ctVars
<1>3. writer'[peer].at = "idle" /\ \A w \in Peer : w # peer => writer'[w] = writer[w]
  BY DoneMoves, Zenon DEF DisconnectFullPeers
<1>4. IsFinished
  BY <1>1, FinishingMeansFinished, Zenon DEF Safe
<1>5. selected \subseteq have
  BY <1>4, FinishedMeaning, Zenon DEF TypeOK, PTTypeOK
<1>6. \A p \in Piece : ~ IsInflight(p)
  BY <1>5, Zenon DEF Safe, FinishedIsStable, PieceStatesDisjoint
<1>7. HaveIsOnDisk' /\ OwnerIsLive'
  BY <1>1, <1>2, <1>6, OnDiskFrame, Zenon DEF Safe, OwnerIsLive, IsInflight
<1> QED
  BY <1>1, <1>2, <1>3, <1>7, WriterStepKeepsSafe, Zenon

\* The chunk that completes a piece hands it from the in-flight map to the hash
\* check; no other task writes to it, owns it or hashes it.
LEMMA LastChunkKeepsSafe ==
  ASSUME TypeOK, Safe, NEW peer \in Peer, NEW p \in Piece, NEW c \in Chunks(p),
         p = PieceAt(peer), writer[peer].at = "written",
         Completes(p, c), MarkChunkDownloaded(p, c),
         inflight' = [inflight EXCEPT ![p] = NoPeer],
         Goto(peer, "hashing"),
         UNCHANGED <<good, mode, streams, live>>
  PROVE  Safe'
<1>1. /\ UNCHANGED <<queue_pieces, have, selected, hns>>
      /\ chunk_status' = [chunk_status EXCEPT ![p] = @ \cup {c}]
  BY Zenon DEF MarkChunkDownloaded
<1>2. /\ \A w \in Peer : w # peer => writer'[w] = writer[w]
      /\ writer'[peer].at = "hashing"
      /\ writer'[peer].chunk = writer[peer].chunk
  BY GotoMoves, Zenon
<1>3. PieceAt(peer)' = p /\ \A w \in Peer : w # peer => PieceAt(w)' = PieceAt(w)
  BY <1>2, Zenon DEF PieceAt
<1>4. inflight[p] = peer /\ peer # NoPeer
  BY PeerAssumption, Zenon DEF Safe, WriterOwnsPiece
<1>5. p \notin have \cup queue_pieces
  BY <1>4, Zenon DEF Safe, PieceStatesDisjoint, IsInflight
<1>6. \A w \in Peer : writer[w].at = "hashing" =>
         /\ PieceAt(w) # p
         /\ PieceAt(w) \notin have \cup queue_pieces
         /\ inflight[PieceAt(w)] = NoPeer
  BY <1>4, Zenon DEF Safe, HashingIsExclusive, At, IsInflight
<1>7. \A w \in Peer : w # peer /\ writer[w].at \in {"checked", "written"} => PieceAt(w) # p
  BY <1>4, Zenon DEF Safe, WriterOwnsPiece
<1>t. chunk_status \in [Piece -> SUBSET Nat] /\ inflight \in [Piece -> Peer \cup {NoPeer}]
  BY Zenon DEF TypeOK, PTTypeOK, CTTypeOK
<1>8. HashedPieces' = HashedPieces \cup {p}
  BY <1>2, <1>3, ZenonT(30) DEF HashedPieces, At
<1>9. \A q \in Piece : inflight'[q] = IF q = p THEN NoPeer ELSE inflight[q]
  BY <1>t, Zenon
<1>10. PieceStatesDisjoint' /\ OwnerIsLive'
  BY <1>1, <1>9 DEF Safe, PieceStatesDisjoint, OwnerIsLive, IsInflight
<1>11. WriterOwnsPiece'
  <2>1. ASSUME NEW w \in Peer, writer'[w].at \in {"checked", "written"}
        PROVE  inflight'[PieceAt(w)'] = w
    <3>1. w # peer /\ writer'[w] = writer[w] /\ PieceAt(w)' = PieceAt(w)
      BY <1>2, <1>3, <2>1, Zenon
    <3>2. PieceAt(w) \in Piece /\ PieceAt(w) # p /\ inflight[PieceAt(w)] = w
      BY <1>7, <2>1, <3>1, WriterPiece, Zenon DEF Safe, WriterOwnsPiece
    <3> QED
      BY <1>9, <3>1, <3>2, ZenonT(30)
  <2> QED
    BY <2>1, Zenon DEF WriterOwnsPiece
<1>12. HashingIsExclusive'
  <2> SUFFICES ASSUME NEW w \in Peer, writer'[w].at = "hashing"
               PROVE  /\ PieceAt(w)' \notin have' \cup queue_pieces'
                      /\ inflight'[PieceAt(w)'] = NoPeer
                      /\ \A v \in Peer : writer'[v].at = "hashing" /\ PieceAt(v)' = PieceAt(w)'
                                         => v = w
    BY Zenon DEF HashingIsExclusive, At, IsInflight
  <2>1. CASE w = peer
    BY <1>1, <1>2, <1>3, <1>5, <1>6, <1>9, <2>1, SMTT(30)
  <2>2. CASE w # peer
    <3>1. PieceAt(w)' = PieceAt(w) /\ writer[w].at = "hashing" /\ PieceAt(w) \in Piece
      BY <1>2, <1>3, <2>2, WriterPiece, Zenon
    <3>2. PieceAt(w) # p /\ PieceAt(w) \notin have \cup queue_pieces /\ inflight[PieceAt(w)] = NoPeer
      BY <1>6, <3>1, Zenon
    <3>3. ASSUME NEW v \in Peer, writer'[v].at = "hashing", PieceAt(v)' = PieceAt(w)'
          PROVE  v = w
      <4>1. v # peer
        BY <1>3, <3>1, <3>2, <3>3, Zenon
      <4>2. writer[v].at = "hashing" /\ PieceAt(v) = PieceAt(w)
        BY <1>2, <1>3, <3>1, <3>3, <4>1, ZenonT(30)
      <4> QED
        BY <3>1, <4>2, Zenon DEF Safe, HashingIsExclusive, At
    <3> QED
      BY <1>1, <1>9, <3>1, <3>2, <3>3, ZenonT(30)
  <2> QED
    BY <2>1, <2>2, Zenon
<1>13. FullPieceIsHashed'
  BY <1>1, <1>8, <1>t, Zenon DEF Safe, FullPieceIsHashed, PreviouslyCompleted
<1>14. NeededPieceTracked'
  BY <1>1, <1>8, <1>9, Zenon DEF Safe, NeededPieceTracked, IsInflight
<1>15. FinishedIsStable'
  <2>1. p \in selected
    BY <1>4, Zenon DEF Safe, FinishedIsStable, IsInflight
  <2>2. (queue_pieces \cup {q \in Piece : IsInflight(q)} \cup HashedPieces)' \subseteq selected'
    BY <1>1, <1>8, <1>9, <2>1, ZenonT(30) DEF Safe, FinishedIsStable, IsInflight
  <2>3. \A w \in Peer : writer'[w].at = "finishing" => IsFinished'
    BY <1>1, <1>2, FinishingMeansFinished, Zenon DEF Safe, IsFinished
  <2> QED
    BY <2>2, <2>3, Zenon DEF FinishedIsStable, At
<1> QED
  BY <1>1, <1>10, <1>11, <1>12, <1>13, <1>14, <1>15, OnDiskFrame, Zenon DEF Safe

LEMMA MarkChunkKeepsSafe ==
  ASSUME TypeOK, Safe, NEW peer \in Peer, MarkChunk(peer)
  PROVE  Safe'
<1>1. writer[peer].at = "written" /\ UNCHANGED <<good, mode, streams, live>>
  BY Zenon DEF MarkChunk, envVars, At
<1> DEFINE p == PieceAt(peer)
           c == writer[peer].chunk[2]
<1>2. p \in Piece /\ c \in Chunks(p)
  BY <1>1, WriterPiece, Zenon
<1>3. /\ MarkChunkDownloaded(p, c)
      /\ inflight' = IF Completes(p, c) THEN [inflight EXCEPT ![p] = NoPeer] ELSE inflight
      /\ IF Completes(p, c) /\ IsInflight(p) THEN Goto(peer, "hashing") ELSE Done(peer)
  BY Zenon DEF MarkChunk, MarkChunkAndTake
<1>4. inflight[p] = peer /\ IsInflight(p)
  BY <1>1, PeerAssumption, Zenon DEF Safe, WriterOwnsPiece, IsInflight
<1> HIDE DEF c
<1>5. CASE Completes(p, c)
  BY <1>1, <1>2, <1>3, <1>4, <1>5, LastChunkKeepsSafe, ZenonT(30)
<1>6. CASE ~ Completes(p, c)
  <2>1. /\ UNCHANGED <<queue_pieces, have, selected, hns, inflight>>
        /\ chunk_status' = [chunk_status EXCEPT ![p] = @ \cup {c}]
        /\ Done(peer)
    BY <1>3, <1>6, Zenon DEF MarkChunkDownloaded
  <2>2. writer'[peer].at = "idle" /\ \A w \in Peer : w # peer => writer'[w] = writer[w]
    BY <2>1, DoneMoves, Zenon
  <2>3. HashedPieces' = HashedPieces
    BY <1>1, <2>2, HashedFrame, Zenon
  <2>4. p \notin have /\ \A w \in Peer : At(w, "hashing") => PieceAt(w) # p
    BY <1>2, <1>4, Zenon DEF Safe, PieceStatesDisjoint, HashingIsExclusive
  <2>5. p \notin HashedPieces
    BY <2>4, Zenon DEF HashedPieces
  <2>6. ~ PreviouslyCompleted(p)
    BY <1>2, <2>4, <2>5, Zenon DEF Safe, FullPieceIsHashed
  <2>7. chunk_status[p] \cup {c} # Chunks(p)
    BY <1>6, <2>6, Zenon DEF Completes
  <2>t. chunk_status \in [Piece -> SUBSET Nat]
    BY Zenon DEF TypeOK, PTTypeOK, CTTypeOK
  <2>8. FullPieceIsHashed'
    BY <2>1, <2>3, <2>7, <2>t, Zenon DEF Safe, FullPieceIsHashed, PreviouslyCompleted
  <2>9. WriterOwnsPiece'
    BY <2>1, <2>2, WriterFrame, Zenon DEF Safe
  <2>10. HashingIsExclusive'
    BY <2>1, <2>2, HashersUntouched, Zenon DEF Safe
  <2>11. FinishedIsStable'
    <3>1. \A w \in Peer : writer'[w].at = "finishing" => IsFinished
      BY <2>2, FinishingMeansFinished, Zenon DEF Safe
    <3>2. IsFinished => IsFinished'
      BY <2>1, Zenon DEF IsFinished
    <3> QED
      BY <2>1, <2>3, <3>1, <3>2, StableFrame, Zenon DEF Safe
  <2>12. NeededPieceTracked'
    BY <2>1, <2>3, TrackedFrame, Zenon DEF Safe
  <2> QED
    BY <1>1, <2>1, <2>8, <2>9, <2>10, <2>11, <2>12, DisjointFrame, OnDiskFrame, OwnerFrame, ZenonT(30)
       DEF Safe
<1> QED
  BY <1>5, <1>6, Zenon

\* What is known of a piece being hashed.
LEMMA HasherFacts ==
  ASSUME TypeOK, Safe, NEW peer \in Peer, writer[peer].at = "hashing"
  PROVE  /\ PieceAt(peer) \in Piece
         /\ PieceAt(peer) \notin have \cup queue_pieces
         /\ inflight[PieceAt(peer)] = NoPeer
         /\ PieceAt(peer) \in selected
         /\ \A w \in Peer : w # peer /\ writer[w].at = "hashing" => PieceAt(w) # PieceAt(peer)
<1>1. PieceAt(peer) \in Piece
  BY WriterPiece, Zenon
<1>2. PieceAt(peer) \in HashedPieces
  BY Zenon DEF HashedPieces, At
<1>3. PieceAt(peer) \in selected
  BY <1>2, Zenon DEF Safe, FinishedIsStable
<1> QED
  BY <1>1, <1>3, Zenon DEF Safe, HashingIsExclusive, At, IsInflight

\* A hash check that ends, whatever its result, leaves the others alone.
LEMMA HashingEnds ==
  ASSUME TypeOK, Safe, NEW peer \in Peer, writer[peer].at = "hashing",
         UNCHANGED inflight, have' \subseteq have \cup {PieceAt(peer)},
         queue_pieces' \subseteq queue_pieces \cup {PieceAt(peer)},
         \A w \in Peer : w # peer => writer'[w] = writer[w],
         writer'[peer].at \in {"verified", "failed"}
  PROVE  /\ HashingIsExclusive'
         /\ WriterOwnsPiece'
         /\ HashedPieces' \subseteq HashedPieces
         /\ HashedPieces \subseteq HashedPieces' \cup {PieceAt(peer)}
<1>1. ASSUME NEW w \in Peer, writer'[w].at = "hashing"
      PROVE  /\ writer'[w] = writer[w]
             /\ PieceAt(w) \notin have' \cup queue_pieces'
             /\ inflight'[PieceAt(w)] = NoPeer
  <2>1. w # peer /\ writer'[w] = writer[w]
    BY <1>1, Zenon
  <2>2. PieceAt(w) # PieceAt(peer)
    BY <1>1, <2>1, HasherFacts, Zenon
  <2> QED
    BY <1>1, <2>1, <2>2, HasherFacts, Zenon
<1>2. HashingIsExclusive'
  BY <1>1, HashersLeftAlone, Zenon DEF Safe
<1>3. WriterOwnsPiece'
  BY WriterFrame, Zenon DEF Safe
<1>4. HashedPieces' \subseteq HashedPieces
  BY DEF HashedPieces, At, PieceAt
<1>5. HashedPieces \subseteq HashedPieces' \cup {PieceAt(peer)}
  BY DEF HashedPieces, At, PieceAt
<1> QED
  BY <1>2, <1>3, <1>4, <1>5, Zenon

\* A piece whose hash matched is on disk, and is marked as downloaded.
LEMMA CheckPieceOkKeepsSafe ==
  ASSUME TypeOK, HnsInSync, TypeOK', HnsInSync', Safe,
         NEW peer \in Peer, CheckPieceOk(peer)
  PROVE  Safe'
<1>1. /\ UNCHANGED <<queue_pieces, chunk_status, inflight, selected, good, mode, streams, live>>
      /\ have' = have \cup {PieceAt(peer)}
      /\ PieceAt(peer) \in GoodPieces
      /\ writer[peer].at = "hashing"
  BY Zenon DEF CheckPieceOk, MarkPieceHashOk, MarkPieceDownloaded, envVars, At
<1>2. writer'[peer].at = "verified" /\ \A w \in Peer : w # peer => writer'[w] = writer[w]
  BY GotoMoves, Zenon DEF CheckPieceOk
<1>3. /\ HashingIsExclusive' /\ WriterOwnsPiece'
      /\ HashedPieces' \subseteq HashedPieces
      /\ HashedPieces \subseteq HashedPieces' \cup {PieceAt(peer)}
  BY <1>1, <1>2, HashingEnds, Zenon
<1>4. IsFinished => IsFinished'
  <2>1. selected \subseteq have => selected' \subseteq have'
    BY <1>1, Zenon
  <2>2. (IsFinished <=> selected \subseteq have)'
    BY FinishedMeaning, PTL DEF TypeOK, PTTypeOK
  <2> QED
    BY <2>1, <2>2, FinishedMeaning, ZenonT(30) DEF TypeOK, PTTypeOK
<1>5. PieceStatesDisjoint'
  BY <1>1, HasherFacts, Zenon DEF Safe, PieceStatesDisjoint, IsInflight
<1>6. HaveIsOnDisk'
  BY <1>1, Zenon DEF Safe, HaveIsOnDisk, GoodPieces
<1>7. FullPieceIsHashed'
  BY <1>1, <1>3, Zenon DEF Safe, FullPieceIsHashed, PreviouslyCompleted
<1>8. NeededPieceTracked'
  BY <1>1, <1>3, Zenon DEF Safe, NeededPieceTracked, IsInflight
<1>9. \A w \in Peer : writer'[w].at = "finishing" => IsFinished
  BY <1>2, FinishingMeansFinished, Zenon DEF Safe
<1>10. FinishedIsStable'
  BY <1>1, <1>3, <1>4, <1>9, StableFrame, ZenonT(30) DEF Safe
<1> QED
  BY <1>1, <1>3, <1>5, <1>6, <1>7, <1>8, <1>10, OwnerFrame, ZenonT(30) DEF Safe

\* A piece whose hash did not match goes back to the queue, all chunks missing.
LEMMA CheckPieceFailedKeepsSafe ==
  ASSUME TypeOK, Safe, NEW peer \in Peer, CheckPieceFailed(peer)
  PROVE  Safe'
<1>0. writer[peer].at = "hashing"
  BY ZenonT(30) DEF CheckPieceFailed, At
<1>1. /\ UNCHANGED <<have, inflight, selected, hns, good, mode, streams, live>>
      /\ queue_pieces' = queue_pieces \cup {PieceAt(peer)}
      /\ chunk_status' = [q \in Piece |-> IF q = PieceAt(peer) THEN {} ELSE chunk_status[q]]
  BY <1>0, HasherFacts, ZenonT(20)
     DEF CheckPieceFailed, MarkPieceHashFailed, MarkPiecesBrokenIfNotHave, envVars
<1>2. writer'[peer].at = "failed" /\ \A w \in Peer : w # peer => writer'[w] = writer[w]
  BY GotoMoves, Zenon DEF CheckPieceFailed
<1>3. /\ HashingIsExclusive' /\ WriterOwnsPiece'
      /\ HashedPieces' \subseteq HashedPieces
      /\ HashedPieces \subseteq HashedPieces' \cup {PieceAt(peer)}
  BY <1>0, <1>1, <1>2, HashingEnds, ZenonT(30)
<1>4. PieceStatesDisjoint'
  BY <1>0, <1>1, HasherFacts, ZenonT(30) DEF Safe, PieceStatesDisjoint, IsInflight
<1>5. FullPieceIsHashed'
  BY <1>1, <1>3, PieceHasChunks, Zenon DEF Safe, FullPieceIsHashed, PreviouslyCompleted
<1>6. NeededPieceTracked'
  BY <1>1, <1>3, Zenon DEF Safe, NeededPieceTracked, IsInflight
<1>7. FinishedIsStable'
  <2>1. (queue_pieces \cup {q \in Piece : IsInflight(q)} \cup HashedPieces)' \subseteq selected'
    BY <1>0, <1>1, <1>3, HasherFacts, ZenonT(30) DEF Safe, FinishedIsStable, IsInflight
  <2>2. \A w \in Peer : writer'[w].at = "finishing" => IsFinished'
    BY <1>1, <1>2, FinishingMeansFinished, Zenon DEF Safe, IsFinished
  <2> QED
    BY <2>1, <2>2, Zenon DEF FinishedIsStable, At
<1> QED
  BY <1>1, <1>3, <1>4, <1>5, <1>6, <1>7, OnDiskFrame, OwnerFrame, ZenonT(30) DEF Safe

\* Every step of a peer's task keeps the invariant.
LEMMA DownloadKeepsSafe ==
  ASSUME TypeOK, HnsInSync, Safe, NEW peer \in Peer, DownloadStep(peer)
  PROVE  Safe'
<1>ty. TypeOK' /\ HnsInSync'
  BY DownloadKeepsTypes, Zenon
<1> DEFINE Quiet(w) == \/ writer'[w] = writer[w]
                       \/ /\ writer[w].at # "hashing"
                          /\ writer'[w].at \notin {"checked", "written", "hashing", "finishing"}
<1>w. WriterTypeOK
  BY Zenon DEF TypeOK
<1>1. CASE Connect(peer)
  <2>1. /\ UNCHANGED <<ptVars, good, mode, streams>> /\ live \subseteq live'
        /\ \A w \in Peer : Quiet(w)
    BY <1>1, ZenonT(30) DEF Connect, envVars
  <2> QED
    BY <2>1, QuietStepKeepsSafe, Zenon
<1>2. CASE \E p \in LaterHave[peer] : OnHave(peer, p)
  <2>1. /\ UNCHANGED <<ptVars, good, mode, streams>> /\ live \subseteq live'
        /\ \A w \in Peer : Quiet(w)
    BY <1>2, Zenon DEF OnHave, envVars
  <2> QED
    BY <2>1, QuietStepKeepsSafe, Zenon
<1>3. CASE OnPeerDied(peer)
  BY <1>3, OnPeerDiedKeepsSafe, Zenon
<1>4. CASE OnNotNeededPeerDied(peer)
  <2>1. UNCHANGED <<ptVars, good, mode, streams>> /\ live \subseteq live'
    BY <1>4, Zenon DEF OnNotNeededPeerDied, envVars
  <2>2. Done(peer) /\ writer[peer].at # "hashing"
    BY <1>4, Zenon DEF OnNotNeededPeerDied, DropTask, Done, Runnable, InWriteToDisk, At
  <2>3. \A w \in Peer : Quiet(w)
    BY <2>2, DoneMoves, Zenon
  <2> QED
    BY <2>1, <2>3, QuietStepKeepsSafe, Zenon
<1>5. CASE \E p \in Piece : AcquireReserved(peer, p)
  BY <1>5, AcquireReservedKeepsSafe, Zenon
<1>6. CASE \E p \in Piece : AcquireStolen(peer, p)
  BY <1>6, AcquireStolenKeepsSafe, ZenonT(30)
<1>7. CASE OnSteal(peer)
  <2>1. /\ UNCHANGED <<ptVars, good, mode, streams>> /\ live \subseteq live'
        /\ \A w \in Peer : Quiet(w)
    BY <1>7, Zenon DEF OnSteal, envVars
  <2> QED
    BY <2>1, QuietStepKeepsSafe, Zenon
<1>8. CASE RequestChunk(peer)
  <2>1. /\ UNCHANGED <<ptVars, good, mode, streams>> /\ live \subseteq live'
        /\ \A w \in Peer : Quiet(w)
    BY <1>8, Zenon DEF RequestChunk, envVars
  <2> QED
    BY <2>1, QuietStepKeepsSafe, Zenon
<1>9. CASE \E x \in Chunk, ok \in BOOLEAN : OnReceivedPiece(peer, x, ok)
  <2>1. /\ UNCHANGED <<ptVars, good, mode, streams>> /\ live \subseteq live'
        /\ \A w \in Peer : Quiet(w)
    BY <1>9, <1>w, SMTT(30) DEF OnReceivedPiece, envVars, At, WriterTypeOK
  <2> QED
    BY <2>1, QuietStepKeepsSafe, Zenon
<1>10. CASE CheckSteal(peer)
  BY <1>10, CheckStealKeepsSafe, Zenon
<1>11. CASE WriteChunk(peer)
  BY <1>11, WriteChunkKeepsSafe, Zenon
<1>12. CASE MarkChunk(peer)
  BY <1>12, MarkChunkKeepsSafe, Zenon
<1>13. CASE CheckPieceOk(peer)
  BY <1>ty, <1>13, CheckPieceOkKeepsSafe, ZenonT(30)
<1>14. CASE CheckPieceFailed(peer)
  BY <1>14, CheckPieceFailedKeepsSafe, Zenon
<1>15. CASE OnPieceCompleted(peer)
  BY <1>15, OnPieceCompletedKeepsSafe, Zenon
<1>16. CASE DisconnectFullPeers(peer)
  BY <1>16, DisconnectFullPeersKeepsSafe, Zenon
<1> HIDE DEF Quiet
<1> QED
  BY <1>1, <1>2, <1>3, <1>4, <1>5, <1>6, <1>7, <1>8, <1>9, <1>10, <1>11, <1>12,
     <1>13, <1>14, <1>15, <1>16, ZenonT(30) DEF DownloadStep

\* Nothing changes when no task moves.
LEMMA StutterSafe ==
  ASSUME TypeOK, HnsInSync, Safe, UNCHANGED vars
  PROVE  TypeOK' /\ HnsInSync' /\ Safe'
<1> USE DEF vars, ptVars, ctVars, taskVars, envVars
<1>1. CTTypeOK' /\ HnsInSync'
  BY CTNextKeepsCTInv, Zenon DEF CTInv, TypeOK, PTTypeOK
<1>2. TypeOK'
  BY <1>1, SameWriterType, ZenonT(30) DEF TypeOK, PTTypeOK
<1>3. Safe'
  BY QuietStepKeepsSafe, Zenon
<1> QED
  BY <1>1, <1>2, <1>3, Zenon

\* The undisturbed download, peers dying, stealing, stalling and sending
\* corrupt data in any order: DownloadInv is inductive.
THEOREM DownloadInvariant == DownloadSpec => []DownloadInv
<1> DEFINE I == TypeOK /\ HnsInSync /\ Safe
<1>1. Init => I
  BY InitSafe, Zenon
<1>2. I /\ [Download]_vars => I'
  <2>1. ASSUME I, Download
        PROVE  I'
    BY <2>1, DownloadKeepsTypes, DownloadKeepsSafe, Zenon DEF Download
  <2>2. ASSUME I, UNCHANGED vars
        PROVE  I'
    BY <2>2, StutterSafe, Zenon
  <2> QED
    BY <2>1, <2>2, Zenon
<1>3. I => DownloadInv
  BY Zenon DEF Safe, DownloadInv
<1> QED
  BY <1>1, <1>2, <1>3, PTL DEF DownloadSpec

\* piece_tracker.rs:6: a piece is never on the queue, in flight or downloaded
\* at the same time.
THEOREM PieceStatesAreDisjoint == DownloadSpec => []PieceStatesDisjoint
BY DownloadInvariant, PTL DEF DownloadInv

\* peer_handler.rs:949: the piece is still the writer's when the write is done.
THEOREM WritersOwnTheirPiece == DownloadSpec => []WriterOwnsPiece
BY DownloadInvariant, PTL DEF DownloadInv

\* chunk_tracker.rs:30: a piece in `have` is on disk as its hash demands.
THEOREM HavePiecesAreOnDisk == DownloadSpec => []HaveIsOnDisk
BY DownloadInvariant, PTL DEF DownloadInv

\* A piece whose chunks are all marked is downloaded or on its way to the hash.
THEOREM FullPiecesAreHashed == DownloadSpec => []FullPieceIsHashed
BY DownloadInvariant, PTL DEF DownloadInv

\* An in-flight piece always has a connected owner, whose death releases it.
THEOREM OwnersAreLive == DownloadSpec => []OwnerIsLive
BY DownloadInvariant, PTL DEF DownloadInv

-----------------------------------------------------------------------------
(***************************************************************************)
(* The download implements PieceLifecycle.                                 *)
(***************************************************************************)

\* A step that moves no piece between the bit fields is a stutter.
LEMMA LifecycleStutters ==
  ASSUME UNCHANGED <<have, queue_pieces, inflight>>, HashedPieces' = HashedPieces
  PROVE  UNCHANGED Lifecycle!lifeVars
BY Zenon DEF Lifecycle!lifeVars, Status, IsInflight

\* The same for a task that is not at its hash check before or after.
LEMMA QuietStepStutters ==
  ASSUME UNCHANGED ptVars,
         \A w \in Peer : \/ writer'[w] = writer[w]
                         \/ writer[w].at # "hashing" /\ writer'[w].at # "hashing"
  PROVE  UNCHANGED Lifecycle!lifeVars
<1>1. HashedPieces' = HashedPieces
  BY HashedFrame, Zenon
<1> QED
  BY <1>1, LifecycleStutters, Zenon DEF ptVars, ctVars

\* A step that changes where one piece stands.
LEMMA OnePieceMoves ==
  ASSUME NEW p \in Piece, NEW to, Status(p)' = to,
         \A q \in Piece : q # p => Status(q)' = Status(q)
  PROVE  [q \in Piece |-> Status(q)]' = [[q \in Piece |-> Status(q)] EXCEPT ![p] = to]
BY Zenon

LEMMA AcquireReservedReserves ==
  ASSUME TypeOK, Safe, NEW peer \in Peer, NEW p \in Piece, AcquireReserved(peer, p)
  PROVE  Lifecycle!Reserve(p, peer)
<1>1. p \in queue_pieces
  BY Zenon DEF AcquireReserved, Safe, PriorityCandidates, QueueCandidates, IterQueuedPieces
<1>2. /\ queue_pieces' = queue_pieces \ {p}
      /\ inflight' = [inflight EXCEPT ![p] = peer]
      /\ UNCHANGED <<have, writer>>
  BY Zenon DEF AcquireReserved, ReservePiece, ReserveNeededPiece
<1>3. inflight \in [Piece -> Peer \cup {NoPeer}] /\ peer # NoPeer
  BY PeerAssumption, Zenon DEF TypeOK, PTTypeOK
<1>4. p \notin have /\ inflight[p] = NoPeer
  BY <1>1, Zenon DEF Safe, PieceStatesDisjoint, IsInflight
<1>5. p \notin HashedPieces
  BY <1>1, Zenon DEF Safe, HashingIsExclusive, HashedPieces
<1>6. HashedPieces' = HashedPieces
  BY <1>2, HashedFrame, Zenon
<1>7. Status(p) = "QUEUED" /\ Status(p)' = "IN_FLIGHT"
  BY <1>1, <1>2, <1>3, <1>4, <1>5, ZenonT(30) DEF Status, IsInflight
<1>8. \A q \in Piece : q # p => Status(q)' = Status(q)
  BY <1>2, <1>3, <1>6, Zenon DEF Status, IsInflight
<1> QED
  BY <1>2, <1>7, <1>8, OnePieceMoves, Zenon DEF Lifecycle!Reserve, Lifecycle!Moves

LEMMA AcquireStolenSteals ==
  ASSUME TypeOK, Safe, NEW peer \in Peer, NEW p \in Piece, AcquireStolen(peer, p)
  PROVE  Lifecycle!Steal(p, peer)
<1>1. /\ inflight' = [inflight EXCEPT ![p] = peer]
      /\ UNCHANGED <<queue_pieces, have, writer>>
  BY Zenon DEF AcquireStolen, StealPiece, ctVars
<1>2. inflight[p] # NoPeer /\ inflight[p] # peer
  BY Zenon DEF AcquireStolen, StealCandidates
<1>3. inflight \in [Piece -> Peer \cup {NoPeer}] /\ peer # NoPeer
  BY PeerAssumption, Zenon DEF TypeOK, PTTypeOK
<1>4. HashedPieces' = HashedPieces
  BY <1>1, HashedFrame, Zenon
<1>5. \A q \in Piece : Status(q)' = Status(q)
  BY <1>1, <1>2, <1>3, <1>4, Zenon DEF Status, IsInflight
<1>6. Status(p) = "IN_FLIGHT"
  BY <1>2, Zenon DEF Status, IsInflight, Safe, PieceStatesDisjoint
<1> QED
  BY <1>1, <1>2, <1>5, <1>6, Zenon DEF Lifecycle!Steal

LEMMA OnPeerDiedReleases ==
  ASSUME TypeOK, Safe, NEW peer \in Peer, OnPeerDied(peer)
  PROVE  Lifecycle!Release(peer)
<1>1. /\ queue_pieces' = queue_pieces \cup (OwnedBy(peer) \ have)
      /\ inflight' = [p \in Piece |-> IF inflight[p] = peer THEN NoPeer ELSE inflight[p]]
      /\ UNCHANGED have
      /\ Done(peer)
  BY Zenon DEF OnPeerDied, ReleasePiecesOwnedBy, MarkPiecesBrokenIfNotHave, DropTask, Done
<1>2. \A p \in Piece : p \in OwnedBy(peer) <=> inflight[p] = peer
  BY Zenon DEF OwnedBy
<1>3. peer # NoPeer
  BY PeerAssumption, Zenon
<1>4. writer[peer].at # "hashing"
  BY Zenon DEF OnPeerDied, Runnable, InWriteToDisk, At
<1>5. HashedPieces' = HashedPieces
  BY <1>1, <1>4, DoneMoves, HashedFrame, Zenon
<1>6. ASSUME NEW p \in Piece, inflight[p] = peer
      PROVE  Status(p)' = "QUEUED"
  <2>1. p \notin have /\ p \notin HashedPieces
    BY <1>3, <1>6, Zenon DEF Safe, PieceStatesDisjoint, HashingIsExclusive, HashedPieces, IsInflight
  <2> QED
    BY <1>1, <1>2, <1>5, <1>6, <2>1, ZenonT(30) DEF Status, IsInflight
<1>7. ASSUME NEW p \in Piece, inflight[p] # peer
      PROVE  Status(p)' = Status(p)
  BY <1>1, <1>2, <1>5, <1>7, Zenon DEF Status, IsInflight
<1> QED
  BY <1>1, <1>6, <1>7, Zenon DEF Lifecycle!Release

LEMMA MarkChunkCompletes ==
  ASSUME TypeOK, Safe, NEW peer \in Peer, MarkChunk(peer)
  PROVE  Lifecycle!Complete(PieceAt(peer)) \/ UNCHANGED Lifecycle!lifeVars
<1> DEFINE p == PieceAt(peer)
           c == writer[peer].chunk[2]
<1>1. writer[peer].at = "written"
  BY Zenon DEF MarkChunk, At
<1>2. p \in Piece
  BY <1>1, WriterPiece, ZenonT(30)
<1>3. /\ UNCHANGED <<have, queue_pieces>>
      /\ inflight' = IF Completes(p, c) THEN [inflight EXCEPT ![p] = NoPeer] ELSE inflight
      /\ IF Completes(p, c) /\ IsInflight(p) THEN Goto(peer, "hashing") ELSE Done(peer)
  BY Zenon DEF MarkChunk, MarkChunkAndTake, MarkChunkDownloaded
<1>4. inflight[p] = peer /\ peer # NoPeer
  BY <1>1, PeerAssumption, Zenon DEF Safe, WriterOwnsPiece
<1>5. inflight \in [Piece -> Peer \cup {NoPeer}]
  BY Zenon DEF TypeOK, PTTypeOK
<1> HIDE DEF c
<1>6. CASE Completes(p, c)
  <2>1. inflight' = [inflight EXCEPT ![p] = NoPeer] /\ Goto(peer, "hashing")
    BY <1>3, <1>4, <1>6, Zenon DEF IsInflight
  <2>2. /\ \A w \in Peer : w # peer => writer'[w] = writer[w]
        /\ writer'[peer].at = "hashing"
        /\ writer'[peer].chunk = writer[peer].chunk
    BY <2>1, GotoMoves, ZenonT(30)
  <2>3. p' = p /\ \A w \in Peer : w # peer => PieceAt(w)' = PieceAt(w)
    BY <2>2, Zenon DEF PieceAt
  <2>4. HashedPieces' = HashedPieces \cup {p}
    BY <1>1, <2>2, <2>3, ZenonT(30) DEF HashedPieces, At
  <2> HIDE DEF p
  <2>5. p \notin have
    BY <1>2, <1>4, Zenon DEF Safe, PieceStatesDisjoint, IsInflight
  <2>6. \A q \in Piece : inflight'[q] = IF q = p THEN NoPeer ELSE inflight[q]
    BY <1>2, <1>5, <2>1, Zenon
  <2>7. Status(p) = "IN_FLIGHT"
    BY <1>4, <2>5, Zenon DEF Status, IsInflight
  <2>8. \A q \in Piece : [r \in Piece |-> Status(r)]'[q] = IF q = p THEN "HASHING" ELSE Status(q)
    BY <1>2, <1>3, <2>4, <2>5, <2>6, ZenonT(30) DEF Status, IsInflight
  <2>9. [q \in Piece |-> Status(q)]' = [[q \in Piece |-> Status(q)] EXCEPT ![p] = "HASHING"]
    BY <1>2, <2>8, Zenon
  <2>10. Lifecycle!Complete(p)
    BY <1>2, <2>1, <2>7, <2>9, ZenonT(30) DEF Lifecycle!Complete, Lifecycle!Moves
  <2> QED
    BY <2>10, Zenon DEF p
<1>7. CASE ~ Completes(p, c)
  <2>1. UNCHANGED <<have, queue_pieces, inflight>> /\ Done(peer)
    BY <1>3, <1>7, Zenon
  <2>2. HashedPieces' = HashedPieces
    BY <1>1, <2>1, DoneMoves, HashedFrame, ZenonT(30)
  <2> QED
    BY <2>1, <2>2, LifecycleStutters, Zenon
<1> QED
  BY <1>6, <1>7, ZenonT(30)

\* What the end of a hash check does to the pieces being hashed.
LEMMA HashedPieceLeaves ==
  ASSUME TypeOK, Safe, NEW peer \in Peer, writer[peer].at = "hashing",
         \A w \in Peer : w # peer => writer'[w] = writer[w],
         writer'[peer].at # "hashing"
  PROVE  /\ PieceAt(peer) \in HashedPieces
         /\ HashedPieces' = HashedPieces \ {PieceAt(peer)}
<1>1. \A w \in Peer : w # peer /\ writer[w].at = "hashing" => PieceAt(w) # PieceAt(peer)
  BY HasherFacts, Zenon
<1>2. \A w \in Peer : w # peer => PieceAt(w)' = PieceAt(w)
  BY Zenon DEF PieceAt
<1> QED
  BY <1>1, <1>2, Zenon DEF HashedPieces, At

LEMMA CheckPieceOkVerifies ==
  ASSUME TypeOK, Safe, NEW peer \in Peer, CheckPieceOk(peer)
  PROVE  Lifecycle!Verify(PieceAt(peer)) /\ PieceAt(peer) \in Piece
<1> DEFINE p == PieceAt(peer)
<1>1. /\ UNCHANGED <<queue_pieces, inflight>>
      /\ have' = have \cup {p}
      /\ writer[peer].at = "hashing"
  BY Zenon DEF CheckPieceOk, MarkPieceHashOk, MarkPieceDownloaded, At
<1>2. writer'[peer].at = "verified" /\ \A w \in Peer : w # peer => writer'[w] = writer[w]
  BY GotoMoves, Zenon DEF CheckPieceOk
<1>3. p \in HashedPieces /\ HashedPieces' = HashedPieces \ {p}
  BY <1>1, <1>2, HashedPieceLeaves, ZenonT(30)
<1>4. p \in Piece /\ p \notin have \cup queue_pieces /\ inflight[p] = NoPeer
  BY <1>1, HasherFacts, Zenon
<1> HIDE DEF p
<1>5. Status(p) = "HASHING"
  BY <1>3, <1>4, ZenonT(30) DEF Status, IsInflight
<1>6. \A q \in Piece : [r \in Piece |-> Status(r)]'[q] = IF q = p THEN "HAVE" ELSE Status(q)
  BY <1>1, <1>3, <1>4, Zenon DEF Status, IsInflight
<1>7. [q \in Piece |-> Status(q)]' = [[q \in Piece |-> Status(q)] EXCEPT ![p] = "HAVE"]
  BY <1>4, <1>6, Zenon
<1>8. Lifecycle!Verify(p)
  BY <1>1, <1>4, <1>5, <1>7, ZenonT(30) DEF Lifecycle!Verify, Lifecycle!Moves
<1> QED
  BY <1>4, <1>8, Zenon DEF p

LEMMA CheckPieceFailedRejects ==
  ASSUME TypeOK, Safe, NEW peer \in Peer, CheckPieceFailed(peer)
  PROVE  Lifecycle!Reject(PieceAt(peer)) /\ PieceAt(peer) \in Piece
<1> DEFINE p == PieceAt(peer)
<1>0. writer[peer].at = "hashing"
  BY ZenonT(30) DEF CheckPieceFailed, At
<1>1. UNCHANGED <<have, inflight>> /\ queue_pieces' = queue_pieces \cup {p}
  BY <1>0, HasherFacts, ZenonT(20)
     DEF CheckPieceFailed, MarkPieceHashFailed, MarkPiecesBrokenIfNotHave
<1>2. writer'[peer].at = "failed" /\ \A w \in Peer : w # peer => writer'[w] = writer[w]
  BY GotoMoves, Zenon DEF CheckPieceFailed
<1>3. p \in HashedPieces /\ HashedPieces' = HashedPieces \ {p}
  BY <1>0, <1>2, HashedPieceLeaves, Zenon
<1>4. p \in Piece /\ p \notin have \cup queue_pieces /\ inflight[p] = NoPeer
  BY <1>0, HasherFacts, Zenon
<1> HIDE DEF p
<1>5. Status(p) = "HASHING"
  BY <1>3, <1>4, Zenon DEF Status, IsInflight
<1>6. \A q \in Piece : [r \in Piece |-> Status(r)]'[q] = IF q = p THEN "QUEUED" ELSE Status(q)
  BY <1>1, <1>3, <1>4, Zenon DEF Status, IsInflight
<1>7. [q \in Piece |-> Status(q)]' = [[q \in Piece |-> Status(q)] EXCEPT ![p] = "QUEUED"]
  BY <1>4, <1>6, Zenon
<1>8. Lifecycle!Reject(p)
  BY <1>1, <1>4, <1>5, <1>7, ZenonT(30) DEF Lifecycle!Reject, Lifecycle!Moves
<1> QED
  BY <1>4, <1>8, Zenon DEF p

\* Every step of a peer's task is a step of the lifecycle or a stutter.
LEMMA DownloadStepKeepsLifecycle ==
  ASSUME TypeOK, HnsInSync, Safe, NEW peer \in Peer, DownloadStep(peer)
  PROVE  Lifecycle!LifeNext \/ UNCHANGED Lifecycle!lifeVars
<1> DEFINE Quiet == /\ UNCHANGED ptVars
                    /\ \A w \in Peer : \/ writer'[w] = writer[w]
                                       \/ writer[w].at # "hashing" /\ writer'[w].at # "hashing"
<1>q. Quiet => UNCHANGED Lifecycle!lifeVars
  BY QuietStepStutters, Zenon
<1>w. WriterTypeOK
  BY Zenon DEF TypeOK
<1>1. CASE Connect(peer)
  BY <1>1, <1>q, ZenonT(30) DEF Connect
<1>2. CASE \E p \in LaterHave[peer] : OnHave(peer, p)
  <2>1. Quiet
    BY <1>2, Zenon DEF OnHave
  <2> QED
    BY <1>q, <2>1, Zenon
<1>3. CASE OnPeerDied(peer)
  BY <1>3, OnPeerDiedReleases, ZenonT(30) DEF Lifecycle!LifeNext
<1>4. CASE OnNotNeededPeerDied(peer)
  <2>1. UNCHANGED ptVars /\ Done(peer) /\ writer[peer].at # "hashing"
    BY <1>4, Zenon DEF OnNotNeededPeerDied, DropTask, Done, Runnable, InWriteToDisk, At
  <2>2. Quiet
    BY <2>1, DoneMoves, Zenon
  <2> QED
    BY <1>q, <2>2, Zenon
<1>5. CASE \E p \in Piece : AcquireReserved(peer, p)
  BY <1>5, AcquireReservedReserves, Zenon DEF Lifecycle!LifeNext
<1>6. CASE \E p \in Piece : AcquireStolen(peer, p)
  BY <1>6, AcquireStolenSteals, ZenonT(30) DEF Lifecycle!LifeNext
<1>7. CASE OnSteal(peer)
  <2>1. Quiet
    BY <1>7, Zenon DEF OnSteal
  <2> QED
    BY <1>q, <2>1, Zenon
<1>8. CASE RequestChunk(peer)
  <2>1. Quiet
    BY <1>8, ZenonT(30) DEF RequestChunk
  <2> QED
    BY <1>q, <2>1, Zenon
<1>9. CASE \E x \in Chunk, ok \in BOOLEAN : OnReceivedPiece(peer, x, ok)
  <2>1. Quiet
    BY <1>9, <1>w, SMTT(30) DEF OnReceivedPiece, At, WriterTypeOK
  <2> QED
    BY <1>q, <2>1, Zenon
<1>10. CASE CheckSteal(peer)
  <2>1. UNCHANGED ptVars /\ writer[peer].at = "received"
    BY <1>10, Zenon DEF CheckSteal, At
  <2>2. Done(peer) \/ Goto(peer, "checked")
    BY <1>10, Zenon DEF CheckSteal
  <2>3. Quiet
    BY <2>1, <2>2, GotoMoves, DoneMoves, ZenonT(30)
  <2> QED
    BY <1>q, <2>3, Zenon
<1>11. CASE WriteChunk(peer)
  <2>1. UNCHANGED ptVars /\ writer[peer].at = "checked" /\ Goto(peer, "written")
    BY <1>11, Zenon DEF WriteChunk, At
  <2>2. Quiet
    BY <2>1, GotoMoves, ZenonT(30)
  <2> QED
    BY <1>q, <2>2, Zenon
<1>12. CASE MarkChunk(peer)
  <2>1. PieceAt(peer) \in Piece
    BY <1>12, WriterPiece, Zenon DEF MarkChunk, At
  <2> QED
    BY <1>12, <2>1, MarkChunkCompletes, Zenon DEF Lifecycle!LifeNext
<1>13. CASE CheckPieceOk(peer)
  BY <1>13, CheckPieceOkVerifies, Zenon DEF Lifecycle!LifeNext
<1>14. CASE CheckPieceFailed(peer)
  BY <1>14, CheckPieceFailedRejects, Zenon DEF Lifecycle!LifeNext
<1>15. CASE OnPieceCompleted(peer)
  <2>1. UNCHANGED <<have, queue_pieces, inflight>> /\ writer[peer].at = "verified"
    BY <1>15, Zenon DEF OnPieceCompleted, UpdateFileHaveOnPieceCompleted, At
  <2>2. Done(peer) \/ Goto(peer, "finishing")
    BY <1>15, Zenon DEF OnPieceCompleted
  <2>3. HashedPieces' = HashedPieces
    BY <2>1, <2>2, GotoMoves, DoneMoves, HashedFrame, ZenonT(30)
  <2> QED
    BY <2>1, <2>3, LifecycleStutters, Zenon
<1>16. CASE DisconnectFullPeers(peer)
  <2>1. UNCHANGED ptVars /\ writer[peer].at = "finishing" /\ Done(peer)
    BY <1>16, Zenon DEF DisconnectFullPeers, At
  <2>2. Quiet
    BY <2>1, DoneMoves, Zenon
  <2> QED
    BY <1>q, <2>2, Zenon
<1> HIDE DEF Quiet
<1> QED
  BY <1>1, <1>2, <1>3, <1>4, <1>5, <1>6, <1>7, <1>8, <1>9, <1>10, <1>11, <1>12,
     <1>13, <1>14, <1>15, <1>16, ZenonT(30) DEF DownloadStep

\* A torrent that has just become live has no piece in flight or being hashed.
LEMMA InitLifecycle ==
  ASSUME Init
  PROVE  Lifecycle!LifeInit
<1>1. inflight = [p \in Piece |-> NoPeer]
  BY Zenon DEF Init, NewPieceTracker
<1>2. \A w \in Peer : writer[w].at = "idle"
  BY Zenon DEF Init, Idle
<1>3. HashedPieces = {}
  BY <1>2, Zenon DEF HashedPieces, At
<1>4. \A p \in Piece : Status(p) \in {"NOT_NEEDED", "QUEUED", "HAVE"}
  BY <1>1, <1>3, Zenon DEF Status, IsInflight
<1> QED
  BY <1>1, <1>4, Zenon DEF Lifecycle!LifeInit

\* piece_tracker.rs:1-10: the download implements the lifecycle its tracker
\* promises, whatever the peers do and in whatever order their tasks run.
THEOREM DownloadKeepsLifecycle == DownloadSpec => KeepsLifecycle
<1> DEFINE I == TypeOK /\ HnsInSync /\ Safe
<1>1. Init => Lifecycle!LifeInit
  BY InitLifecycle, Zenon
<1>2. Init => I
  BY InitSafe, Zenon
<1>3. I /\ [Download]_vars => I'
  BY DownloadKeepsTypes, DownloadKeepsSafe, StutterSafe, Zenon DEF Download
<1>4. I /\ [Download]_vars => [Lifecycle!LifeNext]_(Lifecycle!lifeVars)
  <2>1. ASSUME I, Download
        PROVE  Lifecycle!LifeNext \/ UNCHANGED Lifecycle!lifeVars
    BY <2>1, DownloadStepKeepsLifecycle, Zenon DEF Download
  <2>2. ASSUME UNCHANGED vars
        PROVE  UNCHANGED Lifecycle!lifeVars
    BY <2>2, QuietStepStutters, Zenon DEF vars, taskVars
  <2> QED
    BY <2>1, <2>2, Zenon
<1> QED
  BY <1>1, <1>2, <1>3, <1>4, PTL DEF DownloadSpec, KeepsLifecycle, Lifecycle!LifeSpec

-----------------------------------------------------------------------------
(***************************************************************************)
(* The bytes per file.  iter_queued_pieces skips a file whose counter says *)
(* it is complete, so that a counter ahead of the pieces would hide the    *)
(* missing ones from every peer.                                           *)
(***************************************************************************)

Counted == have \ UncountedPieces

\* The bytes of a file, the bytes of it we have and the ones a piece adds.
LEMMA FileBytesAdd ==
  ASSUME NEW h \in SUBSET Piece, NEW p \in Piece, p \notin h, NEW f \in File
  PROVE  /\ CalcPerFileBytes(h)[f] \in Nat
         /\ SizeOfPieceInFile(p, f) \in Nat
         /\ CalcPerFileBytes(h \cup {p})[f] = CalcPerFileBytes(h)[f] + SizeOfPieceInFile(p, f)
<1> DEFINE A == {b \in BytesIn(h) : FileOf[b] = f}
           B == {b \in BytesIn({p}) : FileOf[b] = f}
           C == {b \in BytesIn(h \cup {p}) : FileOf[b] = f}
<1>1. IsFiniteSet(A) /\ IsFiniteSet(B)
  <2>1. IsFiniteSet(BytesIn(h)) /\ IsFiniteSet(BytesIn({p}))
    BY SizeType, Zenon
  <2> QED
    BY <2>1, FS_Subset, Zenon
<1>2. C = A \cup B /\ A \cap B = {}
  BY Zenon DEF BytesIn
<1>3. /\ CalcPerFileBytes(h)[f] = Cardinality(A)
      /\ SizeOfPieceInFile(p, f) = Cardinality(B)
      /\ CalcPerFileBytes(h \cup {p})[f] = Cardinality(C)
  BY Zenon DEF CalcPerFileBytes, SizeOfPieceInFile
<1> HIDE DEF A, B, C
<1>4. Cardinality(A) \in Nat /\ Cardinality(B) \in Nat
  BY <1>1, FS_CardinalityType, Zenon
<1>5. Cardinality(A \cap B) = 0
  BY <1>2, FS_EmptySet, Zenon
<1>6. Cardinality(A \cup B) = Cardinality(A) + Cardinality(B) - Cardinality(A \cap B)
  BY <1>1, FS_Union, Zenon
<1> QED
  BY <1>2, <1>3, <1>4, <1>5, <1>6

\* A file with a missing piece is short of its length.
LEMMA FileWithMissingPiece ==
  ASSUME NEW h \in SUBSET Piece, NEW p \in Piece, p \notin h, NEW f \in File, p \in FilePieces(f)
  PROVE  CalcPerFileBytes(h)[f] < FileLen(f)
<1> DEFINE A == {b \in BytesIn(h) : FileOf[b] = f}
           L == {b \in Byte : FileOf[b] = f}
<1>1. IsFiniteSet(L)
  BY TorrentAssumption, FS_Subset, ZenonT(30)
<1>2. A \in SUBSET L /\ A # L
  <2>1. PICK b \in L : PieceOf[b] = p
    BY Zenon DEF FilePieces
  <2>2. b \notin A
    BY <2>1, Zenon DEF BytesIn
  <2> QED
    BY <2>1, <2>2, Zenon DEF BytesIn
<1>3. CalcPerFileBytes(h)[f] = Cardinality(A) /\ FileLen(f) = Cardinality(L)
  BY Zenon DEF CalcPerFileBytes, FileLen
<1> HIDE DEF A, L
<1>4. Cardinality(A) <= Cardinality(L) /\ Cardinality(L) # Cardinality(A)
  BY <1>1, <1>2, FS_Subset, Zenon
<1>5. Cardinality(A) \in Nat /\ Cardinality(L) \in Nat
  BY <1>1, <1>2, FS_CardinalityType, FS_Subset, ZenonT(30)
<1> QED
  BY <1>3, <1>4, <1>5

\* What a step does to the counters: nothing, or it counts one more piece.
CountsNothing == UNCHANGED per_file_bytes /\ Counted' = Counted

CountsPiece(p) ==
  /\ p \in Piece \ Counted
  /\ Counted' = Counted \cup {p}
  /\ per_file_bytes' = [f \in File |-> per_file_bytes[f] +
                          (IF f \in FilesOnPieceCompleted(p)
                           THEN SizeOfPieceInFile(p, f) ELSE 0)]

LEMMA VerifiedFrame ==
  ASSUME CountedOnce, UNCHANGED <<have, per_file_bytes>>,
         \A w \in Peer : (writer'[w].at = "verified" \/ writer[w].at = "verified") =>
            writer'[w] = writer[w]
  PROVE  CountedOnce' /\ CountsNothing
<1>1. \A w \in Peer : At(w, "verified")' <=> At(w, "verified")
  BY Zenon DEF At
<1>2. \A w \in Peer : At(w, "verified") => PieceAt(w)' = PieceAt(w)
  BY Zenon DEF At, PieceAt
<1>3. UncountedPieces' = UncountedPieces
  BY <1>1, <1>2, ZenonT(30) DEF UncountedPieces
<1>4. CountedOnce'
  BY <1>1, <1>2, ZenonT(30) DEF CountedOnce
<1> QED
  BY <1>3, <1>4, Zenon DEF CountsNothing, Counted

\* mark_piece_hash_ok makes the piece one of those still to be counted.
LEMMA CheckPieceOkCountsNothing ==
  ASSUME TypeOK, Safe, CountedOnce, NEW peer \in Peer, CheckPieceOk(peer)
  PROVE  CountedOnce' /\ CountsNothing
<1> DEFINE p == PieceAt(peer)
<1>1. /\ UNCHANGED per_file_bytes
      /\ have' = have \cup {p}
      /\ writer[peer].at = "hashing"
  BY Zenon DEF CheckPieceOk, MarkPieceHashOk, MarkPieceDownloaded, At
<1>2. /\ writer'[peer].at = "verified"
      /\ writer'[peer].chunk = writer[peer].chunk
      /\ \A w \in Peer : w # peer => writer'[w] = writer[w]
  BY GotoMoves, Zenon DEF CheckPieceOk
<1>3. p \in Piece /\ p \notin have
  BY <1>1, HasherFacts, Zenon
<1>4. PieceAt(peer)' = p /\ \A w \in Peer : w # peer => PieceAt(w)' = PieceAt(w)
  BY <1>2, Zenon DEF PieceAt
<1> HIDE DEF p
<1>5. \A w \in Peer : At(w, "verified")' <=> At(w, "verified") \/ w = peer
  BY <1>2, Zenon DEF At
<1>6. ~ At(peer, "verified")
  BY <1>1, Zenon DEF At
<1>7. \A w \in Peer : At(w, "verified") => PieceAt(w) \in have
  BY ZenonT(30) DEF CountedOnce
<1>8. UncountedPieces' = UncountedPieces \cup {p}
  BY <1>4, <1>5, <1>6, ZenonT(30) DEF UncountedPieces
<1>9. CountedOnce'
  <2> SUFFICES ASSUME NEW w \in Peer, At(w, "verified")'
               PROVE  /\ PieceAt(w)' \in have'
                      /\ \A v \in Peer : At(v, "verified")' /\ PieceAt(v)' = PieceAt(w)' => v = w
    BY Zenon DEF CountedOnce
  <2>1. CASE w = peer
    BY <1>1, <1>3, <1>4, <1>5, <1>7, <2>1, ZenonT(30)
  <2>2. CASE w # peer
    <3>1. At(w, "verified") /\ PieceAt(w)' = PieceAt(w)
      BY <1>4, <1>5, <2>2, Zenon
    <3>2. PieceAt(w) \in have
      BY <1>7, <3>1, Zenon
    <3>3. ASSUME NEW v \in Peer, At(v, "verified")', PieceAt(v)' = PieceAt(w)'
          PROVE  v = w
      <4>1. v # peer
        BY <1>3, <1>4, <3>1, <3>2, <3>3, ZenonT(30)
      <4>2. At(v, "verified") /\ PieceAt(v) = PieceAt(w)
        BY <1>4, <1>5, <3>1, <3>3, <4>1, ZenonT(30)
      <4> QED
        BY <3>1, <4>2, Zenon DEF CountedOnce
    <3> QED
      BY <1>1, <3>1, <3>2, <3>3, ZenonT(30)
  <2> QED
    BY <2>1, <2>2, Zenon
<1> QED
  BY <1>1, <1>3, <1>8, <1>9, ZenonT(30) DEF CountsNothing, Counted

\* on_piece_completed counts the piece, which was not counted before.
LEMMA OnPieceCompletedCounts ==
  ASSUME TypeOK, CountedOnce, NEW peer \in Peer, OnPieceCompleted(peer)
  PROVE  CountedOnce' /\ CountsPiece(PieceAt(peer))
<1> DEFINE p == PieceAt(peer)
<1>1. /\ UNCHANGED have
      /\ per_file_bytes' = [f \in File |-> per_file_bytes[f] +
                              (IF f \in FilesOnPieceCompleted(p)
                               THEN SizeOfPieceInFile(p, f) ELSE 0)]
      /\ writer[peer].at = "verified"
  BY Zenon DEF OnPieceCompleted, UpdateFileHaveOnPieceCompleted, At
<1>2. /\ \A w \in Peer : w # peer => writer'[w] = writer[w]
      /\ writer'[peer].at # "verified"
  <2>1. Goto(peer, "finishing") \/ Done(peer)
    BY Zenon DEF OnPieceCompleted
  <2>2. CASE Goto(peer, "finishing")
    BY <2>2, GotoMoves
  <2>3. CASE Done(peer)
    BY <2>3, DoneMoves, Zenon
  <2> QED
    BY <2>1, <2>2, <2>3, Zenon
<1>3. p \in Piece
  BY <1>1, WriterPiece, Zenon
<1>4. \A w \in Peer : w # peer => PieceAt(w)' = PieceAt(w)
  BY <1>2, Zenon DEF PieceAt
<1>5. \A w \in Peer : At(w, "verified")' <=> At(w, "verified") /\ w # peer
  BY <1>2, ZenonT(30) DEF At
<1>6. p \in have /\ \A w \in Peer : At(w, "verified") /\ w # peer => PieceAt(w) # p
  BY <1>1, Zenon DEF CountedOnce, At
<1>7. p \in UncountedPieces
  BY <1>1, Zenon DEF UncountedPieces, At
<1>8. UncountedPieces' = UncountedPieces \ {p}
  BY <1>4, <1>5, <1>6, ZenonT(30) DEF UncountedPieces
<1>9. CountedOnce'
  BY <1>1, <1>4, <1>5, ZenonT(30) DEF CountedOnce
<1> HIDE DEF p
<1>10. p \in Piece \ Counted /\ Counted' = Counted \cup {p}
  BY <1>1, <1>3, <1>6, <1>7, <1>8, ZenonT(30) DEF Counted
<1>11. CountsPiece(p)
  BY <1>1, <1>10, Zenon DEF CountsPiece
<1> QED
  BY <1>9, <1>11, Zenon DEF p

\* A step that leaves the tracker's bit field and counters alone, and neither
\* enters nor leaves the gap between the hash check and on_piece_completed.
LEMMA QuietStepCountsNothing ==
  ASSUME TypeOK, CountedOnce, NEW peer \in Peer,
         UNCHANGED <<have, per_file_bytes>>,
         \A w \in Peer : w # peer => writer'[w] = writer[w],
         \/ writer'[peer] = writer[peer]
         \/ writer[peer].at # "verified" /\ writer'[peer].at # "verified"
  PROVE  CountedOnce' /\ CountsNothing
BY VerifiedFrame, Zenon

\* Every step of a peer's task counts one more piece, or none.
LEMMA DownloadStepCounts ==
  ASSUME TypeOK, Safe, CountedOnce, NEW peer \in Peer, DownloadStep(peer)
  PROVE  CountedOnce' /\ (CountsNothing \/ \E p \in Piece : CountsPiece(p))
<1> DEFINE Same == UNCHANGED <<have, per_file_bytes>>
           Moved == /\ writer[peer].at # "verified"
                    /\ writer'[peer].at # "verified"
                    /\ \A w \in Peer : w # peer => writer'[w] = writer[w]
<1>q. Same /\ (UNCHANGED writer \/ Moved) => CountedOnce' /\ CountsNothing
  BY QuietStepCountsNothing, Zenon
<1>d. Done(peer) /\ writer[peer].at # "verified" => Moved
  BY DoneMoves, Zenon
<1>g. ASSUME NEW where \in {"checked", "written", "hashing", "failed"},
             Goto(peer, where), writer[peer].at # "verified"
      PROVE  Moved
  BY <1>g, GotoMoves, Zenon
<1>w. WriterTypeOK
  BY Zenon DEF TypeOK
<1>1. CASE Connect(peer)
  <2>1. Same /\ UNCHANGED writer
    BY <1>1, ZenonT(30) DEF Connect, ptVars, ctVars
  <2> QED
    BY <1>q, <2>1, Zenon
<1>2. CASE \E p \in LaterHave[peer] : OnHave(peer, p)
  <2>1. Same /\ UNCHANGED writer
    BY <1>2, Zenon DEF OnHave, ptVars, ctVars
  <2> QED
    BY <1>q, <2>1, Zenon
<1>3. CASE OnPeerDied(peer)
  <2>1. Same /\ Done(peer) /\ writer[peer].at # "verified"
    BY <1>3, ZenonT(30) DEF OnPeerDied, ReleasePiecesOwnedBy, MarkPiecesBrokenIfNotHave, DropTask, Done,
                Runnable, InWriteToDisk, At
  <2> QED
    BY <1>d, <1>q, <2>1, ZenonT(30)
<1>4. CASE OnNotNeededPeerDied(peer)
  <2>1. Same /\ Done(peer) /\ writer[peer].at # "verified"
    BY <1>4, ZenonT(30)
       DEF OnNotNeededPeerDied, DropTask, Done, Runnable, InWriteToDisk, At, ptVars, ctVars
  <2> QED
    BY <1>d, <1>q, <2>1, Zenon
<1>5. CASE \E p \in Piece : AcquireReserved(peer, p)
  <2>1. Same /\ UNCHANGED writer
    BY <1>5, ZenonT(30) DEF AcquireReserved, ReservePiece, ReserveNeededPiece
  <2> QED
    BY <1>q, <2>1, Zenon
<1>6. CASE \E p \in Piece : AcquireStolen(peer, p)
  <2>1. Same /\ UNCHANGED writer
    BY <1>6, ZenonT(30) DEF AcquireStolen, StealPiece, ctVars
  <2> QED
    BY <1>q, <2>1, Zenon
<1>7. CASE OnSteal(peer)
  <2>1. Same /\ UNCHANGED writer
    BY <1>7, ZenonT(30) DEF OnSteal, ptVars, ctVars
  <2> QED
    BY <1>q, <2>1, Zenon
<1>8. CASE RequestChunk(peer)
  <2>1. Same /\ UNCHANGED writer
    BY <1>8, Zenon DEF RequestChunk, ptVars, ctVars
  <2> QED
    BY <1>q, <2>1, Zenon
<1>9. CASE \E x \in Chunk, ok \in BOOLEAN : OnReceivedPiece(peer, x, ok)
  <2>1. Same
    BY <1>9, Zenon DEF OnReceivedPiece, ptVars, ctVars
  <2>2. Moved
    BY <1>9, <1>w, SMTT(30) DEF OnReceivedPiece, At, WriterTypeOK
  <2> QED
    BY <1>q, <2>1, <2>2, ZenonT(30)
<1>10. CASE CheckSteal(peer)
  <2>1. Same /\ writer[peer].at # "verified"
    BY <1>10, Zenon DEF CheckSteal, At, ptVars, ctVars
  <2>2. Done(peer) \/ Goto(peer, "checked")
    BY <1>10, ZenonT(30) DEF CheckSteal
  <2>3. Moved
    BY <1>d, <1>g, <2>1, <2>2, ZenonT(30)
  <2> QED
    BY <1>q, <2>1, <2>3, ZenonT(30)
<1>11. CASE WriteChunk(peer)
  <2>1. Same /\ writer[peer].at # "verified" /\ Goto(peer, "written")
    BY <1>11, ZenonT(30) DEF WriteChunk, At, ptVars, ctVars
  <2>2. Moved
    BY <1>g, <2>1, ZenonT(30)
  <2> QED
    BY <1>q, <2>1, <2>2, ZenonT(30)
<1>12. CASE MarkChunk(peer)
  <2>1. Same /\ writer[peer].at # "verified"
    BY <1>12, Zenon DEF MarkChunk, MarkChunkAndTake, MarkChunkDownloaded, At
  <2>2. Done(peer) \/ Goto(peer, "hashing")
    BY <1>12, ZenonT(30) DEF MarkChunk
  <2>3. Moved
    BY <1>d, <1>g, <2>1, <2>2, ZenonT(30)
  <2> QED
    BY <1>q, <2>1, <2>3, Zenon
<1>13. CASE CheckPieceOk(peer)
  BY <1>13, CheckPieceOkCountsNothing, Zenon
<1>14. CASE CheckPieceFailed(peer)
  <2>1. Same /\ writer[peer].at # "verified" /\ Goto(peer, "failed")
    BY <1>14, ZenonT(30) DEF CheckPieceFailed, MarkPieceHashFailed, MarkPiecesBrokenIfNotHave, At
  <2>2. Moved
    BY <1>g, <2>1, Zenon
  <2> QED
    BY <1>q, <2>1, <2>2, ZenonT(30)
<1>15. CASE OnPieceCompleted(peer)
  BY <1>15, OnPieceCompletedCounts, ZenonT(30) DEF CountsPiece
<1>16. CASE DisconnectFullPeers(peer)
  <2>1. Same /\ Done(peer) /\ writer[peer].at # "verified"
    BY <1>16, Zenon DEF DisconnectFullPeers, At, ptVars, ctVars
  <2> QED
    BY <1>d, <1>q, <2>1, Zenon
<1> HIDE DEF Same, Moved
<1> QED
  BY <1>1, <1>2, <1>3, <1>4, <1>5, <1>6, <1>7, <1>8, <1>9, <1>10, <1>11, <1>12,
     <1>13, <1>14, <1>15, <1>16, ZenonT(30) DEF DownloadStep

\* The counter of a file is never ahead of the pieces counted.
NeverAhead == \A f \in File : per_file_bytes[f] <= CalcPerFileBytes(Counted)[f]

\* Every file is visited when a piece it shares is completed: no file lies
\* between two files of a piece without being one itself.
EveryFileVisited ==
  \A p \in Piece, f \in File : p \in FilePieces(f) => f \in FilesOnPieceCompleted(p)

CountsInv ==
  /\ CountedOnce
  /\ NeverAhead
  /\ EveryFileVisited => PerFileBytesAccurate

LEMMA CountsInvStep ==
  ASSUME TypeOK, CountsInv, TypeOK', CountedOnce',
         CountsNothing \/ \E p \in Piece : CountsPiece(p)
  PROVE  CountsInv'
<1>h. Counted \in SUBSET Piece
  BY ZenonT(30) DEF TypeOK, PTTypeOK, CTTypeOK, Counted
<1>t. per_file_bytes \in [File -> Nat]
  BY Zenon DEF TypeOK, PTTypeOK, CTTypeOK
<1>1. CASE CountsNothing
  BY <1>1, Zenon DEF CountsNothing, CountsInv, NeverAhead, PerFileBytesAccurate, Counted
<1>2. CASE \E p \in Piece : CountsPiece(p)
  <2>1. PICK p \in Piece : CountsPiece(p)
    BY <1>2, Zenon
  <2>2. p \notin Counted /\ Counted' = Counted \cup {p}
    BY <2>1, Zenon DEF CountsPiece
  <2>3. ASSUME NEW f \in File
        PROVE  /\ CalcPerFileBytes(Counted)[f] \in Nat
               /\ SizeOfPieceInFile(p, f) \in Nat
               /\ CalcPerFileBytes(Counted')[f]
                    = CalcPerFileBytes(Counted)[f] + SizeOfPieceInFile(p, f)
    BY <1>h, <2>2, FileBytesAdd, ZenonT(30)
  <2>4. ASSUME NEW f \in File
        PROVE  /\ per_file_bytes[f] \in Nat
               /\ per_file_bytes'[f] = per_file_bytes[f] +
                     (IF f \in FilesOnPieceCompleted(p) THEN SizeOfPieceInFile(p, f) ELSE 0)
    BY <1>t, <2>1, Zenon DEF CountsPiece
  <2>5. NeverAhead'
    <3>1. ASSUME NEW f \in File
          PROVE  per_file_bytes'[f] <= CalcPerFileBytes(Counted')[f]
      <4>1. per_file_bytes[f] <= CalcPerFileBytes(Counted)[f]
        BY Zenon DEF CountsInv, NeverAhead
      <4> QED
        BY <2>3, <2>4, <4>1
    <3>2. \A f \in File : CalcPerFileBytes(Counted)'[f] = CalcPerFileBytes(Counted')[f]
      BY Zenon DEF CalcPerFileBytes, BytesIn
    <3> QED
      BY <3>1, <3>2, ZenonT(30) DEF NeverAhead
  <2>6. ASSUME EveryFileVisited
        PROVE  PerFileBytesAccurate'
    <3>1. ASSUME NEW f \in File
          PROVE  per_file_bytes'[f] = CalcPerFileBytes(Counted')[f]
      <4>1. per_file_bytes[f] = CalcPerFileBytes(Counted)[f]
        BY <2>6, Zenon DEF CountsInv, PerFileBytesAccurate, Counted
      <4>2. CASE p \in FilePieces(f)
        BY <2>3, <2>4, <2>6, <4>1, <4>2, ZenonT(30) DEF EveryFileVisited
      <4>3. CASE p \notin FilePieces(f)
        <5>1. {b \in BytesIn({p}) : FileOf[b] = f} = {}
          BY <4>3, Zenon DEF BytesIn, FilePieces
        <5>2. SizeOfPieceInFile(p, f) = 0
          BY <5>1, FS_EmptySet, ZenonT(30) DEF SizeOfPieceInFile
        <5>3. f \notin FilesOnPieceCompleted(p)
          BY <4>3, ZenonT(30) DEF FilesOnPieceCompleted
        <5> QED
          BY <2>3, <2>4, <4>1, <5>2, <5>3, ZenonT(30)
      <4> QED
        BY <4>2, <4>3, ZenonT(30)
    <3>2. per_file_bytes' \in [File -> Nat]
      BY ZenonT(30) DEF TypeOK, PTTypeOK, CTTypeOK
    <3>3. \A f \in File : CalcPerFileBytes(Counted)'[f] = CalcPerFileBytes(Counted')[f]
      BY Zenon DEF CalcPerFileBytes, BytesIn
    <3>4. per_file_bytes' = CalcPerFileBytes(Counted)'
      BY <3>1, <3>2, <3>3, ZenonT(30) DEF CalcPerFileBytes
    <3> QED
      BY <3>4, Zenon DEF PerFileBytesAccurate, Counted
  <2>7. EveryFileVisited' <=> EveryFileVisited
    BY Zenon DEF EveryFileVisited
  <2> QED
    BY <2>5, <2>6, <2>7, ZenonT(30) DEF CountsInv
<1> QED
  BY <1>1, <1>2, ZenonT(30)

\* A torrent that has just become live was counted by its initial check.
LEMMA InitCounts ==
  ASSUME Init
  PROVE  CountsInv
<1>1. PICK h \in SUBSET Piece, only_files \in OnlyFiles : NewPieceTracker(h, only_files)
  BY Zenon DEF Init
<1>2. have = h /\ per_file_bytes = CalcPerFileBytes(h)
  BY <1>1, Zenon DEF NewPieceTracker, New
<1>3. \A w \in Peer : ~ At(w, "verified")
  BY Zenon DEF Init, Idle, At
<1>4. UncountedPieces = {}
  BY <1>3, Zenon DEF UncountedPieces
<1>5. Counted = h
  BY <1>2, <1>4, Zenon DEF Counted
<1>6. \A f \in File : CalcPerFileBytes(h)[f] \in Nat
  BY FileBytesType, Zenon DEF CalcPerFileBytes
<1>7. NeverAhead
  BY <1>2, <1>5, <1>6 DEF NeverAhead
<1>8. PerFileBytesAccurate
  BY <1>2, <1>5, Zenon DEF PerFileBytesAccurate, Counted
<1>9. CountedOnce
  BY <1>3, Zenon DEF CountedOnce
<1> QED
  BY <1>7, <1>8, <1>9, ZenonT(30) DEF CountsInv

\* A queued piece that is missing is one iter_queued_pieces yields: the file it
\* belongs to is short of its length, and its counter says so.
LEMMA MissingIsReachable ==
  ASSUME TypeOK, Safe, CountsInv
  PROVE  MissingIsPursued
<1>h. Counted \in SUBSET Piece /\ Counted \subseteq have
  BY ZenonT(30) DEF TypeOK, PTTypeOK, CTTypeOK, Counted
<1>t. per_file_bytes \in [File -> Nat] /\ selected \subseteq Piece
  BY Zenon DEF TypeOK, PTTypeOK, CTTypeOK
<1>1. ASSUME NEW p \in Piece, p \notin have, p \in queue_pieces
      PROVE  p \in IterQueuedPieces
  <2>1. PICK b \in Byte : PieceOf[b] = p
    BY TorrentAssumption, Zenon
  <2>2. FileOf[b] \in File /\ p \in FilePieces(FileOf[b])
    BY <2>1, TorrentAssumption, Zenon DEF FilePieces
  <2> DEFINE f == FileOf[b]
  <2>3. CalcPerFileBytes(Counted)[f] < FileLen(f)
    BY <1>1, <1>h, <2>2, FileWithMissingPiece, ZenonT(30)
  <2>4. per_file_bytes[f] <= CalcPerFileBytes(Counted)[f]
    BY <2>2, Zenon DEF CountsInv, NeverAhead
  <2>5. per_file_bytes[f] \in Nat /\ CalcPerFileBytes(Counted)[f] \in Nat /\ FileLen(f) \in Nat
    <3>1. CalcPerFileBytes(Counted)[f] \in Nat
      BY <1>h, <2>2, FileBytesType, ZenonT(30) DEF CalcPerFileBytes
    <3>2. IsFiniteSet({x \in Byte : FileOf[x] = f})
      BY TorrentAssumption, FS_Subset, Zenon
    <3>3. FileLen(f) \in Nat
      BY <3>2, FS_CardinalityType, Zenon DEF FileLen
    <3> QED
      BY <1>t, <2>2, <3>1, <3>3, ZenonT(30)
  <2> HIDE DEF f
  <2>6. per_file_bytes[f] # FileLen(f)
    BY <2>3, <2>4, <2>5
  <2> QED
    BY <1>1, <2>2, <2>6, ZenonT(30) DEF IterQueuedPieces, f
<1> QED
  BY <1>1, <1>t, ZenonT(30) DEF MissingIsPursued, Safe, NeededPieceTracked

LEMMA DownloadKeepsCounts ==
  DownloadSpec => [](TypeOK /\ HnsInSync /\ Safe /\ CountsInv)
<1> DEFINE I == TypeOK /\ HnsInSync /\ Safe
           J == I /\ CountsInv
<1>1. Init => J
  BY InitSafe, InitCounts, Zenon
<1>2. J /\ [Download]_vars => J'
  <2>1. ASSUME J, Download
        PROVE  J'
    <3>1. I'
      BY <2>1, DownloadKeepsTypes, DownloadKeepsSafe, ZenonT(30) DEF Download
    <3>2. CountedOnce' /\ (CountsNothing \/ \E p \in Piece : CountsPiece(p))
      BY <2>1, DownloadStepCounts, Zenon DEF Download, CountsInv
    <3>3. CountsInv'
      BY <2>1, <3>1, <3>2, CountsInvStep, ZenonT(30)
    <3> QED
      BY <3>1, <3>3, Zenon
  <2>2. ASSUME J, UNCHANGED vars
        PROVE  J'
    <3>1. I'
      BY <2>2, StutterSafe, Zenon
    <3>2. UNCHANGED <<have, per_file_bytes, writer>>
      BY <2>2, Zenon DEF vars, ptVars, ctVars, taskVars
    <3>3. CountedOnce' /\ CountsNothing
      BY <2>2, <3>2, VerifiedFrame, ZenonT(30) DEF CountsInv
    <3>4. CountsInv'
      BY <2>2, <3>1, <3>3, CountsInvStep, ZenonT(30)
    <3> QED
      BY <3>1, <3>4, Zenon
  <2> QED
    BY <2>1, <2>2, Zenon
<1> QED
  BY <1>1, <1>2, PTL DEF DownloadSpec

\* piece_tracker.rs:77 "Pieces are properly requeued when a peer dies", for
\* every layout of the files: a selected piece that is missing is one
\* iter_queued_pieces offers, is owned by a connected peer, or is being hashed.
THEOREM MissingPiecesArePursued == DownloadSpec => []MissingIsPursued
<1>1. TypeOK /\ HnsInSync /\ Safe /\ CountsInv => MissingIsPursued
  BY MissingIsReachable, Zenon
<1> QED
  BY <1>1, DownloadKeepsCounts, PTL

\* chunk_tracker.rs:37: where on_piece_completed visits every file a piece
\* belongs to, the counters per file are also exact.
THEOREM NeededPiecesArePursued ==
  ASSUME EveryFileVisited
  PROVE  DownloadSpec => []NeededPiecePursued
<1>1. TypeOK /\ HnsInSync /\ Safe /\ CountsInv => NeededPiecePursued
  BY MissingIsReachable, Zenon DEF CountsInv, NeededPiecePursued
<1> QED
  BY <1>1, DownloadKeepsCounts, PTL
=============================================================================
