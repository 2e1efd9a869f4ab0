----------------------------- MODULE LivePieces -----------------------------
(***************************************************************************)
(* The download of a live torrent: the peer tasks of                       *)
(* torrent_state/live/peer_handler.rs working on the shared PieceTracker   *)
(* of torrent_state/live/mod.rs, with the file on disk, the user and the   *)
(* storage errors as its environment.                                      *)
(*                                                                         *)
(* A peer is one tokio task that selects between the chunk requester and   *)
(* the connection.  Requester and connection interleave only where they    *)
(* await; write_to_disk runs under block_in_place, so from the ownership   *)
(* check to the end of the hash check the task does nothing else, while    *)
(* the other tasks go on.  `writer` is the position inside write_to_disk:  *)
(*                                                                         *)
(*   idle       no chunk is being processed                                *)
(*   received   the chunk was taken off inflight_requests and waits for    *)
(*              the blocking semaphore                                     *)
(*   checked    the piece was found to be ours; per-piece read lock held   *)
(*   written    the chunk is in the file; per-piece read lock still held   *)
(*   hashing    the piece is complete and off the in-flight map            *)
(*   verified   the hash matched and the piece is marked as downloaded     *)
(*   finishing  everything selected is there; full peers are to be parked  *)
(*   failed     the connection returned an error, on_peer_died follows     *)
(*                                                                         *)
(* Choking, rate limits and the request semaphore only delay a peer and    *)
(* are left out.  How peers come and go is in module PeerLifecycle; here a *)
(* peer is live or it is not.                                              *)
(***************************************************************************)
EXTENDS ChunkTracker, TLC

CONSTANTS InitialBitfield,  \* what a peer announces when it connects
          LaterHave,        \* what it may announce later with Have messages
          OnlyFiles,        \* the selections the user may make
          Corrupt,          \* the peers that may send bytes failing the hash
          ThiefMayStall,    \* a thief may be suspended between acquire_piece and
                            \* on_steal for longer than others need for a piece
          MaxDisturbances,  \* bound on what the user and the storage do
          NoChunk           \* no chunk is being processed

ASSUME LiveAssumption ==
  /\ InitialBitfield \in [Peer -> SUBSET Piece]
  /\ LaterHave \in [Peer -> SUBSET Piece]
  /\ OnlyFiles \subseteq SUBSET File
  /\ Corrupt \subseteq Peer
  /\ ThiefMayStall \in BOOLEAN
  /\ MaxDisturbances \in Nat
  /\ NoChunk \notin Chunk

VARIABLES mode,               \* "live", "paused" or "error"
          fatal,              \* a fatal error was sent, the receiver has not run
          live,               \* peers in state Live
          bitfield,           \* pieces a peer announced
          inflight_requests,  \* chunks a peer was asked for
          to_request,         \* chunks its requester has not asked for yet
          victim,             \* the peer this one stole the piece of to_request
                              \* from, while its on_steal call is still due
          timed,              \* peers with a known average piece time
          writer,             \* position in write_to_disk, see above
          good,               \* chunks whose bytes on disk are the right ones
          streams,            \* files being streamed
          disturbances        \* how many of them happened (a bound only)

taskVars == <<live, bitfield, inflight_requests, to_request, victim, timed, writer>>
envVars  == <<mode, fatal, good, streams, disturbances>>
vars     == <<ptVars, taskVars, envVars>>

Idle == [at |-> "idle", chunk |-> NoChunk, ok |-> FALSE]

At(peer, where) == writer[peer].at = where

PieceAt(peer) == writer[peer].chunk[1]

InWriteToDisk(peer) ==
  writer[peer].at \in {"checked", "written", "hashing", "verified", "finishing"}

\* The task is at an await and may run its requester, its reader, or end.
Runnable(peer) == /\ mode = "live"
                  /\ ~ InWriteToDisk(peer)
                  /\ ~ At(peer, "failed")
                  /\ victim[peer] = NoPeer

\* The per-piece lock of p is held: try_write fails.
PieceLocked(p) ==
  \E w \in Peer : writer[w].at \in {"checked", "written"} /\ PieceAt(w) = p

HasFullTorrent(peer) == bitfield[peer] = Piece

GoodPieces == {p \in Piece : \A c \in Chunks(p) : <<p, c>> \in good}

ChunksToRequest(p) == {<<p, c>> : c \in Chunks(p)}

\* iter_chunk_infos yields the chunks of a piece in ascending order.
NextChunk(S) == CHOOSE x \in S : \A y \in S : x[2] <= y[2]

HasActiveStreamsUnfinishedFiles == \E f \in streams : ~ IsFileFinished(f)

IsFinishedAndNoActiveStreams == IsFinished /\ ~ HasActiveStreamsUnfinishedFiles

-----------------------------------------------------------------------------
(* Initial states: the torrent has just become live *)

Init ==
  /\ \E h \in SUBSET Piece, only_files \in OnlyFiles :
        /\ NewPieceTracker(h, only_files)
        /\ good = UNION {ChunksToRequest(p) : p \in h}
  /\ mode = "live"
  /\ fatal = FALSE
  /\ live = {}
  /\ bitfield = [peer \in Peer |-> {}]
  /\ inflight_requests = [peer \in Peer |-> {}]
  /\ to_request = [peer \in Peer |-> {}]
  /\ victim = [peer \in Peer |-> NoPeer]
  /\ timed = {}
  /\ writer = [peer \in Peer |-> Idle]
  /\ streams = {}
  /\ disturbances = 0

-----------------------------------------------------------------------------
(* Connections *)

\* The peer becomes Live and sends its bit field.
Connect(peer) ==
  /\ mode = "live"
  /\ peer \notin live
  /\ At(peer, "idle") /\ victim[peer] = NoPeer /\ to_request[peer] = {}
  /\ live' = live \cup {peer}
  /\ bitfield' = [bitfield EXCEPT ![peer] = InitialBitfield[peer]]
  /\ UNCHANGED <<ptVars, inflight_requests, to_request, victim, timed, writer, envVars>>

OnHave(peer, p) ==
  /\ Runnable(peer) /\ peer \in live
  /\ bitfield' = [bitfield EXCEPT ![peer] = @ \cup {p}]
  /\ UNCHANGED <<ptVars, live, inflight_requests, to_request, victim, timed, writer, envVars>>

\* What a peer leaves behind in its own task when the task ends.
DropTask(peer) ==
  /\ inflight_requests' = [inflight_requests EXCEPT ![peer] = {}]
  /\ to_request' = [to_request EXCEPT ![peer] = {}]
  /\ writer' = [writer EXCEPT ![peer] = Idle]
  /\ bitfield' = [bitfield EXCEPT ![peer] = {}]
  /\ UNCHANGED <<victim, timed>>

\* on_peer_died of a Live peer, whatever ended the connection.
OnPeerDied(peer) ==
  /\ Runnable(peer) \/ (mode = "live" /\ At(peer, "failed"))
  /\ peer \in live
  /\ ReleasePiecesOwnedBy(peer)
  /\ live' = live \ {peer}
  /\ DropTask(peer)
  /\ UNCHANGED envVars

\* on_peer_died of a peer that was made NotNeeded: its pieces are not released.
OnNotNeededPeerDied(peer) ==
  /\ Runnable(peer) \/ (mode = "live" /\ At(peer, "failed"))
  /\ peer \notin live
  /\ to_request[peer] # {} \/ ~ At(peer, "idle")
  /\ DropTask(peer)
  /\ UNCHANGED <<ptVars, live, envVars>>

-----------------------------------------------------------------------------
(* task_peer_chunk_requester *)

CanAcquire(peer) == Runnable(peer) /\ peer \in live /\ to_request[peer] = {}

\* acquire_next_piece, Reserved: a streamed piece or a queued one.  The
\* position of a stream is not modelled: its window may hold any piece of the
\* file, and may hold none that is missing.
AcquireReserved(peer, p) ==
  /\ CanAcquire(peer)
  /\ p \in PriorityCandidates(UNION {FilePieces(f) : f \in streams}, bitfield[peer])
             \cup QueueCandidates(bitfield[peer])
  /\ ReservePiece(p, peer)
  /\ to_request' = [to_request EXCEPT ![peer] = ChunksToRequest(p)]
  /\ UNCHANGED <<live, bitfield, inflight_requests, victim, timed, writer, envVars>>

\* acquire_next_piece, Stolen: on_steal runs after the locks are released.  A
\* piece whose owner has just stolen it is too young to be stolen again, unless
\* that owner's thread was suspended in between.
AcquireStolen(peer, p) ==
  /\ CanAcquire(peer)
  /\ peer \in timed
  /\ p \in StealCandidates(peer, bitfield[peer])
  /\ ~ PieceLocked(p)
  /\ ThiefMayStall \/ victim[inflight[p]] = NoPeer
  /\ StealPiece(p, peer)
  /\ victim' = [victim EXCEPT ![peer] = inflight[p]]
  /\ to_request' = [to_request EXCEPT ![peer] = ChunksToRequest(p)]
  /\ UNCHANGED <<live, bitfield, inflight_requests, timed, writer, envVars>>

\* PeerStates::on_steal: the victim's requests for the piece are cancelled.
OnSteal(peer) ==
  /\ mode = "live"
  /\ victim[peer] # NoPeer
  /\ LET stolen == NextChunk(to_request[peer])[1]
     IN  inflight_requests' = [inflight_requests EXCEPT ![victim[peer]] =
                                 {x \in @ : x[1] # stolen}]
  /\ victim' = [victim EXCEPT ![peer] = NoPeer]
  /\ UNCHANGED <<ptVars, live, bitfield, to_request, timed, writer, envVars>>

\* One turn of the chunk loop.
RequestChunk(peer) ==
  /\ Runnable(peer) /\ peer \in live
  /\ to_request[peer] # {}
  /\ LET x == NextChunk(to_request[peer])
     IN  /\ to_request' = [to_request EXCEPT ![peer] = @ \ {x}]
         /\ inflight_requests' = [inflight_requests EXCEPT ![peer] = @ \cup {x}]
  /\ UNCHANGED <<ptVars, live, bitfield, victim, timed, writer, envVars>>

-----------------------------------------------------------------------------
(* on_received_piece *)

\* Up to the blocking semaphore.  An answer nobody asked for ends the
\* connection instead (OnPeerDied).  `ok`: the bytes are the right ones.
OnReceivedPiece(peer, x, ok) ==
  /\ Runnable(peer) /\ peer \in live
  /\ At(peer, "idle")
  /\ x \in inflight_requests[peer]
  /\ ok \/ peer \in Corrupt
  /\ inflight_requests' = [inflight_requests EXCEPT ![peer] = @ \ {x}]
  /\ writer' = [writer EXCEPT ![peer] = [at |-> "received", chunk |-> x, ok |-> ok]]
  /\ UNCHANGED <<ptVars, live, bitfield, to_request, victim, timed, envVars>>

Goto(peer, where) == writer' = [writer EXCEPT ![peer] = [@ EXCEPT !.at = where]]

Done(peer) == writer' = [writer EXCEPT ![peer] = Idle]

\* "check_steal": go on only if the piece is still ours.
CheckSteal(peer) ==
  /\ Runnable(peer)
  /\ At(peer, "received")
  /\ IF inflight[PieceAt(peer)] = peer THEN Goto(peer, "checked") ELSE Done(peer)
  /\ UNCHANGED <<ptVars, live, bitfield, inflight_requests, to_request, victim, timed, envVars>>

WriteChunk(peer) ==
  /\ mode = "live"
  /\ At(peer, "checked")
  /\ good' = IF writer[peer].ok THEN good \cup {writer[peer].chunk}
             ELSE good \ {writer[peer].chunk}
  /\ Goto(peer, "written")
  /\ UNCHANGED <<ptVars, live, bitfield, inflight_requests, to_request, victim, timed,
                 mode, fatal, streams, disturbances>>

\* "mark_chunk_downloaded"; a completed piece leaves the in-flight map, and is
\* hashed only if it was on it.
MarkChunk(peer) ==
  /\ mode = "live"
  /\ At(peer, "written")
  /\ LET p == PieceAt(peer)
         c == writer[peer].chunk[2]
     IN  /\ MarkChunkAndTake(p, c)
         /\ IF Completes(p, c) /\ IsInflight(p) THEN Goto(peer, "hashing") ELSE Done(peer)
  /\ UNCHANGED <<live, bitfield, inflight_requests, to_request, victim, timed, envVars>>

\* check_piece, and mark_piece_hash_ok or mark_piece_hash_failed.
CheckPieceOk(peer) ==
  /\ mode = "live"
  /\ At(peer, "hashing")
  /\ PieceAt(peer) \in GoodPieces
  /\ MarkPieceHashOk(PieceAt(peer))
  /\ Goto(peer, "verified")
  /\ UNCHANGED <<live, bitfield, inflight_requests, to_request, victim, timed, envVars>>

CheckPieceFailed(peer) ==
  /\ mode = "live"
  /\ At(peer, "hashing")
  /\ PieceAt(peer) \notin GoodPieces
  /\ MarkPieceHashFailed(PieceAt(peer))
  /\ Goto(peer, "failed")
  /\ UNCHANGED <<live, bitfield, inflight_requests, to_request, victim, timed, envVars>>

\* The peer's counters, then on_piece_completed under the state lock.
OnPieceCompleted(peer) ==
  /\ mode = "live"
  /\ At(peer, "verified")
  /\ UpdateFileHaveOnPieceCompleted(PieceAt(peer))
  /\ timed' = timed \cup {peer}
  /\ IF IsFinishedAndNoActiveStreams THEN Goto(peer, "finishing") ELSE Done(peer)
  /\ UNCHANGED <<inflight, live, bitfield, inflight_requests, to_request, victim, envVars>>

\* disconnect_all_peers_that_have_full_torrent, after the state lock is gone.
\* The parked peers lose their live state; their tasks end on their own.
DisconnectFullPeers(peer) ==
  /\ mode = "live"
  /\ At(peer, "finishing")
  /\ LET parked == {q \in live : HasFullTorrent(q)}
     IN  /\ live' = live \ parked
         /\ inflight_requests' = [q \in Peer |-> IF q \in parked THEN {} ELSE inflight_requests[q]]
         /\ bitfield' = [q \in Peer |-> IF q \in parked THEN {} ELSE bitfield[q]]
  /\ Done(peer)
  /\ UNCHANGED <<ptVars, to_request, victim, timed, envVars>>

-----------------------------------------------------------------------------
(* The user *)

Disturb ==
  /\ disturbances < MaxDisturbances
  /\ disturbances' = disturbances + 1

\* update_only_files on a live or a paused torrent.
SelectFiles(only_files) ==
  /\ Disturb
  /\ mode \in {"live", "paused"}
  /\ UpdateOnlyFiles(only_files)
  /\ UNCHANGED <<taskVars, mode, fatal, good, streams>>

OpenStream(f) ==
  /\ Disturb
  /\ streams' = streams \cup {f}
  /\ UNCHANGED <<ptVars, taskVars, mode, fatal, good>>

CloseStream(f) ==
  /\ streams' = streams \ {f}
  /\ UNCHANGED <<ptVars, taskVars, mode, fatal, good, disturbances>>

\* All peer tasks are cancelled or fail at their next use of the tracker.
DropAllTasks ==
  /\ live' = {}
  /\ bitfield' = [peer \in Peer |-> {}]
  /\ inflight_requests' = [peer \in Peer |-> {}]
  /\ to_request' = [peer \in Peer |-> {}]
  /\ victim' = [peer \in Peer |-> NoPeer]
  /\ timed' = {}
  /\ writer' = [peer \in Peer |-> Idle]

\* TorrentStateLive::pause.
Pause ==
  /\ Disturb
  /\ mode = "live"
  /\ mode' = "paused"
  /\ fatal' = FALSE
  /\ IntoChunks
  /\ DropAllTasks
  /\ UNCHANGED <<good, streams>>

\* TorrentStateLive::new on the chunk tracker of the paused state.
Resume ==
  /\ mode = "paused"
  /\ mode' = "live"
  /\ UNCHANGED <<ptVars, taskVars, fatal, good, streams, disturbances>>

-----------------------------------------------------------------------------
(* Storage errors *)

\* write_chunk fails: on_fatal_error, and the connection returns an error.
WriteChunkError(peer) ==
  /\ Disturb
  /\ mode = "live"
  /\ At(peer, "checked")
  /\ fatal' = TRUE
  /\ Goto(peer, "failed")
  /\ UNCHANGED <<ptVars, live, bitfield, inflight_requests, to_request, victim, timed,
                 mode, good, streams>>

\* check_piece cannot read the file: `?` leaves write_to_disk.
CheckPieceError(peer) ==
  /\ Disturb
  /\ mode = "live"
  /\ At(peer, "hashing")
  /\ Goto(peer, "failed")
  /\ UNCHANGED <<ptVars, live, bitfield, inflight_requests, to_request, victim, timed,
                 mode, fatal, good, streams>>

\* The receiver of the fatal error stops the torrent; the tracker is dropped.
StopWithError ==
  /\ mode = "live" /\ fatal
  /\ mode' = "error"
  /\ fatal' = FALSE
  /\ DropAllTasks
  /\ UNCHANGED <<ptVars, good, streams, disturbances>>

\* Unpausing an errored torrent: the tracker is built anew from a bit field
\* flushed earlier, or from a full check of the file.
Reinitialize ==
  /\ mode = "error"
  /\ mode' = "live"
  /\ \E h \in (SUBSET have) \cup {GoodPieces} :
        /\ have' = h
        /\ queue_pieces' = ComputeQueuedPieces(h, selected)
        /\ chunk_status' = ComputeChunkHaveStatus(h)
        /\ per_file_bytes' = CalcPerFileBytes(h)
        /\ hns' = CalcHns(h, selected)
  /\ inflight' = [p \in Piece |-> NoPeer]
  /\ streams' = {}
  /\ UNCHANGED <<selected, taskVars, fatal, good, disturbances>>

-----------------------------------------------------------------------------
(* The environments the download is put into *)

DownloadStep(peer) ==
  \/ Connect(peer)
  \/ \E p \in LaterHave[peer] : OnHave(peer, p)
  \/ OnPeerDied(peer)
  \/ OnNotNeededPeerDied(peer)
  \/ \E p \in Piece : AcquireReserved(peer, p)
  \/ \E p \in Piece : AcquireStolen(peer, p)
  \/ OnSteal(peer)
  \/ RequestChunk(peer)
  \/ \E x \in Chunk, ok \in BOOLEAN : OnReceivedPiece(peer, x, ok)
  \/ CheckSteal(peer)
  \/ WriteChunk(peer)
  \/ MarkChunk(peer)
  \/ CheckPieceOk(peer)
  \/ CheckPieceFailed(peer)
  \/ OnPieceCompleted(peer)
  \/ DisconnectFullPeers(peer)

\* Peers come, go, stall, lie and steal; nobody touches the torrent.
Download == \E peer \in Peer : DownloadStep(peer)

Reselection == \E only_files \in OnlyFiles : SelectFiles(only_files)

Streaming == \E f \in File : OpenStream(f) \/ CloseStream(f)

Pausing == Pause \/ Resume

ReadErrors == \E peer \in Peer : CheckPieceError(peer)

WriteErrors ==
  \/ \E peer \in Peer : WriteChunkError(peer)
  \/ StopWithError
  \/ Reinitialize

Next == Download \/ Reselection \/ Streaming \/ Pausing \/ ReadErrors \/ WriteErrors

Spec == Init /\ [][Next]_vars

\* The download undisturbed by the user, with a storage that can be read.
DownloadSpec == Init /\ [][Download]_vars

\* Tokio runs every task that is ready; a requester that found nothing looks
\* again after at most five seconds; a peer answers what it is asked for, or
\* its connection times out (OnPeerDied); dead peers are retried.
PeerStep(peer) ==
  \/ Connect(peer)
  \/ OnNotNeededPeerDied(peer)
  \/ OnSteal(peer)
  \/ RequestChunk(peer)
  \/ CheckSteal(peer)
  \/ WriteChunk(peer)
  \/ MarkChunk(peer)
  \/ CheckPieceOk(peer)
  \/ CheckPieceFailed(peer)
  \/ OnPieceCompleted(peer)
  \/ DisconnectFullPeers(peer)

Fairness ==
  \A peer \in Peer :
    /\ WF_vars(PeerStep(peer))
    /\ WF_vars(\E p \in Piece : AcquireReserved(peer, p))
    /\ WF_vars(\E x \in Chunk : OnReceivedPiece(peer, x, TRUE))
    /\ WF_vars(At(peer, "failed") /\ OnPeerDied(peer))

FairDownloadSpec == DownloadSpec /\ Fairness

-----------------------------------------------------------------------------
(* Properties *)

HashedPieces == {PieceAt(w) : w \in {v \in Peer : At(v, "hashing")}}

WriterPc == {"idle", "received", "checked", "written", "hashing", "verified",
             "finishing", "failed"}

WriterTypeOK ==
  /\ writer \in [Peer -> [at : WriterPc, chunk : Chunk \cup {NoChunk}, ok : BOOLEAN]]
  /\ \A w \in Peer : ~ At(w, "idle") => writer[w].chunk \in Chunk

TypeOK ==
  /\ PTTypeOK
  /\ mode \in {"live", "paused", "error"}
  /\ fatal \in BOOLEAN
  /\ live \subseteq Peer
  /\ bitfield \in [Peer -> SUBSET Piece]
  /\ inflight_requests \in [Peer -> SUBSET Chunk]
  /\ to_request \in [Peer -> SUBSET Chunk]
  /\ victim \in [Peer -> Peer \cup {NoPeer}]
  /\ timed \subseteq Peer
  /\ WriterTypeOK
  /\ good \subseteq Chunk
  /\ streams \subseteq File
  /\ disturbances \in 0..MaxDisturbances

\* piece_tracker.rs:6 "a piece is in exactly one state at any time" and
\* STATE.md "a piece is never in multiple states simultaneously": acquire,
\* steal, release, completion and a failed hash never leave a piece both on
\* the queue and in flight, or either of them and downloaded.
PieceStatesDisjoint ==
  \A p \in Piece : /\ ~ (p \in have /\ p \in queue_pieces)
                    /\ ~ (p \in have /\ IsInflight(p))
                    /\ ~ (p \in queue_pieces /\ IsInflight(p))

\* The pieces that are downloaded while their on_piece_completed is still to run.
UncountedPieces == {PieceAt(w) : w \in {v \in Peer : At(v, "verified")}}

\* chunk_tracker.rs:37 "How many bytes do we have per each file": the counter
\* iter_queued_pieces trusts equals what recalculate_per_file_bytes computes,
\* up to the pieces whose on_piece_completed is still to run.
PerFileBytesAccurate == per_file_bytes = CalcPerFileBytes(have \ UncountedPieces)

\* A selected piece that is missing is where iter_queued_pieces offers it to a
\* peer, is owned by a peer, or is being hashed.
MissingIsPursued ==
  \A p \in selected \ have : \/ p \in IterQueuedPieces
                              \/ IsInflight(p)
                              \/ p \in HashedPieces

\* piece_tracker.rs:77 "Pieces are properly requeued when a peer dies": a
\* selected piece that is missing is where some peer can pick it up, is
\* owned by a peer, or is being hashed.  Being on the queue is not enough:
\* iter_queued_pieces must not skip its file as complete, and so the counter
\* per file it goes by is exact.
NeededPiecePursued == PerFileBytesAccurate /\ MissingIsPursued

\* A piece is counted once: the tasks about to run on_piece_completed are about
\* to run it for different pieces, all of them downloaded.
CountedOnce ==
  \A w \in Peer : At(w, "verified") =>
     /\ PieceAt(w) \in have
     /\ \A v \in Peer : At(v, "verified") /\ PieceAt(v) = PieceAt(w) => v = w

\* The same in the hands of a user: whatever is selected, deselected and
\* streamed in the middle of a download, a selected piece that is missing is
\* queued, in flight or being hashed.
NeededPieceTracked ==
  selected \ have \subseteq
    queue_pieces \cup {p \in Piece : IsInflight(p)} \cup HashedPieces

\* chunk_tracker.rs:30 "the pieces that we actually have, fully checked and
\* downloaded": no write to the file happens after the hash was checked.
HaveIsOnDisk == have \subseteq GoodPieces

\* peer_handler.rs:949 "While we hold per piece lock, noone can steal it ...
\* the piece is ours now and will still be by the time the write is
\* finished".
WriterOwnsPiece ==
  \A w \in Peer : writer[w].at \in {"checked", "written"} => inflight[PieceAt(w)] = w

\* A piece whose chunks are all marked is downloaded or is being hashed; in
\* any other state mark_chunk_downloaded would answer PreviouslyCompleted to
\* every later chunk and the piece would never be hashed.
FullPieceIsHashed ==
  \A p \in Piece : PreviouslyCompleted(p) => p \in have \/ p \in HashedPieces

\* An in-flight piece belongs to a connected peer, whose death releases it.
OwnerIsLive == \A p \in Piece : IsInflight(p) => inflight[p] \in live

\* A piece being hashed is nobody else's: two writers never hash it at once,
\* nobody can reserve or steal it, and it is not counted as downloaded yet.
HashingIsExclusive ==
  \A w \in Peer : At(w, "hashing") =>
     /\ PieceAt(w) \notin have \cup queue_pieces
     /\ ~ IsInflight(PieceAt(w))
     /\ \A v \in Peer : At(v, "hashing") /\ PieceAt(v) = PieceAt(w) => v = w

\* Nothing but what is selected is queued, in flight or being hashed, and once
\* a peer found the torrent finished it stays finished, so that parking the
\* peers that have everything takes no piece along.
FinishedIsStable ==
  /\ queue_pieces \cup {p \in Piece : IsInflight(p)} \cup HashedPieces \subseteq selected
  /\ (\E w \in Peer : At(w, "finishing")) => IsFinished

\* The inductive invariant of the undisturbed download.
DownloadInv ==
  /\ TypeOK
  /\ HnsInSync
  /\ mode = "live" /\ streams = {}
  /\ PieceStatesDisjoint
  /\ WriterOwnsPiece
  /\ HashingIsExclusive
  /\ FullPieceIsHashed
  /\ HaveIsOnDisk
  /\ NeededPieceTracked
  /\ FinishedIsStable
  /\ OwnerIsLive

\* Once peers stop dying and stealing from each other, everything selected is
\* downloaded: the requester's loop, the steal, the release of a dead peer's
\* pieces and the hash check never leave a piece nobody works on.
DownloadCompletes ==
  <>[][~ \E peer \in Peer : OnPeerDied(peer) \/ \E p \in Piece : AcquireStolen(peer, p)]_vars
    => <>(selected \subseteq have)

\* Where a piece stands, as the promise of piece_tracker.rs counts it.
Status(p) ==
  IF p \in have THEN "HAVE"
  ELSE IF IsInflight(p) THEN "IN_FLIGHT"
  ELSE IF p \in HashedPieces THEN "HASHING"
  ELSE IF p \in queue_pieces THEN "QUEUED"
  ELSE "NOT_NEEDED"

Lifecycle == INSTANCE PieceLifecycle
  WITH status <- [p \in Piece |-> Status(p)], owner <- inflight

\* Whatever the peers do, every step of the download takes pieces through the
\* lifecycle piece_tracker.rs:6 promises: reserved only from the queue, owned
\* by one peer, hashed by nobody else, downloaded only after a hash check, and
\* all back on the queue when their owner dies.
KeepsLifecycle == Lifecycle!LifeSpec

-----------------------------------------------------------------------------
(* Small torrents for model checking *)

\* Two pieces of two chunks and one chunk, one file.
OneFile   == {1}
Bytes3    == 0..2
PieceOf3  == [x \in Bytes3 |-> x \div 2]
ChunkOf3  == [x \in Bytes3 |-> x % 2]
FileOf3   == [x \in Bytes3 |-> 1]

\* Two pieces of one chunk, a file each.
TwoFiles  == {1, 2}
Bytes2    == 0..1
PieceOf2  == [x \in Bytes2 |-> x]
ChunkOf2  == [x \in Bytes2 |-> 0]
FileOf2   == [x \in Bytes2 |-> x + 1]

\* Two pieces of two chunks and one chunk; the second is shared by two files.
Bytes4    == 0..3
PieceOf4  == [x \in Bytes4 |-> x \div 2]
ChunkOf4  == [x \in Bytes4 |-> IF x = 1 THEN 1 ELSE 0]
FileOf4   == [x \in Bytes4 |-> IF x < 3 THEN 1 ELSE 2]

\* Selections.
AllFiles  == {File}
OneOrBoth == {{1}, {1, 2}}

\* Peers that have everything; or one that has, and one that gets the second
\* piece later and may send corrupt data.
Seeders        == [p \in Peer |-> Piece]
Nobody         == [p \in Peer |-> {}]
SeederAndLeech == [p \in Peer |-> IF p \in Corrupt THEN {0} ELSE Piece]
LeechLater     == [p \in Peer |-> IF p \in Corrupt THEN {1} ELSE {}]

PeerSymmetry == Permutations(Peer)
=============================================================================
