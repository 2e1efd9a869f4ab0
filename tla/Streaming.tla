------------------------------ MODULE Streaming ------------------------------
(* Reading a torrent while it downloads: the streams with their wakers and the *)
(* permit each holds, the HTTP range request above them, the write path that   *)
(* needs a permit too and wakes them, and the watcher that waits for the       *)
(* completion of the torrent. The torrent is paused, resumed, checked again    *)
(* and fails underneath; a check makes a new registry of streams, a resumption *)
(* a new live state with its own notification.                                 *)
EXTENDS Integers, Sequences, SequencesExt, FiniteSets

CONSTANTS Readers, Files,         \* Files: sequence of [off, len]
          Ranges,                 \* the ranges clients ask for: <<start, end>>, end excluded
          PieceLength, BufLen, Lookahead, Selected, Permits,
          MaxStarts,              \* bound: live states made
          MaxChecks               \* bound: registries made

VARIABLES torrent,                \* "live", "paused", "initializing", "error"
          lives, registries,      \* the number of the current one of each
          have, disk,             \* what the tracker knows, what is written
          reader, waker,          \* per reader: its request; its waker in the registry
          free, queue,            \* the semaphore of the blocking spawner
          writer,                 \* the peer task that finishes a piece
          watcher, completionOn,
          missed, late            \* history: wake-ups a pause or a gap swallowed

vars == <<torrent, lives, registries, have, disk, reader, waker, free, queue,
          writer, watcher, completionOn, missed, late>>
torrentVars == <<torrent, lives, registries>>
watchVars == <<watcher, completionOn>>

Total == Files[Len(Files)].off + Files[Len(Files)].len
Least(a, b) == IF a < b THEN a ELSE b
PieceAt(b) == b \div PieceLength
Pieces == 0 .. PieceAt(Total - 1)
PieceEnd(p) == Least((p + 1) * PieceLength, Total)

Idle == [pc |-> "idle", file |-> 1, pos |-> 0, left |-> 0, registry |-> 0]
Holding == {"opened", "ready", "pending"}          \* a FileStream exists
At(s) == Files[s.file].off + s.pos
CurrentPiece(s) == IF At(s) >= Total THEN {} ELSE {PieceAt(At(s))}

(* StreamState::queue: the pieces ahead of a stream, to the end of its file.    *)
QueueOf(s) == LET end == Least(At(s) + Lookahead, Files[s.file].off + Files[s.file].len)
                  last == (end + PieceLength - 1) \div PieceLength
              IN  SelectSeq([i \in 1 .. last - PieceAt(At(s)) |-> PieceAt(At(s)) + i - 1],
                            LAMBDA p : p \in Pieces)

(* iter_next_pieces: the streams in turn, in a random order; `it` is the        *)
(* sequence of what each has left.                                              *)
NextPieces[it \in Seq(Seq(Int))] ==
    IF it = <<>> THEN <<>>
    ELSE IF Head(it) = <<>> THEN NextPieces[Tail(it)]
    ELSE <<Head(Head(it))>> \o NextPieces[Append(Tail(it), Tail(Head(it)))]

Registered == {r \in Readers : reader[r].pc \in Holding /\ reader[r].registry = registries}
Finished == Selected \subseteq have

Init == /\ torrent = "live" /\ lives = 1 /\ registries = 1
        /\ have = {} /\ disk = {}
        /\ reader = [r \in Readers |-> Idle] /\ waker = [r \in Readers |-> FALSE]
        /\ free = Permits /\ queue = <<>>
        /\ writer = [pc |-> "idle", piece |-> 0, live |-> 0]
        /\ watcher = [pc |-> "look", live |-> 0] /\ completionOn = FALSE
        /\ missed = {} /\ late = FALSE

------------------------------------------------------------------------------
(* The semaphore is first come, first served.                                  *)
Enqueue(who) == queue' = Append(queue, who)
Granted(who) == queue # <<>> /\ Head(queue) = who /\ free > 0
                /\ queue' = Tail(queue) /\ free' = free - 1

(* ManagedTorrent::stream: the registry is taken before the permit is awaited. *)
Open(r) ==
    /\ reader[r].pc = "idle" /\ torrent \in {"live", "paused"}
    /\ \E f \in DOMAIN Files : reader' = [reader EXCEPT ![r] = [Idle EXCEPT !.pc = "queued", !.file = f, !.registry = registries]]
    /\ Enqueue(r)
    /\ UNCHANGED <<torrentVars, have, disk, waker, free, writer, watchVars, missed, late>>

Stream(r) ==
    /\ reader[r].pc = "queued" /\ Granted(r)
    /\ reader' = [reader EXCEPT ![r].pc = "opened"] /\ waker' = [waker EXCEPT ![r] = FALSE]
    /\ UNCHANGED <<torrentVars, have, disk, writer, watchVars, missed, late>>

CloseKeepsPermit(r) == /\ reader' = [reader EXCEPT ![r] = Idle] /\ waker' = [waker EXCEPT ![r] = FALSE]
                       /\ queue' = SelectSeq(queue, LAMBDA w : w # r) /\ UNCHANGED free
                       /\ missed' = missed \ {r}

(* Dropping a stream gives back its permit, or its place in the queue.         *)
Close(r) == /\ reader' = [reader EXCEPT ![r] = Idle] /\ waker' = [waker EXCEPT ![r] = FALSE]
            /\ IF reader[r].pc \in Holding THEN free' = free + 1 /\ UNCHANGED queue
               ELSE queue' = SelectSeq(queue, LAMBDA w : w # r) /\ UNCHANGED free
            /\ missed' = missed \ {r}

(* h_torrent_stream_file: a range that does not fit is refused.                *)
Fits(range, len) == range[1] < len /\ range[2] > range[1] /\ range[2] <= len
Respond(r) ==
    /\ reader[r].pc = "opened"
    /\ LET len == Files[reader[r].file].len
       IN  \/ /\ reader' = [reader EXCEPT ![r].pc = "ready", ![r].left = len]
              /\ UNCHANGED <<waker, free, queue, missed>>
           \/ \E range \in Ranges :
                IF Fits(range, len)
                THEN /\ reader' = [reader EXCEPT ![r].pc = "ready", ![r].pos = range[1], ![r].left = range[2] - range[1]]
                     /\ UNCHANGED <<waker, free, queue, missed>>
                ELSE Close(r)
    /\ UNCHANGED <<torrentVars, have, disk, writer, watchVars, late>>

(* How much one read gives: never past the piece that was looked at.           *)
ReadLenOfFile(s) == Least(BufLen, Files[s.file].len - s.pos)
ReadLen(s) == Least(Least(BufLen, PieceEnd(PieceAt(At(s))) - At(s)), Files[s.file].len - s.pos)

Readable(r) == reader[r].pc = "ready" /\ reader[r].left > 0 /\ reader[r].pos < Files[reader[r].file].len

PollEof(r) == /\ reader[r].pc = "ready" /\ ~Readable(r)
              /\ Close(r)
              /\ UNCHANGED <<torrentVars, have, disk, writer, watchVars, late>>

PollFails(r) == /\ Readable(r) /\ torrent \notin {"live", "paused"}
                /\ Close(r)
                /\ UNCHANGED <<torrentVars, have, disk, writer, watchVars, late>>

PollPending(r) == /\ Readable(r) /\ torrent \in {"live", "paused"}
                  /\ PieceAt(At(reader[r])) \notin have
                  /\ waker' = [waker EXCEPT ![r] = TRUE]
                  /\ reader' = [reader EXCEPT ![r].pc = "pending"]
                  /\ UNCHANGED <<torrentVars, have, disk, free, queue, writer, watchVars, missed, late>>

PollReads(r) == /\ Readable(r) /\ torrent \in {"live", "paused"}
                /\ PieceAt(At(reader[r])) \in have
                /\ LET n == Least(ReadLen(reader[r]), reader[r].left)
                   IN  reader' = [reader EXCEPT ![r].pos = @ + n, ![r].left = @ - n]
                /\ UNCHANGED <<torrentVars, have, disk, waker, free, queue, writer, watchVars, missed, late>>

(* The client hangs up.                                                        *)
HangUp(r) == /\ reader[r].pc # "idle" /\ Close(r)
             /\ UNCHANGED <<torrentVars, have, disk, writer, watchVars, late>>

------------------------------------------------------------------------------
(* The write path of the last chunk of a piece, on the live state of its peer. *)
Current(w) == torrent = "live" /\ w.live = lives   \* its pieces were not taken by a pause

Receive == /\ writer.pc = "idle" /\ torrent = "live"
           /\ \E p \in Pieces \ have : writer' = [pc |-> "queued", piece |-> p, live |-> lives]
           /\ Enqueue("w")
           /\ UNCHANGED <<torrentVars, have, disk, reader, waker, free, watchVars, missed, late>>

Write == /\ writer.pc = "queued" /\ Granted("w")
         /\ disk' = disk \union {writer.piece} /\ writer' = [writer EXCEPT !.pc = "written"]
         /\ UNCHANGED <<torrentVars, have, reader, waker, watchVars, missed, late>>

Done == writer' = [writer EXCEPT !.pc = "idle", !.live = 0] /\ free' = free + 1

MarkPieceHashOk == /\ writer.pc = "written" /\ Current(writer)
                   /\ have' = have \union {writer.piece} /\ writer' = [writer EXCEPT !.pc = "marked"]
                   /\ UNCHANGED <<torrentVars, disk, reader, waker, free, queue, watchVars, missed, late>>

(* wake_streams_on_piece_completed.                                            *)
WokenByFile(p) == {r \in Registered : waker[r] /\ p = PieceAt(Files[reader[r].file].off)}
Woken(p) == {r \in Registered : waker[r] /\ CurrentPiece(reader[r]) = {p}}
Wake(R) == /\ reader' = [r \in Readers |-> IF r \in R THEN [reader[r] EXCEPT !.pc = "ready"] ELSE reader[r]]
           /\ waker' = [r \in Readers |-> waker[r] /\ r \notin R]
NotifyFinished == watcher' = IF Finished /\ watcher.pc = "waiting" /\ watcher.live = writer.live
                             THEN [watcher EXCEPT !.pc = "notified"] ELSE watcher
OnPieceCompleted == /\ writer.pc = "marked" /\ Current(writer)
                    /\ Wake(Woken(writer.piece)) /\ NotifyFinished /\ Done
                    /\ late' = (late \/ (Finished /\ watcher = [pc |-> "create", live |-> writer.live]))
                    /\ UNCHANGED <<torrentVars, have, disk, queue, completionOn, missed>>

(* A pause took the pieces: the handler fails where it stands.                 *)
WriteFails == /\ writer.pc \in {"written", "marked"} /\ ~Current(writer)
              /\ missed' = missed \union {r \in Readers : reader[r].pc = "pending" /\ writer.piece \in have
                                                          /\ CurrentPiece(reader[r]) = {writer.piece}}
              /\ Done
              /\ UNCHANGED <<torrentVars, have, disk, reader, waker, queue, watchVars, late>>

------------------------------------------------------------------------------
(* wait_until_completed, and the watcher of the session above it.              *)
Look == /\ watcher.pc = "look" /\ torrent \in {"live", "error"}
        /\ watcher' = IF torrent = "live" THEN [pc |-> "check", live |-> lives] ELSE [pc |-> "ended", live |-> 0]
        /\ UNCHANGED <<torrentVars, have, disk, reader, waker, free, queue, writer, completionOn, missed, late>>

(* is_finished of the live state it holds: without its pieces it says no.      *)
CheckFinished == /\ watcher.pc = "check"
                 /\ watcher' = [watcher EXCEPT !.pc = IF Current(watcher) /\ Finished THEN "notified" ELSE "create"]
                 /\ UNCHANGED <<torrentVars, have, disk, reader, waker, free, queue, writer, completionOn, missed, late>>

Notified == /\ watcher.pc = "create" /\ watcher' = [watcher EXCEPT !.pc = "waiting"]
            /\ UNCHANGED <<torrentVars, have, disk, reader, waker, free, queue, writer, completionOn, missed, late>>

Complete == /\ watcher.pc = "notified" /\ completionOn' = TRUE
            /\ watcher' = [watcher EXCEPT !.pc = "ended"]
            /\ UNCHANGED <<torrentVars, have, disk, reader, waker, free, queue, writer, missed, late>>

------------------------------------------------------------------------------
Becomes(st) == torrent' = st /\ UNCHANGED <<have, disk, reader, waker, free, queue, writer, watchVars, missed, late>>
Pause == torrent = "live" /\ Becomes("paused") /\ UNCHANGED <<lives, registries>>
Start == /\ torrent = "paused" /\ lives < MaxStarts
         /\ Becomes("live") /\ lives' = lives + 1 /\ UNCHANGED registries
Fail == torrent = "live" /\ Becomes("error") /\ UNCHANGED <<lives, registries>>
Recheck == torrent \in {"live", "paused", "error"} /\ registries < MaxChecks
           /\ Becomes("initializing") /\ UNCHANGED <<lives, registries>>
Checked == /\ torrent = "initializing" /\ torrent' = "paused"
           /\ registries' = registries + 1 /\ have' = disk
           /\ UNCHANGED <<lives, disk, reader, waker, free, queue, writer, watchVars, missed, late>>

WriterStep == Write \/ MarkPieceHashOk \/ OnPieceCompleted \/ WriteFails
WatcherStep == Look \/ CheckFinished \/ Notified \/ Complete
ReaderStep(r) == Stream(r) \/ Respond(r) \/ PollEof(r) \/ PollFails(r) \/ PollPending(r) \/ PollReads(r)
Next == \/ \E r \in Readers : Open(r) \/ HangUp(r) \/ ReaderStep(r)
        \/ Receive \/ WriterStep \/ WatcherStep
        \/ Pause \/ Start \/ Fail \/ Recheck \/ Checked

AnyStream == \E r \in Readers : Stream(r)
Fairness == WF_vars(WriterStep) /\ WF_vars(WatcherStep) /\ WF_vars(AnyStream)
Spec == Init /\ [][Next]_vars /\ Fairness

------------------------------------------------------------------------------
Waits(r) == reader[r].pc = "pending" /\ reader[r].registry = registries

\* A stream that waits for a piece is woken when it comes: no stream of the current
\* registry waits for a piece that is there, unless the task that got the piece has
\* yet to wake it, a pause came between the two, or a check found the piece on disk.
\* So is the watcher of the same live state, unless the torrent finished between its
\* look at is_finished and its call of notified. A read stays inside the piece that was looked at; the piece a stream waits for is among the first
\* that iter_next_pieces proposes, one per stream, in whatever order they are taken;
\* and a permit is never lost or given twice.
StreamsAreServed ==
    /\ \A r \in Readers : Waits(r) /\ CurrentPiece(reader[r]) \subseteq have =>
          \/ writer.pc = "marked" /\ CurrentPiece(reader[r]) = {writer.piece}
          \/ r \in missed
    /\ \A r \in Readers : Waits(r) => waker[r]
    /\ watcher.pc = "waiting" /\ Current(watcher) /\ Finished => writer.pc = "marked" \/ late
    /\ \A r \in Readers : Readable(r) => \A i \in 0 .. ReadLen(reader[r]) - 1 :
          PieceAt(At(reader[r]) + i) \in CurrentPiece(reader[r])
    /\ \A order \in SetToSeqs({r \in Registered : QueueOf(reader[r]) # <<>>}) : \A r \in Readers :
          Waits(r) => CurrentPiece(reader[r]) \subseteq
             Range(SubSeq(NextPieces[[i \in DOMAIN order |-> QueueOf(reader[order[i]])]], 1, Len(order)))
    /\ free + Cardinality({r \in Readers : reader[r].pc \in Holding})
            + (IF writer.pc \in {"written", "marked"} THEN 1 ELSE 0) = Permits

\* A piece that was received is written, unless streams hold every permit: a stream keeps
\* its permit until it is closed, however long it waits (streaming.rs:337).
WriteProceeds == writer.pc = "queued" ~> \/ writer.pc # "queued"
                                         \/ Cardinality({r \in Readers : reader[r].pc \in Holding}) = Permits

\* When the torrent finishes, the watcher of the session notices, as the comment of
\* spawn_completion_watcher says.
CompletionIsSeen == torrent = "live" /\ Finished ~> watcher.pc = "ended"
=============================================================================
