------------------------------ MODULE LockOrder ------------------------------
(***************************************************************************)
(* The locks of a torrent and the order in which its handlers take them:   *)
(* the session's database of torrents, the lock of the managed torrent,    *)
(* the shards of the map of peers, the lock of the live state, and the     *)
(* map of streams.  The handlers are synchronous (none awaits while it     *)
(* holds a lock), so a worker thread of the runtime runs one of them to    *)
(* its end, and a thread that waits for a lock waits for good when the     *)
(* threads that hold it wait as well.                                      *)
(*                                                                         *)
(* A handler is the set of its critical sections, each the sequence of its *)
(* lock operations from the first lock it takes to the moment it holds     *)
(* none: a thread between two sections is like one that has returned.      *)
(* Left out are locks that are never held while another one is asked for   *)
(* (live_outgoing_peers, the handler's own i_am_choked) and the per-piece  *)
(* locks: they are read-locked only under the live lock, and write-locked  *)
(* only by try_write, which never waits.                                   *)
(***************************************************************************)
EXTENDS Naturals, Sequences, Functions, TLC

CONSTANTS
  Thread,        \* the worker threads
  Shards,        \* the shards of the map of peers, in the map's order
  Reselects      \* does the user change the selection of a live torrent?

ASSUME ShardsAssumption ==
  /\ Shards \in Seq(STRING) /\ Shards # <<>> /\ IsInjective(Shards)
  /\ Range(Shards) \cap {"db", "torrent", "state", "streams"} = {}
ASSUME ReselectsAssumption == Reselects \in BOOLEAN

Shard == Range(Shards)
Lock == {"db", "torrent", "state", "streams"} \cup Shard

\* An instance for TLC: two shards; threads are alike.
TwoShards == <<"shard1", "shard2">>
Symmetry == Permutations(Thread)

VARIABLES
  todo,      \* what is left of the handler a thread runs
  readers,   \* the threads that hold a lock for reading
  writer,    \* the thread that holds a lock for writing, if any
  parked     \* the threads that asked for a lock in vain, and wait

vars == <<todo, readers, writer, parked>>

-----------------------------------------------------------------------------
(* Lock operations.  A guard lives as long as the body it encloses.        *)

Op(op, l) == [op |-> op, lock |-> l]
Reading(l, body) == <<Op("read", l)>> \o body \o <<Op("drop", l)>>
Writing(l, body) == <<Op("write", l)>> \o body \o <<Op("drop", l)>>
Read(l) == Reading(l, <<>>)
Write(l) == Writing(l, <<>>)

\* An iterator over the map locks the next shard before it drops the last.
Iterate(op) ==
  [k \in 1 .. 2 * Len(Shards) |->
     IF k = 1 THEN Op(op, Shards[1])
     ELSE IF k = 2 * Len(Shards) THEN Op("drop", Shards[Len(Shards)])
     ELSE IF k % 2 = 0 THEN Op(op, Shards[(k \div 2) + 1]) ELSE Op("drop", Shards[k \div 2])]
Iter == Iterate("read")
IterMut == Iterate("write")

-----------------------------------------------------------------------------
(* The handlers, by the shard s of the peer at hand, and o of another.     *)

IsFinishedAndNoActiveStreams == Read("state") \o Reading("state", Read("streams"))

OnSteal(s, o) == {Read(s), Read(o), Write(o)}

\* Choked, or not; the steal is handled when the shard is free again.
AcquireNextPiece(s, o) ==
  {Write(s), Writing(s, Writing("state", Read("streams")))} \cup OnSteal(s, o)

\* NotNeeded, gone or in a wrong state; a connecting or a Live peer that ends
\* without an error, or with one.  drop_peer and the reset of the backoff
\* take the shard once more.
OnPeerDied(s) ==
  LET died == {<<>>, Write("state")}
  IN  {Writing(s, d) : d \in died}
        \cup {Writing(s, d \o IsFinishedAndNoActiveStreams) : d \in died}

\* A mutant: the full peers are parked under the lock of the live state.
OnPieceCompletedKeepsLock ==
  {Writing("state", Write("streams")),
   Writing("state", Write("streams") \o Read("streams") \o IterMut)}

OnPieceCompleted ==
  {Writing("state", Write("streams")),
   Writing("state", Write("streams") \o Read("streams")),
   IterMut}

\* The ownership check, the marking of the chunk and of the piece, the reset
\* of the peer's backoff.
WriteToDisk(s) == {Read("state"), Write("state"), Write(s)} \cup OnPieceCompleted

UpdateOnlyFiles ==
  {Writing("torrent", Write("state")), Writing("torrent", Writing("state", IterMut))}

\* pause, stop_with_error, prepare_force_recheck and delete.
PauseTorrent == {Writing("torrent", Write("state")), Write("torrent")}

\* The state of one torrent, or of all of them under the session's database.
TorrentStats ==
  LET stats == Reading("torrent", Iter \o Read("state") \o Read("state"))
  IN  {stats, Reading("db", stats), Reading("db", Read("torrent"))}

AddOrRemoveTorrent == {Write("db"), Read("db")}

\* Register to be woken, or read the file and move on.
PollRead ==
  {Reading("torrent", Reading("state", Write("streams"))),
   Reading("torrent", Read("state")), Read("torrent"), Write("streams")}

OpenStream ==
  {Read("torrent"), Reading("torrent", Read("state")),
   Reading("torrent", IterMut), Write("streams")}

\* Handlers that use the entry of a peer, or the live state, and nothing else.
ShortHandlers(s) == {Read(s), Write(s), Read("state"), Write("state")}

\* The speed estimator, the pruner and the health monitor.
PeriodicTasks ==
  {Iter, Read("state"), IterMut} \cup {Write(s) : s \in Shard}
    \cup {Reading("state", Read("streams"))}

Calls ==
  (UNION {AcquireNextPiece(s, o) : s \in Shard, o \in Shard})
    \cup (UNION {OnPeerDied(s) \cup WriteToDisk(s) \cup ShortHandlers(s) : s \in Shard})
    \cup PauseTorrent \cup TorrentStats \cup AddOrRemoveTorrent
    \cup PollRead \cup OpenStream \cup PeriodicTasks
    \cup IF Reselects THEN UpdateOnlyFiles ELSE {}

-----------------------------------------------------------------------------
Asks(t, l, op) == todo[t] # <<>> /\ Head(todo[t]) = Op(op, l)

\* A reader also waits for the writers that are parked on the lock.
WaitsFor(t) ==
  IF todo[t] = <<>> \/ Head(todo[t]).op = "drop" THEN {}
  ELSE LET l == Head(todo[t]).lock
           queued == {u \in parked : Asks(u, l, "write")}
       IN  writer[l] \cup (IF Head(todo[t]).op = "write" THEN readers[l] ELSE queued \ {t})

Init ==
  /\ todo = [t \in Thread |-> <<>>]
  /\ readers = [l \in Lock |-> {}]
  /\ writer = [l \in Lock |-> {}]
  /\ parked = {}

Call(t) ==
  /\ todo[t] = <<>>
  /\ \E c \in Calls : todo' = [todo EXCEPT ![t] = c]
  /\ UNCHANGED <<readers, writer, parked>>

Park(t) ==
  /\ WaitsFor(t) # {}
  /\ t \notin parked
  /\ parked' = parked \cup {t}
  /\ UNCHANGED <<todo, readers, writer>>

Take(t) ==
  /\ todo[t] # <<>>
  /\ Head(todo[t]).op # "drop"
  /\ WaitsFor(t) = {}
  /\ LET l == Head(todo[t]).lock
     IN  IF Head(todo[t]).op = "read"
         THEN /\ readers' = [readers EXCEPT ![l] = @ \cup {t}]
              /\ UNCHANGED writer
         ELSE /\ writer' = [writer EXCEPT ![l] = {t}]
              /\ UNCHANGED readers
  /\ parked' = parked \ {t}
  /\ todo' = [todo EXCEPT ![t] = Tail(@)]

Drop(t) ==
  /\ todo[t] # <<>>
  /\ Head(todo[t]).op = "drop"
  /\ LET l == Head(todo[t]).lock
     IN  /\ readers' = [readers EXCEPT ![l] = @ \ {t}]
         /\ writer' = [writer EXCEPT ![l] = @ \ {t}]
  /\ todo' = [todo EXCEPT ![t] = Tail(@)]
  /\ UNCHANGED parked

Next == \E t \in Thread : Call(t) \/ Park(t) \/ Take(t) \/ Drop(t)

Spec == Init /\ [][Next]_vars

-----------------------------------------------------------------------------
(* No set of threads waits for itself: STATE.md orders the locks of the     *)
(* peers before the lock of the live state "to avoid deadlocks", and       *)
(* on_steal, on_peer_died and on_piece_completed drop their guards early   *)
(* "to avoid deadlock" when they need the map of peers again.              *)
NoCircularWait ==
  \A D \in (SUBSET Thread) \ {{}} : \E t \in D : WaitsFor(t) \cap D = {}

==============================================================================
