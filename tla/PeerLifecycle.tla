--------------------------- MODULE PeerLifecycle ---------------------------
(***************************************************************************)
(* The peers of one live torrent: the map PeerStates (live/peers/mod.rs,   *)
(* live/peer/mod.rs), the queue of addresses to connect to, the peer_adder *)
(* task, one manage_peer task per connection, the wait_for_peer timers, the *)
(* pruner and the health monitor (live/tasks.rs, live/mod.rs), and the     *)
(* on_peer_died handler (live/peer_handler.rs).                            *)
(*                                                                         *)
(* The map is sharded: a step below is what happens under the lock of one  *)
(* entry.  The three sweeps over the whole map (parking full peers when    *)
(* the torrent finishes, reconnecting the parked ones when the selection   *)
(* grows, requeueing dead ones) visit one entry per step.                  *)
(*                                                                         *)
(* Time is kept only as far as the code's constants order it: the first    *)
(* two delays of a peer's backoff are shorter than PEER_PRUNE_RETENTION    *)
(* (5 minutes), all later ones and FROZEN_PEER_RETRY_INTERVAL are longer.  *)
(***************************************************************************)
EXTENDS Naturals, Sequences, FiniteSets

CONSTANTS
  Addr, NoAddr,   \* peer addresses
  Task, NoTask,   \* slots for manage_peer tasks
  Seeds,          \* addresses whose bitfield is full
  Blocked,        \* addresses the adder skips (IPv6, port 0, block and allow lists)
  Announces,      \* [Addr -> Addr]: the listen address of an extended handshake
  PeerLimit,      \* permits of peer_semaphore
  QueueCap,       \* capacity of the peer queue (10000 in the code)
  DisableUpload,  \* options.disable_upload()
  MayConnectToUs, \* addresses that open connections to us
  MaxEvents       \* bound: disturbances (arrivals, deaths, reselections, sweeps)

ASSUME PeerAssumptions ==
  /\ IsFiniteSet(Addr)
  /\ NoAddr \notin Addr /\ NoTask \notin Task
  /\ Seeds \subseteq Addr /\ Blocked \subseteq Addr /\ MayConnectToUs \subseteq Addr
  /\ Announces \in [Addr -> Addr]
  /\ {PeerLimit, QueueCap, MaxEvents} \subseteq Nat
  /\ DisableUpload \in BOOLEAN

\* An instance of Announces: every peer connects to us from the address it listens
\* on, as it does with uTP.
SameAddress == [x \in Addr |-> x]

VARIABLES
  state,     \* PeerState of every address, "absent" when it is not in the map
  tx,        \* the task whose channel a Connecting or Live state holds
  outgoing_address,
  connected, \* outgoing_connections > 0 in the counters of the entry
  backoff,   \* how many delays the entry's backoff has given: 0, 1, or 2 and more
  live_outgoing_peers,
  stats,     \* the aggregate counter of every state
  owns,      \* peers that own an in-flight piece
  peer_queue,
  adder,     \* the address task_peer_adder waits for a permit with
  task,      \* the manage_peer tasks
  waits,     \* wait_for_peer timers per address and length
  since,     \* the timer started when the entry entered its current state
  sweep,     \* what the three loops over the map have still to visit
  finished,  \* is_finished_and_no_active_streams()
  events

vars == <<state, tx, outgoing_address, connected, backoff, live_outgoing_peers, stats, owns,
          peer_queue, adder, task, waits, since, sweep, finished, events>>

entryVars == <<outgoing_address, connected, backoff>>

PeerState == {"queued", "connecting", "live", "dead", "not_needed"}
Active == {"connecting", "live"}
Delay == {"short", "long"}
TaskPc == {"none", "spawned", "connecting", "handshaking", "connected", "dropping"}

NoTaskRecord == [pc |-> "none", addr |-> NoAddr, incoming |-> FALSE, bye |-> FALSE, own |-> FALSE]
Running(t) == task[t].pc \notin {"none", "spawned"}
FreeTask(t) == task[t].pc = "none"
Permits == PeerLimit - Cardinality({t \in Task : ~ FreeTask(t)})

TypeOK ==
  /\ state \in [Addr -> PeerState \cup {"absent"}]
  /\ tx \in [Addr -> Task \cup {NoTask}]
  /\ outgoing_address \in [Addr -> Addr \cup {NoAddr}]
  /\ connected \in [Addr -> BOOLEAN]
  /\ backoff \in [Addr -> 0..2]
  /\ live_outgoing_peers \subseteq Addr /\ owns \subseteq Addr
  /\ stats \in [PeerState -> 0..Cardinality(Addr)]
  /\ peer_queue \in Seq(Addr) /\ Len(peer_queue) <= QueueCap
  /\ adder \in Addr \cup {NoAddr}
  /\ task \in [Task -> [pc : TaskPc, addr : Addr \cup {NoAddr}, incoming : BOOLEAN,
                        bye : BOOLEAN, own : BOOLEAN]]
  /\ waits \in [Addr -> [Delay -> Nat]]
  /\ since \in [Addr -> Delay \cup {"none"}]
  /\ sweep \in [{"park", "reconnect", "requeue"} -> SUBSET Addr]
  /\ finished \in BOOLEAN /\ events \in 0..MaxEvents

Init ==
  /\ state = [a \in Addr |-> "absent"]
  /\ tx = [a \in Addr |-> NoTask]
  /\ outgoing_address = [a \in Addr |-> NoAddr]
  /\ connected = [a \in Addr |-> FALSE]
  /\ backoff = [a \in Addr |-> 0]
  /\ live_outgoing_peers = {} /\ owns = {}
  /\ stats = [s \in PeerState |-> 0]
  /\ peer_queue = << >> /\ adder = NoAddr
  /\ task = [t \in Task |-> NoTaskRecord]
  /\ waits = [a \in Addr |-> [d \in Delay |-> 0]]
  /\ since = [a \in Addr |-> "none"]
  /\ sweep = [k \in {"park", "reconnect", "requeue"} |-> {}]
  /\ finished = FALSE /\ events = 0

Disturb == events < MaxEvents /\ events' = events + 1

-----------------------------------------------------------------------------
(* The map.                                                                *)

\* AggregatePeerStatsAtomic::incdec; "absent" has no counter.
IncDec(old, new) ==
  stats' = [s \in PeerState |-> (stats[s] + (IF s = new THEN 1 ELSE 0))
                                - (IF s = old THEN 1 ELSE 0)]

\* Peer::set_state.  take_state followed by set_state has the same effect as
\* one set_state, under the one lock of the entry.
SetState(a, new, newTx) ==
  /\ state' = [state EXCEPT ![a] = new]
  /\ tx' = [tx EXCEPT ![a] = newTx]
  /\ IncDec(state[a], new)
  /\ live_outgoing_peers' =
       (live_outgoing_peers \ (IF state[a] = "live" THEN {outgoing_address[a]} ELSE {}))
       \cup (IF new = "live" /\ connected[a] THEN {outgoing_address[a]} \cap Addr ELSE {})

\* A new entry starts with fresh counters and a fresh backoff.
NewEntry(a, new, newTx, out) ==
  /\ state' = [state EXCEPT ![a] = new]
  /\ tx' = [tx EXCEPT ![a] = newTx]
  /\ outgoing_address' = [outgoing_address EXCEPT ![a] = out]
  /\ connected' = [connected EXCEPT ![a] = FALSE]
  /\ backoff' = [backoff EXCEPT ![a] = 0]
  /\ since' = [since EXCEPT ![a] = "none"]
  /\ IncDec("absent", new)
  /\ UNCHANGED live_outgoing_peers

\* Mutant: the counters are not decremented.
RemoveEntryUncounted(a) ==
  /\ state' = [state EXCEPT ![a] = "absent"]
  /\ tx' = [tx EXCEPT ![a] = NoTask]
  /\ since' = [since EXCEPT ![a] = "none"]
  /\ UNCHANGED <<entryVars, live_outgoing_peers, stats>>

\* Remove an entry; the tasks of the address keep counters nobody reads.
RemoveEntry(a) ==
  /\ state' = [state EXCEPT ![a] = "absent"]
  /\ tx' = [tx EXCEPT ![a] = NoTask]
  /\ IncDec(state[a], "absent")
  /\ since' = [since EXCEPT ![a] = "none"]
  /\ UNCHANGED <<entryVars, live_outgoing_peers>>

Disowned(tasks, a) ==
  [t \in Task |-> IF tasks[t].addr = a THEN [tasks[t] EXCEPT !.own = FALSE] ELSE tasks[t]]

TrySendOk == Len(peer_queue) < QueueCap

\* peer_queue_tx.try_send: a full queue drops the address.
TrySend(a) == peer_queue' = IF TrySendOk THEN Append(peer_queue, a) ELSE peer_queue

-----------------------------------------------------------------------------
(* Peers arrive.                                                           *)

\* add_peer_if_not_seen, for an address from the DHT, a tracker or PEX.
AddPeerIfNotSeen(a) ==
  /\ Disturb /\ state[a] = "absent"
  /\ NewEntry(a, "queued", NoTask, a)
  /\ TrySend(a)
  /\ UNCHANGED <<owns, adder, task, waits, sweep, finished>>

\* Peer::incoming_connection, for an entry of the map.
IncomingConnection(a, t) ==
  /\ state[a] \in {"queued", "dead", "not_needed"}
  /\ SetState(a, "live", t)
  /\ since' = [since EXCEPT ![a] = "none"]
  /\ UNCHANGED entryVars

\* add_incoming_peer, when a permit is left and the peer is not active.
AddIncomingPeer(a, t) ==
  /\ Disturb /\ a \in MayConnectToUs /\ FreeTask(t) /\ Permits > 0
  /\ \/ IncomingConnection(a, t)
     \/ state[a] = "absent" /\ NewEntry(a, "live", t, NoAddr)
  /\ task' = [task EXCEPT ![t] = [pc |-> "connected", addr |-> a, incoming |-> TRUE,
                                  bye |-> FALSE, own |-> TRUE]]
  /\ UNCHANGED <<owns, peer_queue, adder, waits, sweep, finished>>

\* task_peer_adder takes an address from the queue; a finished torrent that does
\* not upload only marks it, a filtered address is skipped.
AdderReceives ==
  /\ adder = NoAddr /\ peer_queue # << >>
  /\ peer_queue' = Tail(peer_queue)
  /\ LET a == Head(peer_queue) IN
     \/ /\ DisableUpload /\ finished /\ state[a] # "absent"
        /\ SetState(a, "not_needed", NoTask)
        /\ since' = [since EXCEPT ![a] = "none"]
        /\ UNCHANGED adder
     \/ /\ ~ (DisableUpload /\ finished) /\ a \notin Blocked
        /\ adder' = a
        /\ UNCHANGED <<state, tx, stats, live_outgoing_peers, since>>
     \/ /\ IF DisableUpload /\ finished THEN state[a] = "absent" ELSE a \in Blocked
        /\ UNCHANGED <<adder, state, tx, stats, live_outgoing_peers, since>>
  /\ UNCHANGED <<entryVars, owns, task, waits, sweep, finished, events>>

\* A permit came: spawn task_manage_outgoing_peer.
AdderSpawns(t) ==
  /\ adder # NoAddr /\ FreeTask(t) /\ Permits > 0
  /\ task' = [task EXCEPT ![t] = [pc |-> "spawned", addr |-> adder, incoming |-> FALSE,
                                  bye |-> FALSE, own |-> FALSE]]
  /\ adder' = NoAddr
  /\ UNCHANGED <<state, tx, entryVars, live_outgoing_peers, stats, owns, peer_queue, waits,
                 since, sweep, finished, events>>

-----------------------------------------------------------------------------
(* A connection.                                                           *)

\* mark_peer_connecting (idle_to_connecting), the first thing an outgoing task
\* does; for an entry that is gone, dead or active the task ends with an error.
MarkPeerConnecting(t) ==
  LET a == task[t].addr IN
  /\ task[t].pc = "spawned"
  /\ IF state[a] \in {"queued", "not_needed"}
     THEN /\ SetState(a, "connecting", t)
          /\ since' = [since EXCEPT ![a] = "none"]
          /\ task' = [task EXCEPT ![t] = [pc |-> "connecting", addr |-> a, incoming |-> FALSE,
                                         bye |-> FALSE, own |-> TRUE]]
     ELSE /\ task' = [task EXCEPT ![t] = NoTaskRecord]
          /\ UNCHANGED <<state, tx, stats, live_outgoing_peers, since>>
  /\ UNCHANGED <<entryVars, owns, peer_queue, adder, waits, sweep, finished, events>>

\* on_connected: the TCP, uTP or SOCKS connection is there.
OnConnected(t) ==
  /\ task[t].pc = "connecting"
  /\ connected' = IF task[t].own THEN [connected EXCEPT ![task[t].addr] = TRUE] ELSE connected
  /\ task' = [task EXCEPT ![t].pc = "handshaking"]
  /\ UNCHANGED <<state, tx, outgoing_address, backoff, live_outgoing_peers, stats, owns,
                 peer_queue, adder, waits, since, sweep, finished, events>>

\* on_handshake: set_peer_live, which does nothing unless the entry is Connecting,
\* and then keeps the channel found there.
OnHandshake(t) ==
  LET a == task[t].addr IN
  /\ task[t].pc = "handshaking"
  /\ task' = [task EXCEPT ![t].pc = "connected"]
  /\ IF state[a] = "connecting"
     THEN /\ SetState(a, "live", tx[a])
          /\ since' = [since EXCEPT ![a] = "none"]
     ELSE UNCHANGED <<state, tx, stats, live_outgoing_peers, since>>
  /\ UNCHANGED <<entryVars, owns, peer_queue, adder, waits, sweep, finished, events>>

\* on_extended_handshake: an incoming peer says where it listens.
OnExtendedHandshake(t) ==
  LET a == task[t].addr IN
  /\ task[t].pc = "connected" /\ task[t].incoming /\ state[a] # "absent"
  /\ outgoing_address[a] # Announces[a]
  /\ outgoing_address' = [outgoing_address EXCEPT ![a] = Announces[a]]
  /\ UNCHANGED <<state, tx, connected, backoff, live_outgoing_peers, stats, owns, peer_queue,
                 adder, task, waits, since, sweep, finished, events>>

\* acquire_next_piece, under the locks of a Live entry and of the torrent: reserve a
\* piece, or steal one from a peer, which may own others.  The requester looked at
\* `finished` before it waited to be unchoked, so the torrent may have finished since.
AcquireNextPiece(t) ==
  LET a == task[t].addr IN
  /\ task[t].pc = "connected" /\ state[a] = "live" /\ sweep["reconnect"] = {}
  /\ \/ owns' = owns \cup {a}
     \/ \E b \in owns \ {a} : owns' = (owns \cup {a}) \ {b}
  /\ UNCHANGED <<state, tx, entryVars, live_outgoing_peers, stats, peer_queue, adder, task,
                 waits, since, sweep, finished, events>>

\* A piece is downloaded: it leaves the in-flight map (its owner may have others), then
\* reset_peer_backoff and on_piece_completed, which begins to disconnect the peers that
\* have everything when the torrent is finished.  Whatever others then have in flight was
\* deselected on the way.  The writer of the last chunk asks for its piece, not for the
\* state of its peer, which another completion may have parked.
PieceCompleted(t) ==
  LET a == task[t].addr IN
  /\ task[t].pc = "connected" /\ a \in owns /\ sweep["reconnect"] = {}
  /\ owns' \in {owns, owns \ {a}}
  /\ backoff' = [backoff EXCEPT ![a] = 0]
  /\ \E done \in BOOLEAN :
       /\ finished => done
       /\ finished' = done
       /\ sweep' = IF done THEN [sweep EXCEPT !["park"] = Addr] ELSE sweep
  /\ UNCHANGED <<state, tx, outgoing_address, connected, live_outgoing_peers, stats, peer_queue,
                 adder, task, waits, since, events>>

-----------------------------------------------------------------------------
(* A connection ends.                                                      *)

\* The requester returns Ok, or the connection reads Disconnect(Ok(())).
EndsWithoutError(t) ==
  LET a == task[t].addr IN
  \/ task[t].bye /\ task[t].pc = "connected"
  \/ task[t].pc = "connected" /\ state[a] # "live" /\ ~ finished
  \/ task[t].pc = "connected" /\ state[a] = "live" /\ finished /\ a \in Seeds

\* The retry an outgoing peer that died with an error waits for.
RetryDelay(a) == IF backoff[a] < 2 THEN "short" ELSE "long"

\* release_pieces_owned_by, for an entry that was Live.
ReleasePieces(a) == owns' = IF state[a] = "live" THEN owns \ {a} ELSE owns

\* on_peer_died.
OnPeerDied(t, error) ==
  LET a == task[t].addr
      next == IF ~ error \/ finished THEN "not_needed" ELSE "dead"
      retried == next = "dead" /\ ~ task[t].incoming
      d == RetryDelay(a)
  IN
  /\ task[t].pc \in {"connecting", "handshaking", "connected"}
  /\ IF error THEN Disturb ELSE EndsWithoutError(t) /\ UNCHANGED events
  /\ \/ /\ state[a] = "absent"
        /\ task' = [task EXCEPT ![t] = NoTaskRecord]
        /\ UNCHANGED <<state, tx, stats, live_outgoing_peers, since, owns, waits, backoff>>
     \/ /\ state[a] \in Active
        /\ SetState(a, next, NoTask)
        /\ ReleasePieces(a)
        /\ since' = [since EXCEPT ![a] = IF retried THEN d ELSE "none"]
        /\ waits' = IF retried THEN [waits EXCEPT ![a][d] = @ + 1] ELSE waits
        /\ backoff' = IF retried /\ backoff[a] < 2 THEN [backoff EXCEPT ![a] = @ + 1] ELSE backoff
        /\ task' = [task EXCEPT ![t] = NoTaskRecord]
     \/ /\ state[a] = "not_needed"
        /\ task' = [task EXCEPT ![t] = NoTaskRecord]
        /\ UNCHANGED <<state, tx, stats, live_outgoing_peers, since, owns, waits, backoff>>
     \/ /\ state[a] \in {"queued", "dead"}
        /\ SetState(a, "queued", NoTask)
        /\ since' = [since EXCEPT ![a] = "none"]
        /\ task' = [task EXCEPT ![t].pc = "dropping"]
        /\ UNCHANGED <<owns, waits, backoff>>
  /\ UNCHANGED <<outgoing_address, connected, peer_queue, adder, sweep, finished>>

\* "ignoring it forever": drop_peer, after the lock of the entry was released.
DropPeer(t) ==
  LET a == task[t].addr IN
  /\ task[t].pc = "dropping"
  /\ IF state[a] # "absent"
     THEN RemoveEntry(a)
     ELSE UNCHANGED <<state, tx, stats, since, entryVars, live_outgoing_peers>>
  /\ task' = Disowned([task EXCEPT ![t] = NoTaskRecord], a)
  /\ UNCHANGED <<owns, peer_queue, adder, waits, sweep, finished, events>>

\* Mutant: the peer is marked Queued but not put into the queue.
WaitForPeerNotSent(a, d) ==
  /\ waits[a][d] > 0
  /\ d = "long" => since[a] # "long"
  /\ waits' = [waits EXCEPT ![a][d] = @ - 1]
  /\ IF state[a] = "dead"
     THEN SetState(a, "queued", NoTask) /\ since' = [since EXCEPT ![a] = "none"]
     ELSE UNCHANGED <<state, tx, stats, live_outgoing_peers, since>>
  /\ UNCHANGED <<entryVars, owns, adder, task, sweep, finished, events, peer_queue>>

\* wait_for_peer wakes up.  By the time a long delay is over, an entry that
\* stayed Dead has been pruned.
WaitForPeer(a, d) ==
  /\ waits[a][d] > 0
  /\ d = "long" => since[a] # "long"
  /\ waits' = [waits EXCEPT ![a][d] = @ - 1]
  /\ IF state[a] = "dead"
     THEN /\ SetState(a, "queued", NoTask)
          /\ since' = [since EXCEPT ![a] = "none"]
          /\ TrySend(a)
     ELSE UNCHANGED <<state, tx, stats, live_outgoing_peers, since, peer_queue>>
  /\ UNCHANGED <<entryVars, owns, adder, task, sweep, finished, events>>

\* prune_dead_peers: an entry that has been Dead or NotNeeded for five minutes,
\* in which a task told to disconnect, or about to start, has long done so.
PruneDeadPeers(a) ==
  /\ state[a] \in {"dead", "not_needed"} /\ since[a] # "short"
  /\ \A t \in Task : task[t].addr = a => ~ task[t].bye /\ task[t].pc \notin {"spawned", "dropping"}
  /\ RemoveEntry(a)
  /\ task' = Disowned(task, a)
  /\ UNCHANGED <<owns, peer_queue, adder, waits, sweep, finished, events>>

-----------------------------------------------------------------------------
(* The sweeps over the map.                                                *)

\* update_only_files: the new selection is complete, or it is not and
\* reconnect_all_not_needed_peers begins, while the torrent's lock is held.
UpdateOnlyFiles(done) ==
  /\ Disturb /\ sweep["reconnect"] = {}
  /\ finished' = done
  /\ sweep' = IF done THEN sweep ELSE [sweep EXCEPT !["reconnect"] = Addr]
  /\ UNCHANGED <<state, tx, entryVars, live_outgoing_peers, stats, owns, peer_queue, adder,
                 task, waits, since>>

\* task_peer_health_monitor: requeue_dead_peers begins.
PeerHealthMonitor ==
  /\ Disturb /\ ~ finished /\ sweep["requeue"] = {}
  /\ \E a \in Addr : state[a] = "dead"
  /\ sweep' = [sweep EXCEPT !["requeue"] = Addr]
  /\ UNCHANGED <<state, tx, entryVars, live_outgoing_peers, stats, owns, peer_queue, adder,
                 task, waits, since, finished>>

\* Disconnect one Live peer that has everything.
ParkOne(a) ==
  /\ a \in sweep["park"]
  /\ sweep' = [sweep EXCEPT !["park"] = @ \ {a}]
  /\ IF state[a] = "live" /\ a \in Seeds
     THEN /\ task' = [task EXCEPT ![tx[a]].bye = TRUE]
          /\ SetState(a, "not_needed", NoTask)
          /\ since' = [since EXCEPT ![a] = "none"]
     ELSE UNCHANGED <<state, tx, stats, live_outgoing_peers, since, task>>
  /\ UNCHANGED <<entryVars, owns, peer_queue, adder, waits, finished, events>>

\* reconnect_not_needed_peer and try_send; the first failed send ends the loop.
ReconnectOne(a) ==
  LET out == outgoing_address[a]
      sends == state[a] = "not_needed" /\ out # NoAddr
  IN
  /\ a \in sweep["reconnect"]
  /\ IF sends /\ out = a
     THEN SetState(a, "queued", NoTask) /\ since' = [since EXCEPT ![a] = "none"]
     ELSE UNCHANGED <<state, tx, stats, live_outgoing_peers, since>>
  /\ IF sends THEN TrySend(out) ELSE UNCHANGED peer_queue
  /\ sweep' = [sweep EXCEPT !["reconnect"] = IF sends /\ ~ TrySendOk THEN {} ELSE @ \ {a}]
  /\ UNCHANGED <<entryVars, owns, adder, task, waits, finished, events>>

\* Mutant: a peer that is being connected to is requeued as well.
RequeueOneConnecting(a) ==
  LET sends == state[a] \in {"dead", "connecting"} IN
  /\ a \in sweep["requeue"]
  /\ IF sends
     THEN /\ SetState(a, "queued", NoTask)
          /\ since' = [since EXCEPT ![a] = "none"]
          /\ backoff' = [backoff EXCEPT ![a] = 0]
          /\ TrySend(a)
     ELSE UNCHANGED <<state, tx, stats, live_outgoing_peers, since, backoff, peer_queue>>
  /\ sweep' = [sweep EXCEPT !["requeue"] = IF sends /\ ~ TrySendOk THEN {} ELSE @ \ {a}]
  /\ UNCHANGED <<outgoing_address, connected, owns, adder, task, waits, finished, events>>

\* Mutant: the peer is marked Queued but not put into the queue.
RequeueOneNotSent(a) ==
  /\ a \in sweep["requeue"]
  /\ IF state[a] = "dead"
     THEN /\ SetState(a, "queued", NoTask)
          /\ since' = [since EXCEPT ![a] = "none"]
          /\ backoff' = [backoff EXCEPT ![a] = 0]
     ELSE UNCHANGED <<state, tx, stats, live_outgoing_peers, since, backoff>>
  /\ sweep' = [sweep EXCEPT !["requeue"] = @ \ {a}]
  /\ UNCHANGED <<outgoing_address, connected, owns, adder, task, waits, finished, events, peer_queue>>

\* Requeue one Dead peer with a fresh backoff; likewise.
RequeueOne(a) ==
  LET sends == state[a] = "dead" IN
  /\ a \in sweep["requeue"]
  /\ IF sends
     THEN /\ SetState(a, "queued", NoTask)
          /\ since' = [since EXCEPT ![a] = "none"]
          /\ backoff' = [backoff EXCEPT ![a] = 0]
          /\ TrySend(a)
     ELSE UNCHANGED <<state, tx, stats, live_outgoing_peers, since, backoff, peer_queue>>
  /\ sweep' = [sweep EXCEPT !["requeue"] = IF sends /\ ~ TrySendOk THEN {} ELSE @ \ {a}]
  /\ UNCHANGED <<outgoing_address, connected, owns, adder, task, waits, finished, events>>

-----------------------------------------------------------------------------
TaskStep(t) ==
  \/ MarkPeerConnecting(t)
  \/ OnConnected(t)
  \/ OnHandshake(t)
  \/ OnExtendedHandshake(t)
  \/ AcquireNextPiece(t)
  \/ PieceCompleted(t)
  \/ \E error \in BOOLEAN : OnPeerDied(t, error)

\* What happens as long as no selection leaves something to download: then no
\* sweep reconnects peers, and no task finds its entry in "a wrong state".
CalmNext ==
  \/ \E a \in Addr :
       \/ AddPeerIfNotSeen(a)
       \/ \E t \in Task : AddIncomingPeer(a, t)
       \/ \E d \in Delay : WaitForPeer(a, d)
       \/ PruneDeadPeers(a)
       \/ ParkOne(a) \/ RequeueOne(a)
  \/ \E t \in Task : AdderSpawns(t) \/ TaskStep(t)
  \/ AdderReceives
  \/ UpdateOnlyFiles(TRUE) \/ PeerHealthMonitor

Next ==
  \/ CalmNext
  \/ UpdateOnlyFiles(FALSE)
  \/ \E a \in Addr : ReconnectOne(a)
  \/ \E t \in Task : DropPeer(t)

Spec == Init /\ [][Next]_vars

\* The runtime polls every ready task and fires every timer; a connection is
\* made, or fails, in the end.
Fairness ==
  /\ WF_vars(AdderReceives)
  /\ \A t \in Task :
       /\ WF_vars(AdderSpawns(t))
       /\ WF_vars(MarkPeerConnecting(t) \/ OnConnected(t) \/ OnHandshake(t))
       /\ WF_vars(task[t].bye /\ OnPeerDied(t, FALSE))
  /\ \A a \in Addr :
       /\ \A d \in Delay : WF_vars(WaitForPeer(a, d))
       /\ WF_vars(ParkOne(a)) /\ WF_vars(RequeueOne(a))

CalmSpec == Init /\ [][CalmNext]_vars /\ Fairness

-----------------------------------------------------------------------------
(* What must hold whatever happens.                                        *)

\* Every counter PeerStates reports is the number of entries in that state:
\* no transition, removal or pruning forgets one (peers/stats/mod.rs).
CountersMatch ==
  \A s \in PeerState : stats[s] = Cardinality({a \in Addr : state[a] = s})

\* A Connecting or Live entry holds the channel of a task of that address that
\* is still running.  An entry whose task is gone would be refused new
\* connections ("peer already active") and never be pruned.
ActiveEntryHasTask ==
  \A a \in Addr : state[a] \in Active =>
    tx[a] \in Task /\ task[tx[a]].addr = a /\ Running(tx[a])

\* Entries, tasks and counters of the map of peers agree after any sequence of
\* connections, failures, parkings, prunings and reselections (peers/mod.rs).
PeersAreCounted == CountersMatch /\ ActiveEntryHasTask

\* An active entry is never taken over by another connection: incoming ones are
\* refused, a second outgoing task ends (peer/mod.rs incoming_connection,
\* idle_to_connecting).
ActiveEntryKept ==
  [][\A a \in Addr : state[a] \in Active /\ state'[a] \in Active => tx'[a] = tx[a]]_vars

(* What holds as long as files are only deselected, down to a selection    *)
(* that is complete, no filtered address is queued and the queue is not    *)
(* full.                                                                   *)

\* on_peer_died never finds the entry Queued or Dead, "a wrong state".
NoWrongState == \A t \in Task : task[t].pc # "dropping"

\* A task that has shaken hands is the one its Live entry talks to, until it is
\* told to disconnect.
ConnectedTaskIsLive ==
  \A t \in Task : task[t].pc = "connected" /\ ~ task[t].bye =>
    state[task[t].addr] = "live" /\ tx[task[t].addr] = t

\* A Queued peer is on its way to be connected to: in the queue, with the adder,
\* or in the hands of a task that starts.
QueuedIsPending ==
  \A a \in Addr : state[a] = "queued" =>
    \/ \E i \in 1..Len(peer_queue) : peer_queue[i] = a
    \/ adder = a
    \/ \E t \in Task : task[t].pc = "spawned" /\ task[t].addr = a

\* Every in-flight piece belongs to a Live peer, whose death releases it.  Once the torrent
\* is finished, a piece deselected in flight may stay with a peer that was disconnected for
\* having everything (or marked, by a torrent that does not upload): nobody waits for it.
OwnerIsLivePeer ==
  \A a \in owns : state[a] = "live" \/ (finished /\ (a \in Seeds \/ DisableUpload))

\* What PEX tells others: only listen addresses of peers that are Live.
LiveOutgoingAreLive ==
  live_outgoing_peers \subseteq {outgoing_address[a] : a \in {b \in Addr : state[b] = "live"}}

\* Tasks and entries agree, over deaths, parking, requeueing and retries: no task ends in "a wrong
\* state", one that has shaken hands is the one its Live entry talks to, a Queued peer is on its
\* way to be connected to, PEX (live_outgoing_peers) tells of Live peers only, and every piece in
\* flight belongs to a Live peer, whose death releases it, unless it was deselected in flight and
\* its owner, a full peer, parked.
PeersConsistent ==
  /\ NoWrongState /\ ConnectedTaskIsLive /\ QueuedIsPending /\ LiveOutgoingAreLive
  /\ OwnerIsLivePeer

\* A peer whose connection failed for the first or second time is tried again
\* when its backoff is over, unless the torrent finished in the meantime.
FailedPeerIsRetried ==
  \A a \in Addr : state[a] = "dead" /\ since[a] = "short" ~> state[a] \in Active \/ finished

\* A Queued peer is connected to.
QueuedIsTried ==
  \A a \in Addr : state[a] = "queued" ~> state[a] # "queued"
=============================================================================
