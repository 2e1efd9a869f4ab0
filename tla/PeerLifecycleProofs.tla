------------------------ MODULE PeerLifecycleProofs ------------------------
(***************************************************************************)
(* The map of peers, for any number of peers and connections.  Whatever    *)
(* happens, its counters are right and an active entry has a running task  *)
(* nobody takes it from.  As long as files are only deselected, tasks and  *)
(* entries agree.                                                          *)
(***************************************************************************)
EXTENDS PeerLifecycle, FiniteSetTheorems, SequenceTheorems, TLAPS

TaskRecord == [pc : TaskPc, addr : Addr \cup {NoAddr}, incoming : BOOLEAN,
               bye : BOOLEAN, own : BOOLEAN]

\* The types the proofs below need.
Shape ==
  /\ state \in [Addr -> PeerState \cup {"absent"}]
  /\ tx \in [Addr -> Task \cup {NoTask}]
  /\ outgoing_address \in [Addr -> Addr \cup {NoAddr}]
  /\ task \in [Task -> TaskRecord]
  /\ \A t \in Task : ~ FreeTask(t) => task[t].addr \in Addr
  /\ peer_queue \in Seq(Addr)
  /\ adder \in Addr \cup {NoAddr}

-----------------------------------------------------------------------------
(***************************************************************************)
(* What a step does to the entries and to the tasks they talk to.          *)
(***************************************************************************)

Inactive == {"queued", "dead", "not_needed", "absent"}

Moves(a, new, newTx) ==
  /\ state' = [state EXCEPT ![a] = new]
  /\ tx' = [tx EXCEPT ![a] = newTx]
  /\ IncDec(state[a], new)

\* The task stays with its address and goes on running.
Keeps(t) == task'[t].addr = task[t].addr /\ (Running(t) => Running(t)')

\* No entry changes; a task that ends is not one an active entry talks to.
Quiet ==
  /\ UNCHANGED <<state, tx, stats>>
  /\ \A t \in Task : Keeps(t) \/ ~ Running(t) \/ state[task[t].addr] \notin Active

\* An entry becomes, or stays, inactive, or is removed; its tasks may end.
Leaves(a) ==
  /\ \E new \in Inactive : Moves(a, new, NoTask)
  /\ \A t \in Task : Keeps(t) \/ ~ Running(t) \/ task[t].addr = a

\* An inactive entry is given to a task that starts to run.
Enters(a, t) ==
  /\ state[a] \notin Active
  /\ \E new \in Active : Moves(a, new, t)
  /\ ~ Running(t) /\ task'[t].addr = a /\ Running(t)'
  /\ \A u \in Task \ {t} : Keeps(u)

\* A Connecting entry becomes Live, with the task it had.
Shakes(a) ==
  /\ state[a] = "connecting"
  /\ Moves(a, "live", tx[a])
  /\ \A t \in Task : Keeps(t)

Effect ==
  \/ Quiet
  \/ \E a \in Addr : Leaves(a) \/ Shakes(a) \/ \E t \in Task : Enters(a, t)

\* A task whose record changes in pc only, from one running state to another, or
\* in its flags only, stays with its entry.
LEMMA KeptTasks ==
  ASSUME UNCHANGED task
  PROVE  \A t \in Task : Keeps(t)
BY Zenon DEF Keeps, Running

LEMMA TaskEnds ==
  ASSUME Shape, NEW t \in Task, task' = [task EXCEPT ![t] = NoTaskRecord]
  PROVE  \A u \in Task : u # t => Keeps(u)
BY Zenon DEF Shape, Keeps, Running

\* Peers arrive.
LEMMA ArrivalEffects ==
  ASSUME Shape, NEW a \in Addr,
         AddPeerIfNotSeen(a) \/ \E t \in Task : AddIncomingPeer(a, t)
  PROVE  Effect
<1>1. CASE AddPeerIfNotSeen(a)
  <2>1. Moves(a, "queued", NoTask) /\ UNCHANGED task
    BY <1>1, Zenon DEF AddPeerIfNotSeen, NewEntry, Moves
  <2> QED
    BY <2>1, KeptTasks, Zenon DEF Effect, Leaves, Inactive
<1>2. ASSUME NEW t \in Task, AddIncomingPeer(a, t)
      PROVE  Effect
  <2>1. state[a] \notin Active /\ Moves(a, "live", t)
    BY <1>2, Zenon DEF AddIncomingPeer, IncomingConnection, SetState, NewEntry, Moves, Active
  <2>2. ~ Running(t)
    BY <1>2, Zenon DEF AddIncomingPeer, FreeTask, Running
  <2>3. task'[t].pc = "connected" /\ task'[t].addr = a
    BY <1>2, Zenon DEF AddIncomingPeer, Shape
  <2>4. \A u \in Task \ {t} : Keeps(u)
    BY <1>2, Zenon DEF AddIncomingPeer, Shape, Keeps, Running
  <2> QED
    BY <2>1, <2>2, <2>3, <2>4, Zenon DEF Effect, Enters, Active, Running
<1> QED
  BY <1>1, <1>2, Zenon

\* The adder, the timers, the pruner and the sweeps.
LEMMA MapEffects ==
  ASSUME Shape, ActiveEntryHasTask, NEW a \in Addr,
         \/ \E d \in Delay : WaitForPeer(a, d)
         \/ PruneDeadPeers(a) \/ ParkOne(a) \/ RequeueOne(a) \/ ReconnectOne(a)
  PROVE  Effect
<1>q. UNCHANGED <<state, tx, stats, task>> => Effect
  BY KeptTasks, Zenon DEF Effect, Quiet
<1>l. ASSUME NEW new \in Inactive, Moves(a, new, NoTask), \A t \in Task : Keeps(t)
      PROVE  Effect
  BY <1>l, Zenon DEF Effect, Leaves
<1>1. ASSUME NEW d \in Delay, WaitForPeer(a, d)
      PROVE  Effect
  <2>1. UNCHANGED task
    BY <1>1, Zenon DEF WaitForPeer
  <2>2. Moves(a, "queued", NoTask) \/ UNCHANGED <<state, tx, stats>>
    BY <1>1, Zenon DEF WaitForPeer, SetState, Moves
  <2> QED
    BY <1>q, <1>l, <2>1, <2>2, KeptTasks, Zenon DEF Inactive
<1>2. CASE PruneDeadPeers(a)
  <2>1. Moves(a, "absent", NoTask)
    BY <1>2, Zenon DEF PruneDeadPeers, RemoveEntry, Moves
  <2>2. \A t \in Task : Keeps(t)
    BY <1>2, ZenonT(30) DEF PruneDeadPeers, Disowned, Shape, TaskRecord, Keeps, Running
  <2> QED
    BY <1>l, <2>1, <2>2, Zenon DEF Inactive
<1>3. CASE ParkOne(a)
  <2>1. CASE state[a] = "live" /\ a \in Seeds
    <3>1. Moves(a, "not_needed", NoTask)
      BY <1>3, <2>1, Zenon DEF ParkOne, SetState, Moves
    <3>2. tx[a] \in Task /\ task' = [task EXCEPT ![tx[a]].bye = TRUE]
      BY <1>3, <2>1, Zenon DEF ParkOne, ActiveEntryHasTask, Active
    <3>3. \A t \in Task : Keeps(t)
      BY <3>2, ZenonT(30) DEF Shape, TaskRecord, Keeps, Running
    <3> QED
      BY <1>l, <3>1, <3>3, Zenon DEF Inactive
  <2>2. CASE ~ (state[a] = "live" /\ a \in Seeds)
    BY <1>3, <1>q, <2>2, Zenon DEF ParkOne
  <2> QED
    BY <2>1, <2>2, Zenon
<1>4. CASE RequeueOne(a)
  <2>1. UNCHANGED task
    BY <1>4, Zenon DEF RequeueOne
  <2>2. Moves(a, "queued", NoTask) \/ UNCHANGED <<state, tx, stats>>
    BY <1>4, ZenonT(30) DEF RequeueOne, SetState, Moves
  <2> QED
    BY <1>q, <1>l, <2>1, <2>2, KeptTasks, Zenon DEF Inactive
<1>5. CASE ReconnectOne(a)
  <2>1. UNCHANGED task
    BY <1>5, Zenon DEF ReconnectOne
  <2>2. Moves(a, "queued", NoTask) \/ UNCHANGED <<state, tx, stats>>
    BY <1>5, Zenon DEF ReconnectOne, SetState, Moves
  <2> QED
    BY <1>q, <1>l, <2>1, <2>2, KeptTasks, Zenon DEF Inactive
<1> QED
  BY <1>1, <1>2, <1>3, <1>4, <1>5, Zenon

LEMMA AdderEffects ==
  ASSUME Shape, AdderReceives \/ \E t \in Task : AdderSpawns(t)
  PROVE  Effect
<1>1. CASE AdderReceives
  <2>1. UNCHANGED task /\ peer_queue # << >>
    BY <1>1, Zenon DEF AdderReceives
  <2>2. Head(peer_queue) \in Addr
    BY <2>1 DEF Shape
  <2>3. Moves(Head(peer_queue), "not_needed", NoTask) \/ UNCHANGED <<state, tx, stats>>
    BY <1>1, Zenon DEF AdderReceives, SetState, Moves
  <2> QED
    BY <2>1, <2>2, <2>3, KeptTasks, ZenonT(30) DEF Effect, Leaves, Quiet, Inactive
<1>2. ASSUME NEW t \in Task, AdderSpawns(t)
      PROVE  Effect
  <2>1. UNCHANGED <<state, tx, stats>> /\ ~ Running(t)
    BY <1>2, Zenon DEF AdderSpawns, FreeTask, Running
  <2>2. \A u \in Task : u # t => Keeps(u)
    BY <1>2, Zenon DEF AdderSpawns, Shape, Keeps, Running
  <2> QED
    BY <2>1, <2>2, Zenon DEF Effect, Quiet
<1> QED
  BY <1>1, <1>2, Zenon

LEMMA TaskEffects ==
  ASSUME Shape, NEW t \in Task, TaskStep(t) \/ DropPeer(t)
  PROVE  Effect
<1> DEFINE a == task[t].addr
<1>a. ~ FreeTask(t) => a \in Addr
  BY Zenon DEF Shape
<1>q. UNCHANGED <<state, tx, stats, task>> => Effect
  BY KeptTasks, Zenon DEF Effect, Quiet
<1>1. CASE MarkPeerConnecting(t)
  <2>1. a \in Addr /\ ~ Running(t)
    BY <1>1, <1>a, Zenon DEF MarkPeerConnecting, FreeTask, Running
  <2>2. CASE state[a] \in {"queued", "not_needed"}
    <3>1. state[a] \notin Active /\ Moves(a, "connecting", t)
      BY <1>1, <2>2, Zenon DEF MarkPeerConnecting, SetState, Moves, Active
    <3>2. task'[t].pc = "connecting" /\ task'[t].addr = a /\ \A u \in Task \ {t} : Keeps(u)
      BY <1>1, <2>2 DEF MarkPeerConnecting, Shape, Keeps, Running
    <3>3. Running(t)'
      BY <3>2, Zenon DEF Running
    <3>4. Enters(a, t)
      BY <2>1, <3>1, <3>2, <3>3, Zenon DEF Enters, Active
    <3> QED
      BY <2>1, <3>4, Zenon DEF Effect
  <2>3. CASE state[a] \notin {"queued", "not_needed"}
    <3>1. UNCHANGED <<state, tx, stats>> /\ \A u \in Task : u # t => Keeps(u)
      BY <1>1, <2>3, TaskEnds, Zenon DEF MarkPeerConnecting
    <3> QED
      BY <2>1, <3>1, Zenon DEF Effect, Quiet
  <2> QED
    BY <2>2, <2>3, Zenon
<1>2. CASE OnConnected(t)
  <2>1. UNCHANGED <<state, tx, stats>> /\ task' = [task EXCEPT ![t].pc = "handshaking"]
    BY <1>2, Zenon DEF OnConnected
  <2>2. \A u \in Task : Keeps(u)
    BY <2>1, ZenonT(30) DEF Shape, TaskRecord, Keeps, Running
  <2> QED
    BY <2>1, <2>2, Zenon DEF Effect, Quiet
<1>3. CASE OnHandshake(t)
  <2>1. task' = [task EXCEPT ![t].pc = "connected"] /\ a \in Addr
    BY <1>3, <1>a, Zenon DEF OnHandshake, FreeTask
  <2>2. \A u \in Task : Keeps(u)
    BY <2>1, Zenon DEF Shape, TaskRecord, Keeps, Running
  <2>3. \/ state[a] = "connecting" /\ Moves(a, "live", tx[a])
        \/ UNCHANGED <<state, tx, stats>>
    BY <1>3, Zenon DEF OnHandshake, SetState, Moves
  <2> QED
    BY <2>1, <2>2, <2>3, Zenon DEF Effect, Quiet, Shakes
<1>4. CASE OnExtendedHandshake(t)
  BY <1>4, <1>q, Zenon DEF OnExtendedHandshake
<1>5. CASE AcquireNextPiece(t)
  BY <1>5, <1>q, Zenon DEF AcquireNextPiece
<1>6. CASE PieceCompleted(t)
  BY <1>6, <1>q, Zenon DEF PieceCompleted
<1>7. ASSUME NEW error \in BOOLEAN, OnPeerDied(t, error)
      PROVE  Effect
  <2>1. a \in Addr
    BY <1>7, <1>a, Zenon DEF OnPeerDied, FreeTask
  <2> DEFINE next == IF ~ error \/ finished THEN "not_needed" ELSE "dead"
  <2>2. \/ /\ state[a] \notin Active
           /\ task' = [task EXCEPT ![t] = NoTaskRecord]
           /\ UNCHANGED <<state, tx, stats>>
        \/ Moves(a, next, NoTask) /\ task' = [task EXCEPT ![t] = NoTaskRecord]
        \/ Moves(a, "queued", NoTask) /\ task' = [task EXCEPT ![t].pc = "dropping"]
    BY <1>7, Zenon DEF OnPeerDied, SetState, Moves, Active
  <2>3. next \in Inactive
    BY Zenon DEF Inactive
  <2> HIDE DEF next
  <2>4. CASE /\ state[a] \notin Active
             /\ task' = [task EXCEPT ![t] = NoTaskRecord]
             /\ UNCHANGED <<state, tx, stats>>
    BY <2>4, TaskEnds, Zenon DEF Effect, Quiet
  <2>5. CASE Moves(a, next, NoTask) /\ task' = [task EXCEPT ![t] = NoTaskRecord]
    BY <2>1, <2>3, <2>5, TaskEnds, Zenon DEF Effect, Leaves
  <2>6. CASE Moves(a, "queued", NoTask) /\ task' = [task EXCEPT ![t].pc = "dropping"]
    <3>1. \A u \in Task : u # t => Keeps(u)
      BY <2>6, Zenon DEF Shape, TaskRecord, Keeps, Running
    <3> QED
      BY <2>1, <2>6, <3>1, Zenon DEF Effect, Leaves, Inactive
  <2> QED
    BY <2>2, <2>4, <2>5, <2>6, Zenon
<1>8. CASE DropPeer(t)
  <2>1. a \in Addr
    BY <1>8, <1>a, Zenon DEF DropPeer, FreeTask
  <2>2. Moves(a, "absent", NoTask) \/ (UNCHANGED <<state, tx, stats>> /\ state[a] = "absent")
    BY <1>8, Zenon DEF DropPeer, RemoveEntry, Moves
  <2>3. \A u \in Task : u # t => Keeps(u)
    BY <1>8, ZenonT(30) DEF DropPeer, Disowned, Shape, TaskRecord, Keeps, Running
  <2>4. CASE Moves(a, "absent", NoTask)
    BY <2>1, <2>3, <2>4, Zenon DEF Effect, Leaves, Inactive
  <2>5. CASE UNCHANGED <<state, tx, stats>> /\ state[a] = "absent"
    BY <2>3, <2>5, Zenon DEF Effect, Quiet, Active
  <2> QED
    BY <2>2, <2>4, <2>5, Zenon
<1> QED
  BY <1>1, <1>2, <1>3, <1>4, <1>5, <1>6, <1>7, <1>8, ZenonT(30) DEF TaskStep

LEMMA NextEffects ==
  ASSUME Shape, ActiveEntryHasTask, Next
  PROVE  Effect
<1>1. CASE PeerHealthMonitor \/ UpdateOnlyFiles(TRUE) \/ UpdateOnlyFiles(FALSE)
  <2>1. UNCHANGED <<state, tx, stats, task>>
    BY <1>1, Zenon DEF PeerHealthMonitor, UpdateOnlyFiles
  <2> QED
    BY <2>1, KeptTasks, Zenon DEF Effect, Quiet
<1> QED
  BY <1>1, ArrivalEffects, MapEffects, AdderEffects, TaskEffects, Zenon DEF Next, CalmNext

-----------------------------------------------------------------------------
(* The types are kept.                                                     *)

LEMMA EffectKeepsEntryTypes ==
  ASSUME Shape, Effect
  PROVE  state' \in [Addr -> PeerState \cup {"absent"}] /\ tx' \in [Addr -> Task \cup {NoTask}]
<1>1. CASE Quiet
  BY <1>1, Zenon DEF Quiet, Shape
<1>2. ASSUME NEW a \in Addr, NEW new \in PeerState \cup {"absent"},
             NEW newTx \in Task \cup {NoTask}, Moves(a, new, newTx)
      PROVE  state' \in [Addr -> PeerState \cup {"absent"}] /\ tx' \in [Addr -> Task \cup {NoTask}]
  BY <1>2, Zenon DEF Moves, Shape
<1>3. ASSUME NEW a \in Addr
      PROVE  tx[a] \in Task \cup {NoTask}
  BY Zenon DEF Shape
<1> QED
  BY <1>1, <1>2, <1>3, Zenon DEF Effect, Leaves, Enters, Shakes, Inactive, Active, PeerState

TasksShaped(tasks) ==
  /\ tasks \in [Task -> TaskRecord]
  /\ \A t \in Task : tasks[t].pc # "none" => tasks[t].addr \in Addr

LEMMA TaskEdits ==
  ASSUME TasksShaped(task), NEW t \in Task
  PROVE  /\ TasksShaped([task EXCEPT ![t] = NoTaskRecord])
         /\ TasksShaped([task EXCEPT ![t].bye = TRUE])
         /\ \A pc \in TaskPc : task[t].pc # "none" => TasksShaped([task EXCEPT ![t].pc = pc])
         /\ \A r \in TaskRecord : r.addr \in Addr => TasksShaped([task EXCEPT ![t] = r])
<1>1. NoTaskRecord \in TaskRecord /\ NoTaskRecord.pc = "none"
  BY Zenon DEF NoTaskRecord, TaskRecord, TaskPc
<1>2. TasksShaped([task EXCEPT ![t] = NoTaskRecord])
  BY <1>1, Zenon DEF TasksShaped
<1>3. TasksShaped([task EXCEPT ![t].bye = TRUE])
  BY ZenonT(30) DEF TasksShaped, TaskRecord
<1>4. ASSUME NEW pc \in TaskPc, task[t].pc # "none"
      PROVE  TasksShaped([task EXCEPT ![t].pc = pc])
  BY <1>4, Zenon DEF TasksShaped, TaskRecord
<1>5. ASSUME NEW r \in TaskRecord, r.addr \in Addr
      PROVE  TasksShaped([task EXCEPT ![t] = r])
  BY <1>5, Zenon DEF TasksShaped
<1> QED
  BY <1>2, <1>3, <1>4, <1>5, Zenon

LEMMA DisownedShaped ==
  ASSUME NEW tasks, TasksShaped(tasks), NEW a
  PROVE  TasksShaped(Disowned(tasks, a))
BY ZenonT(30) DEF TasksShaped, Disowned, TaskRecord

LEMMA SendKeepsQueue ==
  ASSUME Shape, NEW a \in Addr, TrySend(a)
  PROVE  peer_queue' \in Seq(Addr)
BY DEF Shape, TrySend

LEMMA NextKeepsTasksAndQueue ==
  ASSUME Shape, ActiveEntryHasTask, Next
  PROVE  TasksShaped(task)' /\ peer_queue' \in Seq(Addr) /\ adder' \in Addr \cup {NoAddr}
<1> DEFINE Goal == TasksShaped(task)' /\ peer_queue' \in Seq(Addr) /\ adder' \in Addr \cup {NoAddr}
<1>s. TasksShaped(task) /\ peer_queue \in Seq(Addr) /\ adder \in Addr \cup {NoAddr}
  BY Zenon DEF Shape, TasksShaped, FreeTask
<1>u. UNCHANGED task => TasksShaped(task)'
  BY <1>s, Zenon DEF TasksShaped
<1>t. ASSUME NEW r, TasksShaped(r), task' = r
      PROVE  TasksShaped(task)'
  BY <1>t, Zenon DEF TasksShaped
<1>q. UNCHANGED <<task, peer_queue, adder>> => Goal
  BY <1>s, <1>u, Zenon
<1>p. ASSUME TasksShaped(task)', UNCHANGED <<peer_queue, adder>>
      PROVE  Goal
  BY <1>p, <1>s, Zenon
<1>e. ASSUME UNCHANGED <<task, adder>>, peer_queue' \in Seq(Addr)
      PROVE  Goal
  BY <1>e, <1>s, <1>u, Zenon
<1>1. ASSUME NEW a \in Addr, AddPeerIfNotSeen(a)
      PROVE  Goal
  BY <1>1, <1>e, SendKeepsQueue, Zenon DEF AddPeerIfNotSeen
<1>2. ASSUME NEW a \in Addr, NEW t \in Task, AddIncomingPeer(a, t)
      PROVE  Goal
  <2> DEFINE r == [pc |-> "connected", addr |-> a, incoming |-> TRUE, bye |-> FALSE, own |-> TRUE]
  <2>1. r \in TaskRecord /\ r.addr \in Addr
    BY Zenon DEF TaskRecord, TaskPc
  <2>2. task' = [task EXCEPT ![t] = r] /\ UNCHANGED <<peer_queue, adder>>
    BY <1>2, Zenon DEF AddIncomingPeer
  <2> HIDE DEF r
  <2> QED
    BY <1>p, <1>t, <1>s, <2>1, <2>2, TaskEdits, ZenonT(30)
<1>3. ASSUME NEW a \in Addr, NEW d \in Delay, WaitForPeer(a, d)
      PROVE  Goal
  <2>1. UNCHANGED <<task, adder>> /\ (TrySend(a) \/ UNCHANGED peer_queue)
    BY <1>3, Zenon DEF WaitForPeer
  <2> QED
    BY <1>e, <1>s, <2>1, SendKeepsQueue, Zenon
<1>4. ASSUME NEW a \in Addr, PruneDeadPeers(a)
      PROVE  Goal
  BY <1>4, <1>p, <1>t, <1>s, DisownedShaped, Zenon DEF PruneDeadPeers
<1>5. ASSUME NEW a \in Addr, ParkOne(a)
      PROVE  Goal
  <2>1. CASE state[a] = "live" /\ a \in Seeds
    BY <1>5, <2>1, <1>p, <1>t, <1>s, TaskEdits, ZenonT(30) DEF ParkOne, ActiveEntryHasTask, Active
  <2>2. CASE ~ (state[a] = "live" /\ a \in Seeds)
    BY <1>5, <2>2, <1>q, Zenon DEF ParkOne
  <2> QED
    BY <2>1, <2>2, Zenon
<1>6. ASSUME NEW a \in Addr, RequeueOne(a)
      PROVE  Goal
  <2>1. UNCHANGED <<task, adder>> /\ (TrySend(a) \/ UNCHANGED peer_queue)
    BY <1>6, Zenon DEF RequeueOne
  <2> QED
    BY <1>e, <1>s, <2>1, SendKeepsQueue, Zenon
<1>7. ASSUME NEW a \in Addr, ReconnectOne(a)
      PROVE  Goal
  <2>1. /\ UNCHANGED <<task, adder>>
        /\ \/ outgoing_address[a] # NoAddr /\ TrySend(outgoing_address[a])
           \/ UNCHANGED peer_queue
    BY <1>7, Zenon DEF ReconnectOne
  <2>2. outgoing_address[a] # NoAddr => outgoing_address[a] \in Addr
    BY Zenon DEF Shape
  <2> QED
    BY <1>e, <1>s, <2>1, <2>2, SendKeepsQueue, Zenon
<1>8. ASSUME NEW t \in Task, AdderSpawns(t)
      PROVE  Goal
  <2> DEFINE r == [pc |-> "spawned", addr |-> adder, incoming |-> FALSE, bye |-> FALSE, own |-> FALSE]
  <2>1. r \in TaskRecord /\ r.addr \in Addr
    BY <1>8, <1>s, Zenon DEF TaskRecord, TaskPc, AdderSpawns
  <2>2. task' = [task EXCEPT ![t] = r] /\ UNCHANGED peer_queue /\ adder' = NoAddr
    BY <1>8, Zenon DEF AdderSpawns
  <2> HIDE DEF r
  <2> QED
    BY <1>t, <1>s, <2>1, <2>2, TaskEdits, Zenon
<1>9. CASE AdderReceives
  <2>1. peer_queue # << >> /\ peer_queue' = Tail(peer_queue) /\ UNCHANGED task
    BY <1>9, Zenon DEF AdderReceives
  <2>2. Head(peer_queue) \in Addr /\ Tail(peer_queue) \in Seq(Addr)
    BY <1>s, <2>1
  <2>3. adder' \in {adder, Head(peer_queue)}
    BY <1>9, Zenon DEF AdderReceives
  <2> QED
    BY <1>s, <1>u, <2>1, <2>2, <2>3, ZenonT(30)
<1>10. CASE PeerHealthMonitor \/ UpdateOnlyFiles(TRUE) \/ UpdateOnlyFiles(FALSE)
  BY <1>10, <1>q, Zenon DEF PeerHealthMonitor, UpdateOnlyFiles
<1>11. ASSUME NEW t \in Task, DropPeer(t)
      PROVE  Goal
  BY <1>11, <1>p, <1>t, <1>s, TaskEdits, DisownedShaped, ZenonT(30) DEF DropPeer
<1>12. ASSUME NEW t \in Task, TaskStep(t)
      PROVE  Goal
  <2>1. UNCHANGED <<peer_queue, adder>>
    BY <1>12, Zenon DEF TaskStep, MarkPeerConnecting, OnConnected, OnHandshake, OnExtendedHandshake,
                 AcquireNextPiece, PieceCompleted, OnPeerDied
  <2>2. CASE MarkPeerConnecting(t)
    <3> DEFINE r == [pc |-> "connecting", addr |-> task[t].addr, incoming |-> FALSE,
                     bye |-> FALSE, own |-> TRUE]
    <3>1. task[t].addr \in Addr
      BY <2>2, <1>s, Zenon DEF MarkPeerConnecting, TasksShaped
    <3>2. r \in TaskRecord /\ r.addr \in Addr
      BY <3>1, Zenon DEF TaskRecord, TaskPc
    <3>3. \/ task' = [task EXCEPT ![t] = r]
          \/ task' = [task EXCEPT ![t] = NoTaskRecord]
      BY <2>2, Zenon DEF MarkPeerConnecting
    <3> HIDE DEF r
    <3> QED
      BY <1>p, <1>t, <1>s, <2>1, <3>2, <3>3, TaskEdits, Zenon
  <2>3. CASE \/ OnExtendedHandshake(t) \/ AcquireNextPiece(t) \/ PieceCompleted(t)
    BY <2>1, <2>3, <1>p, <1>u, Zenon DEF OnExtendedHandshake, AcquireNextPiece, PieceCompleted
  <2>4. CASE \/ OnConnected(t) \/ OnHandshake(t) \/ \E error \in BOOLEAN : OnPeerDied(t, error)
    <3>1. \/ task' = [task EXCEPT ![t] = NoTaskRecord]
          \/ \E pc \in TaskPc : task' = [task EXCEPT ![t].pc = pc] /\ task[t].pc # "none"
      BY <2>4, Zenon DEF OnConnected, OnHandshake, OnPeerDied, TaskPc
    <3> QED
      BY <1>p, <1>t, <1>s, <2>1, <3>1, TaskEdits, ZenonT(30)
  <2> QED
    BY <1>12, <2>2, <2>3, <2>4, Zenon DEF TaskStep
<1> QED
  BY <1>1, <1>2, <1>3, <1>4, <1>5, <1>6, <1>7, <1>8, <1>9, <1>10, <1>11, <1>12
    , Zenon DEF Next, CalmNext

LEMMA NextKeepsOutgoing ==
  ASSUME Shape, Next
  PROVE  outgoing_address' \in [Addr -> Addr \cup {NoAddr}]
<1>1. ASSUME NEW a \in Addr, AddPeerIfNotSeen(a) \/ \E t \in Task : AddIncomingPeer(a, t)
      PROVE  \/ UNCHANGED outgoing_address
             \/ \E out \in Addr \cup {NoAddr} :
                  outgoing_address' = [outgoing_address EXCEPT ![a] = out]
  BY <1>1, Zenon DEF AddPeerIfNotSeen, AddIncomingPeer, IncomingConnection, NewEntry, entryVars
<1>2. ASSUME NEW t \in Task, OnExtendedHandshake(t)
      PROVE  \E a \in Addr : outgoing_address' = [outgoing_address EXCEPT ![a] = Announces[a]]
  BY <1>2, Zenon DEF OnExtendedHandshake, Shape, FreeTask
<1>3. ASSUME NEW a \in Addr,
             \/ \E d \in Delay : WaitForPeer(a, d)
             \/ PruneDeadPeers(a) \/ ParkOne(a) \/ RequeueOne(a) \/ ReconnectOne(a)
      PROVE  UNCHANGED outgoing_address
  BY <1>3, Zenon
     DEF WaitForPeer, PruneDeadPeers, RemoveEntry, ParkOne, RequeueOne, ReconnectOne, entryVars
<1>4. ASSUME NEW t \in Task,
             \/ AdderSpawns(t) \/ MarkPeerConnecting(t) \/ OnConnected(t) \/ OnHandshake(t)
             \/ AcquireNextPiece(t) \/ PieceCompleted(t) \/ DropPeer(t)
             \/ \E error \in BOOLEAN : OnPeerDied(t, error)
      PROVE  UNCHANGED outgoing_address
  BY <1>4, Zenon DEF AdderSpawns, MarkPeerConnecting, OnConnected, OnHandshake, AcquireNextPiece,
              PieceCompleted, DropPeer, RemoveEntry, OnPeerDied, entryVars
<1>5. ASSUME AdderReceives \/ PeerHealthMonitor \/ UpdateOnlyFiles(TRUE) \/ UpdateOnlyFiles(FALSE)
      PROVE  UNCHANGED outgoing_address
  BY <1>5, Zenon DEF AdderReceives, PeerHealthMonitor, UpdateOnlyFiles, entryVars
<1>6. \/ UNCHANGED outgoing_address
      \/ \E a \in Addr, out \in Addr \cup {NoAddr} :
            outgoing_address' = [outgoing_address EXCEPT ![a] = out]
  <2>1. \A a \in Addr : Announces[a] \in Addr
    BY PeerAssumptions, Zenon
  <2> QED
    BY <1>1, <1>2, <1>3, <1>4, <1>5, <2>1, ZenonT(30) DEF Next, CalmNext, TaskStep
<1> QED
  BY <1>6, Zenon DEF Shape

-----------------------------------------------------------------------------
(* What holds whatever happens.                                            *)

\* A move of one entry moves one unit between the counters.
LEMMA MoveKeepsCounters ==
  ASSUME Shape, CountersMatch, NEW a \in Addr, NEW new \in PeerState \cup {"absent"},
         NEW newTx, Moves(a, new, newTx)
  PROVE  CountersMatch'
<1> SUFFICES ASSUME NEW s \in PeerState
             PROVE  stats'[s] = Cardinality({b \in Addr : state'[b] = s})
  BY Zenon DEF CountersMatch
<1> DEFINE Old == {b \in Addr : state[b] = s}
           New == {b \in Addr : state'[b] = s}
<1>1. IsFiniteSet(Old) /\ stats[s] = Cardinality(Old)
  BY PeerAssumptions, FS_Subset, Zenon DEF CountersMatch
<1>2. Cardinality(Old) \in Nat
  BY <1>1, FS_CardinalityType, Zenon
<1>3. stats'[s] = (stats[s] + (IF s = new THEN 1 ELSE 0)) - (IF s = state[a] THEN 1 ELSE 0)
  BY Zenon DEF Moves, IncDec
<1>4. \A b \in Addr : state'[b] = IF b = a THEN new ELSE state[b]
  BY Zenon DEF Moves, Shape
<1>5. CASE s = new /\ s # state[a]
  <2>1. New = Old \cup {a} /\ a \notin Old
    BY <1>4, <1>5, Zenon
  <2>2. Cardinality(Old \cup {a}) = Cardinality(Old) + 1
    BY <1>1, <2>1, FS_AddElement, Zenon
  <2>3. stats'[s] = Cardinality(Old) + 1
    BY <1>1, <1>2, <1>3, <1>5
  <2> QED
    BY <2>1, <2>2, <2>3, Zenon
<1>6. CASE s # new /\ s = state[a]
  <2>1. New = Old \ {a} /\ a \in Old
    BY <1>4, <1>6
  <2>2. Cardinality(Old \ {a}) = Cardinality(Old) - 1
    BY <1>1, <2>1, FS_RemoveElement, Zenon
  <2>3. stats'[s] = Cardinality(Old) - 1
    BY <1>1, <1>2, <1>3, <1>6
  <2> QED
    BY <2>1, <2>2, <2>3, Zenon
<1>7. CASE (s = new) = (s = state[a])
  <2>1. New = Old
    BY <1>4, <1>7, Zenon
  <2>2. stats'[s] = stats[s]
    BY <1>1, <1>2, <1>3, <1>7
  <2> QED
    BY <1>1, <2>1, <2>2, Zenon
<1> QED
  BY <1>5, <1>6, <1>7, Zenon

LEMMA EffectKeepsCounters ==
  ASSUME Shape, CountersMatch, Effect
  PROVE  CountersMatch'
<1>1. CASE Quiet
  BY <1>1, Zenon DEF Quiet, CountersMatch
<1>2. CASE ~ Quiet
  <2>1. PICK a \in Addr, new \in PeerState \cup {"absent"}, newTx \in Task \cup {NoTask} :
          Moves(a, new, newTx)
    BY <1>2, Zenon DEF Effect, Leaves, Enters, Shakes, Inactive, Active, PeerState, Shape
  <2> QED
    BY <2>1, MoveKeepsCounters, Zenon
<1> QED
  BY <1>1, <1>2, Zenon

LEMMA EffectKeepsTasks ==
  ASSUME Shape, ActiveEntryHasTask, Effect
  PROVE  ActiveEntryHasTask'
<1> SUFFICES ASSUME NEW b \in Addr, state'[b] \in Active
             PROVE  tx'[b] \in Task /\ task'[tx'[b]].addr = b /\ Running(tx[b])'
  BY Zenon DEF ActiveEntryHasTask
<1>a. state[b] \in Active => tx[b] \in Task /\ task[tx[b]].addr = b /\ Running(tx[b])
  BY Zenon DEF ActiveEntryHasTask
<1>k. ASSUME state[b] \in Active, tx'[b] = tx[b], Keeps(tx[b])
      PROVE  tx'[b] \in Task /\ task'[tx'[b]].addr = b /\ Running(tx[b])'
  BY <1>a, <1>k, Zenon DEF Keeps, Running
<1>1. CASE Quiet
  <2>1. state[b] \in Active /\ tx'[b] = tx[b]
    BY <1>1, Zenon DEF Quiet
  <2>2. Keeps(tx[b])
    BY <1>1, <1>a, <2>1, ZenonT(30) DEF Quiet
  <2> QED
    BY <1>k, <2>1, <2>2, ZenonT(30)
<1>2. ASSUME NEW a \in Addr, Leaves(a)
      PROVE  tx'[b] \in Task /\ task'[tx'[b]].addr = b /\ Running(tx[b])'
  <2>1. b # a /\ state[b] \in Active /\ tx'[b] = tx[b]
    BY <1>2, Zenon DEF Leaves, Moves, Shape, Inactive, Active
  <2>2. Keeps(tx[b])
    BY <1>2, <1>a, <2>1, Zenon DEF Leaves
  <2> QED
    BY <1>k, <2>1, <2>2, Zenon
<1>3. ASSUME NEW a \in Addr, Shakes(a)
      PROVE  tx'[b] \in Task /\ task'[tx'[b]].addr = b /\ Running(tx[b])'
  <2>1. state[b] \in Active /\ tx'[b] = tx[b]
    BY <1>3, Zenon DEF Shakes, Moves, Shape, Active
  <2>2. Keeps(tx[b])
    BY <1>3, <1>a, <2>1, Zenon DEF Shakes
  <2> QED
    BY <1>k, <2>1, <2>2, Zenon
<1>4. ASSUME NEW a \in Addr, NEW t \in Task, Enters(a, t)
      PROVE  tx'[b] \in Task /\ task'[tx'[b]].addr = b /\ Running(tx[b])'
  <2>1. CASE b = a
    <3>1. tx'[b] = t
      BY <1>4, <2>1, Zenon DEF Enters, Moves, Shape
    <3>2. task'[t].addr = b /\ task'[t].pc \notin {"none", "spawned"}
      BY <1>4, <2>1, Zenon DEF Enters, Running
    <3> QED
      BY <3>1, <3>2, Zenon DEF Running
  <2>2. CASE b # a
    <3>1. state[b] \in Active /\ tx'[b] = tx[b]
      BY <1>4, <2>2, Zenon DEF Enters, Moves, Shape
    <3>2. tx[b] # t
      BY <1>4, <1>a, <3>1, Zenon DEF Enters
    <3>3. Keeps(tx[b])
      BY <1>4, <1>a, <3>1, <3>2, Zenon DEF Enters
    <3> QED
      BY <1>k, <3>1, <3>3, Zenon
  <2> QED
    BY <2>1, <2>2, Zenon
<1> QED
  BY <1>1, <1>2, <1>3, <1>4, Zenon DEF Effect

LEMMA EffectKeepsOwners ==
  ASSUME Shape, Effect, NEW b \in Addr, state[b] \in Active, state'[b] \in Active
  PROVE  tx'[b] = tx[b]
<1>1. CASE Quiet
  BY <1>1, Zenon DEF Quiet
<1>2. ASSUME NEW a \in Addr, Leaves(a)
      PROVE  tx'[b] = tx[b]
  BY <1>2, Zenon DEF Leaves, Moves, Shape, Inactive, Active
<1>3. ASSUME NEW a \in Addr, Shakes(a)
      PROVE  tx'[b] = tx[b]
  BY <1>3, Zenon DEF Shakes, Moves, Shape
<1>4. ASSUME NEW a \in Addr, NEW t \in Task, Enters(a, t)
      PROVE  tx'[b] = tx[b]
  BY <1>4, Zenon DEF Enters, Moves, Shape
<1> QED
  BY <1>1, <1>2, <1>3, <1>4, Zenon DEF Effect

PeersInv == Shape /\ CountersMatch /\ ActiveEntryHasTask

LEMMA PeersInvInit ==
  ASSUME Init
  PROVE  PeersInv
<1>1. Shape
  BY DEF Init, Shape, TaskRecord, NoTaskRecord, TaskPc, FreeTask
<1>2. CountersMatch
  <2> SUFFICES ASSUME NEW s \in PeerState
               PROVE  stats[s] = Cardinality({a \in Addr : state[a] = s})
    BY Zenon DEF CountersMatch
  <2>1. {a \in Addr : state[a] = s} = {} /\ stats[s] = 0
    BY Zenon DEF Init, PeerState
  <2> QED
    BY <2>1, FS_EmptySet, Zenon
<1>3. ActiveEntryHasTask
  BY Zenon DEF Init, ActiveEntryHasTask, Active
<1> QED
  BY <1>1, <1>2, <1>3, Zenon DEF PeersInv

LEMMA PeersInvStep ==
  ASSUME PeersInv, [Next]_vars
  PROVE  PeersInv'
<1>1. CASE Next
  <2>1. Effect
    BY <1>1, NextEffects, Zenon DEF PeersInv
  <2>2. Shape'
    BY <1>1, <2>1, EffectKeepsEntryTypes, NextKeepsTasksAndQueue, NextKeepsOutgoing
      , ZenonT(30) DEF PeersInv, Shape, TasksShaped, FreeTask
  <2> QED
    BY <2>1, <2>2, EffectKeepsCounters, EffectKeepsTasks, Zenon DEF PeersInv
<1>2. CASE UNCHANGED vars
  BY <1>2 DEF PeersInv, Shape, CountersMatch, ActiveEntryHasTask, Running, FreeTask, vars
<1> QED
  BY <1>1, <1>2, Zenon

LEMMA PeersInvariant == Spec => []PeersInv
BY PeersInvInit, PeersInvStep, PTL DEF Spec

\* The counters PeerStates reports are the numbers of its entries, whatever
\* sweeps, deaths, prunings and reselections race with each other.
THEOREM CountersStayExact == Spec => []CountersMatch
<1>1. PeersInv => CountersMatch
  BY Zenon DEF PeersInv
<1> QED
  BY <1>1, PeersInvariant, PTL

\* A Connecting or Live entry always has its own task running: no interleaving of
\* on_peer_died, drop_peer and incoming connections leaves an entry that refuses
\* every new connection.
THEOREM ActiveEntriesHaveTasks == Spec => []ActiveEntryHasTask
<1>1. PeersInv => ActiveEntryHasTask
  BY Zenon DEF PeersInv
<1> QED
  BY <1>1, PeersInvariant, PTL

\* Entries, tasks and counters agree, whatever is connected, lost, parked, pruned,
\* requeued and reselected, and however full the queue is.
THEOREM PeersStayCounted == Spec => []PeersAreCounted
<1>1. PeersInv => PeersAreCounted
  BY Zenon DEF PeersInv, PeersAreCounted
<1> QED
  BY <1>1, PeersInvariant, PTL

\* No step hands an active entry from one connection to another.
THEOREM ActiveEntriesAreKept == Spec => ActiveEntryKept
<1>1. ASSUME PeersInv, [Next]_vars
      PROVE  [\A a \in Addr : state[a] \in Active /\ state'[a] \in Active => tx'[a] = tx[a]]_vars
  <2>1. CASE Next
    BY <1>1, <2>1, NextEffects, EffectKeepsOwners, Zenon DEF PeersInv
  <2>2. CASE UNCHANGED vars
    BY <2>2, Zenon
  <2> QED
    BY <1>1, <2>1, <2>2, Zenon
<1> QED
  BY <1>1, PeersInvariant, PTL DEF Spec, ActiveEntryKept

-----------------------------------------------------------------------------
(* What holds as long as the selection does not grow again.                *)

\* The conditions PeersConsistent is stated for: the queue is never full, no filtered
\* address is queued, the torrent uploads, peers connect from where they listen, and
\* full peers wait to be connected to.
CalmWorld ==
  /\ MaxEvents <= QueueCap
  /\ Blocked = {}
  /\ ~ DisableUpload
  /\ Announces = SameAddress
  /\ Seeds \cap MayConnectToUs = {}

\* Full peers are parked only when the torrent is finished.
ParksWhenFinished ==
  /\ owns \subseteq Addr /\ finished \in BOOLEAN
  /\ sweep \in [{"park", "reconnect", "requeue"} -> SUBSET Addr]
  /\ sweep["park"] # {} => finished

LEMMA CalmIsNext ==
  ASSUME CalmNext
  PROVE  Next
BY Zenon DEF Next

\* The steps after which a Live peer may be Live no longer.
LEMMA LiveStaysLive ==
  ASSUME Shape, CalmNext, NEW b \in Addr, state[b] = "live", state'[b] # "live"
  PROVE  \/ ParkOne(b)
         \/ AdderReceives /\ finished /\ DisableUpload
         \/ \E t \in Task, error \in BOOLEAN : OnPeerDied(t, error) /\ task[t].addr = b
<1>1. ASSUME NEW a \in Addr,
             AddPeerIfNotSeen(a) \/ PruneDeadPeers(a) \/ \E t \in Task : AddIncomingPeer(a, t)
      PROVE  FALSE
  BY <1>1, Zenon DEF AddPeerIfNotSeen, PruneDeadPeers, AddIncomingPeer, IncomingConnection, SetState,
              NewEntry, RemoveEntry, Shape
<1>2. ASSUME NEW a \in Addr, RequeueOne(a) \/ \E d \in Delay : WaitForPeer(a, d)
      PROVE  FALSE
  BY <1>2, Zenon DEF RequeueOne, WaitForPeer, SetState, Shape
<1>3. ASSUME NEW t \in Task,
             \/ AdderSpawns(t) \/ MarkPeerConnecting(t) \/ OnConnected(t) \/ OnHandshake(t)
             \/ OnExtendedHandshake(t) \/ AcquireNextPiece(t) \/ PieceCompleted(t)
      PROVE  FALSE
  BY <1>3, Zenon DEF AdderSpawns, MarkPeerConnecting, OnConnected, OnHandshake, OnExtendedHandshake,
              AcquireNextPiece, PieceCompleted, SetState, Shape
<1>4. CASE UpdateOnlyFiles(TRUE) \/ PeerHealthMonitor
  BY <1>4, Zenon DEF UpdateOnlyFiles, PeerHealthMonitor
<1>5. ASSUME NEW a \in Addr, ParkOne(a)
      PROVE  a = b
  BY <1>5, Zenon DEF ParkOne, SetState, Shape
<1>6. AdderReceives => finished /\ DisableUpload
  BY Zenon DEF AdderReceives
<1>7. ASSUME NEW t \in Task, NEW error \in BOOLEAN, OnPeerDied(t, error)
      PROVE  task[t].addr = b
  BY <1>7, Zenon DEF OnPeerDied, SetState, Shape
<1> QED
  BY <1>1, <1>2, <1>3, <1>4, <1>5, <1>6, <1>7, ZenonT(30) DEF CalmNext, TaskStep

\* What a step does to the pieces in flight, to the flag and to the parking sweep.
OwnersGoal ==
  /\ owns' \subseteq Addr
  /\ \A b \in owns' : b \in owns \/ state'[b] = "live"
  /\ finished' \in BOOLEAN /\ (finished => finished')
  /\ sweep' \in [{"park", "reconnect", "requeue"} -> SUBSET Addr]
  /\ sweep'["park"] \subseteq sweep["park"] \/ finished'

LEMMA OwnersFrame ==
  ASSUME Shape, ParksWhenFinished, CalmNext
  PROVE  OwnersGoal
<1>p. /\ owns \subseteq Addr /\ finished \in BOOLEAN
      /\ sweep \in [{"park", "reconnect", "requeue"} -> SUBSET Addr]
  BY Zenon DEF ParksWhenFinished
<1>f. finished' = finished \/ finished' = TRUE => finished' \in BOOLEAN /\ (finished => finished')
  <2>1. CASE finished = TRUE
    BY <2>1, Zenon
  <2>2. CASE finished = FALSE
    BY <2>2, Zenon
  <2> QED
    BY <1>p, <2>1, <2>2, Zenon
<1>q. UNCHANGED <<owns, finished, sweep>> => OwnersGoal
  BY <1>p, <1>f, Zenon DEF OwnersGoal
<1>o. ASSUME NEW t \in Task, ~ FreeTask(t)
      PROVE  task[t].addr \in Addr
  BY <1>o, Zenon DEF Shape
<1>1. ASSUME NEW a \in Addr,
             \/ AddPeerIfNotSeen(a) \/ PruneDeadPeers(a) \/ \E t \in Task : AddIncomingPeer(a, t)
             \/ \E d \in Delay : WaitForPeer(a, d)
      PROVE  OwnersGoal
  BY <1>1, <1>q, Zenon DEF AddPeerIfNotSeen, PruneDeadPeers, AddIncomingPeer, WaitForPeer
<1>2. ASSUME NEW a \in Addr, ParkOne(a) \/ RequeueOne(a)
      PROVE  OwnersGoal
  <2>1. UNCHANGED <<owns, finished>>
    BY <1>2, Zenon DEF ParkOne, RequeueOne
  <2>2. \/ sweep' = [sweep EXCEPT !["park"] = @ \ {a}]
        \/ sweep' = [sweep EXCEPT !["requeue"] = {}]
        \/ sweep' = [sweep EXCEPT !["requeue"] = @ \ {a}]
    BY <1>2, Zenon DEF ParkOne, RequeueOne
  <2> QED
    BY <1>p, <2>1, <2>2, Zenon DEF OwnersGoal
<1>3. ASSUME NEW t \in Task,
             \/ AdderSpawns(t) \/ MarkPeerConnecting(t) \/ OnConnected(t) \/ OnHandshake(t)
             \/ OnExtendedHandshake(t)
      PROVE  OwnersGoal
  BY <1>3, <1>q, Zenon
     DEF AdderSpawns, MarkPeerConnecting, OnConnected, OnHandshake, OnExtendedHandshake
<1>4. ASSUME NEW t \in Task, AcquireNextPiece(t)
      PROVE  OwnersGoal
  <2>1. /\ task[t].addr \in Addr /\ UNCHANGED <<finished, sweep, state>>
        /\ state[task[t].addr] = "live"
    BY <1>4, <1>o, Zenon DEF AcquireNextPiece, FreeTask
  <2>2. owns' \subseteq owns \cup {task[t].addr}
    BY <1>4, Zenon DEF AcquireNextPiece
  <2> QED
    BY <1>p, <2>1, <2>2, Zenon DEF OwnersGoal
<1>5. ASSUME NEW t \in Task, PieceCompleted(t)
      PROVE  OwnersGoal
  <2>0. PICK done \in BOOLEAN :
          /\ finished => done
          /\ finished' = done
          /\ sweep' = IF done THEN [sweep EXCEPT !["park"] = Addr] ELSE sweep
    BY <1>5, Zenon DEF PieceCompleted
  <2>1. /\ finished' \in BOOLEAN /\ (finished => finished')
        /\ sweep' = sweep \/ (sweep' = [sweep EXCEPT !["park"] = Addr] /\ finished')
    BY <2>0
  <2>2. owns' \subseteq owns
    BY <1>5, Zenon DEF PieceCompleted
  <2> QED
    BY <1>p, <2>1, <2>2, Zenon DEF OwnersGoal
<1>6. ASSUME NEW t \in Task, NEW error \in BOOLEAN, OnPeerDied(t, error)
      PROVE  OwnersGoal
  <2>1. owns' \subseteq owns /\ UNCHANGED <<finished, sweep>>
    BY <1>6, Zenon DEF OnPeerDied, ReleasePieces
  <2> QED
    BY <1>p, <2>1, Zenon DEF OwnersGoal
<1>7. CASE AdderReceives
  BY <1>7, <1>q, Zenon DEF AdderReceives
<1>8. CASE UpdateOnlyFiles(TRUE) \/ PeerHealthMonitor
  <2>1. /\ UNCHANGED owns
        /\ finished' = finished \/ finished' = TRUE
        /\ sweep' = sweep \/ sweep' = [sweep EXCEPT !["requeue"] = Addr]
    BY <1>8, Zenon DEF UpdateOnlyFiles, PeerHealthMonitor
  <2> QED
    BY <1>p, <1>f, <2>1, Zenon DEF OwnersGoal
<1> QED
  BY <1>1, <1>2, <1>3, <1>4, <1>5, <1>6, <1>7, <1>8, ZenonT(30) DEF CalmNext, TaskStep

LEMMA OwnersStep ==
  ASSUME Shape, ParksWhenFinished, OwnerIsLivePeer, CalmNext
  PROVE  ParksWhenFinished' /\ OwnerIsLivePeer'
<1>g. OwnersGoal
  BY OwnersFrame, Zenon
<1>1. ParksWhenFinished'
  <2>1. ASSUME sweep'["park"] # {}
        PROVE  finished'
    BY <1>g, <2>1, Zenon DEF OwnersGoal, ParksWhenFinished
  <2> QED
    BY <1>g, <2>1, Zenon DEF OwnersGoal, ParksWhenFinished
<1>2. ASSUME NEW b \in owns', state'[b] # "live", ~ (finished' /\ (b \in Seeds \/ DisableUpload))
      PROVE  FALSE
  <2>1. b \in Addr /\ b \in owns /\ (finished => finished')
    BY <1>g, <1>2, Zenon DEF OwnersGoal
  <2>2. state[b] = "live" /\ ~ (finished /\ (b \in Seeds \/ DisableUpload))
    BY <1>2, <2>1, Zenon DEF OwnerIsLivePeer
  <2>3. CASE ParkOne(b)
    <3>1. finished
      BY <2>3, Zenon DEF ParkOne, ParksWhenFinished
    <3>2. b \in Seeds
      BY <1>2, <2>2, <2>3, Zenon DEF ParkOne
    <3> QED
      BY <2>2, <3>1, <3>2, Zenon
  <2>4. ASSUME NEW t \in Task, NEW error \in BOOLEAN, OnPeerDied(t, error), task[t].addr = b
        PROVE  FALSE
    BY <1>2, <2>2, <2>4, ZenonT(30) DEF OnPeerDied, ReleasePieces, Active
  <2> QED
    BY <1>2, <2>1, <2>2, <2>3, <2>4, LiveStaysLive, Zenon
<1> QED
  BY <1>1, <1>2, Zenon DEF OwnerIsLivePeer

\* As long as files are only deselected, a piece in flight belongs to a Live peer over
\* reservations, steals, deaths and parking: release_pieces_owned_by leaves no piece that
\* nobody downloads.  Once the torrent is finished, a piece deselected in flight may stay
\* with a full peer that on_piece_completed disconnected.  No assumption on the queue, the
\* filters or the peers.
THEOREM OwnersStayLive == CalmSpec => []OwnerIsLivePeer
<1> DEFINE I == PeersInv /\ ParksWhenFinished /\ OwnerIsLivePeer
<1>1. Init => I
  <2>1. Init => ParksWhenFinished /\ OwnerIsLivePeer
    BY Zenon DEF Init, ParksWhenFinished, OwnerIsLivePeer
  <2> QED
    BY <2>1, PeersInvInit, Zenon
<1>2. ASSUME I, [CalmNext]_vars
      PROVE  I'
  <2>1. PeersInv'
    BY <1>2, CalmIsNext, PeersInvStep, Zenon
  <2>2. CASE CalmNext
    BY <1>2, <2>1, <2>2, OwnersStep, Zenon DEF PeersInv
  <2>3. CASE UNCHANGED vars
    BY <1>2, <2>1, <2>3, Zenon DEF ParksWhenFinished, OwnerIsLivePeer, vars
  <2> QED
    BY <1>2, <2>2, <2>3, Zenon
<1> HIDE DEF I
<1>3. CalmSpec => []I
  BY <1>1, <1>2, PTL DEF CalmSpec
<1>4. I => OwnerIsLivePeer
  BY Zenon DEF I
<1> QED
  BY <1>3, <1>4, PTL

Queued(a) == \E i \in 1..Len(peer_queue) : peer_queue[i] = a
Spawned(t, a) == task[t].pc = "spawned" /\ task[t].addr = a

\* A task that has not shaken hands is the one its Connecting entry talks to, one
\* that has is the one its Live entry talks to, and one told to disconnect is
\* connected to a full peer that stays parked.
TaskOk(t) ==
  LET a == task[t].addr IN
  /\ task[t].pc # "dropping"
  /\ task[t].pc \in {"connecting", "handshaking"} =>
       state[a] = "connecting" /\ tx[a] = t /\ ~ task[t].bye
  /\ task[t].pc = "connected" /\ ~ task[t].bye => state[a] = "live" /\ tx[a] = t
  /\ task[t].bye => task[t].pc = "connected" /\ a \in Seeds /\ state[a] = "not_needed"

\* An active entry talks to a task that is as far as the entry says.
EntryOk(a) ==
  /\ state[a] = "live" => task[tx[a]].pc = "connected" /\ ~ task[tx[a]].bye
  /\ state[a] = "connecting" => task[tx[a]].pc \in {"connecting", "handshaking"}

TasksAgree == (\A t \in Task : TaskOk(t)) /\ (\A a \in Addr : EntryOk(a))

\* Nobody but us connects to such a peer: it is queued once, and Queued until a
\* task takes it.
QueuedOnce(a) ==
  \A i, j \in 1..Len(peer_queue) : peer_queue[i] = a /\ peer_queue[j] = a => i = j
WaitsOnce(a) ==
  /\ Queued(a) => adder # a
  /\ \A t \in Task : Spawned(t, a) => ~ Queued(a) /\ adder # a
  /\ \A t, u \in Task : Spawned(t, a) /\ Spawned(u, a) => t = u
  /\ Queued(a) \/ adder = a \/ (\E t \in Task : Spawned(t, a)) => state[a] = "queued"
PendingOnce(a) == QueuedOnce(a) /\ WaitsOnce(a)

\* The listen address of a Live outgoing peer is its own.
OutgoingIsOwn ==
  /\ \A a \in Addr : outgoing_address[a] \in {a, NoAddr}
  /\ \A x \in live_outgoing_peers : x \in Addr /\ state[x] = "live" /\ outgoing_address[x] = x

\* Every queued address and every dead peer took a disturbance of its own.
QueueFits == events \in Nat /\ events <= MaxEvents /\ Len(peer_queue) + stats["dead"] <= events

CalmInv ==
  /\ PeersInv /\ ParksWhenFinished /\ OwnerIsLivePeer
  /\ OutgoingIsOwn /\ QueueFits /\ QueuedIsPending
  /\ TasksAgree
  /\ \A a \in Addr \ MayConnectToUs : PendingOnce(a)
-----------------------------------------------------------------------------
(* The listen addresses PEX tells of.                                      *)

LEMMA SetStateKeepsOutgoing ==
  ASSUME Shape, OutgoingIsOwn, NEW a \in Addr, NEW new, NEW newTx,
         SetState(a, new, newTx), UNCHANGED outgoing_address
  PROVE  OutgoingIsOwn'
<1>1. \A b \in Addr : outgoing_address'[b] \in {b, NoAddr}
  BY Zenon DEF OutgoingIsOwn
<1>2. ASSUME NEW x \in live_outgoing_peers'
      PROVE  x \in Addr /\ state'[x] = "live" /\ outgoing_address'[x] = x
  <2>1. \/ x \in live_outgoing_peers /\ (state[a] = "live" => x # outgoing_address[a])
        \/ new = "live" /\ x = outgoing_address[a] /\ x \in Addr
    BY <1>2, Zenon DEF SetState
  <2>2. CASE x \in live_outgoing_peers /\ (state[a] = "live" => x # outgoing_address[a])
    <3>1. x \in Addr /\ state[x] = "live" /\ outgoing_address[x] = x
      BY <2>2, Zenon DEF OutgoingIsOwn
    <3>2. x # a
      BY <2>2, <3>1, Zenon
    <3> QED
      BY <3>1, <3>2, Zenon DEF SetState, Shape
  <2>3. CASE new = "live" /\ x = outgoing_address[a] /\ x \in Addr
    <3>1. x = a
      BY <2>3, PeerAssumptions, Zenon DEF OutgoingIsOwn
    <3> QED
      BY <2>3, <3>1, Zenon DEF SetState, Shape
  <2> QED
    BY <2>1, <2>2, <2>3, Zenon
<1> QED
  BY <1>1, <1>2, Zenon DEF OutgoingIsOwn

LEMMA OutgoingStep ==
  ASSUME Shape, OutgoingIsOwn, Announces = SameAddress, CalmNext
  PROVE  OutgoingIsOwn'
<1>q. UNCHANGED <<state, outgoing_address, live_outgoing_peers>> => OutgoingIsOwn'
  BY Zenon DEF OutgoingIsOwn
<1>n. ASSUME NEW a \in Addr, NEW new, NEW newTx, NEW out \in {a, NoAddr},
             state[a] = "absent", NewEntry(a, new, newTx, out)
      PROVE  OutgoingIsOwn'
  <2>1. a \notin live_outgoing_peers
    BY <1>n, Zenon DEF OutgoingIsOwn
  <2> QED
    BY <1>n, <2>1, Zenon DEF OutgoingIsOwn, NewEntry, Shape
<1>1. ASSUME NEW a \in Addr, AddPeerIfNotSeen(a)
      PROVE  OutgoingIsOwn'
  BY <1>1, <1>n, Zenon DEF AddPeerIfNotSeen
<1>2. ASSUME NEW a \in Addr, NEW t \in Task, AddIncomingPeer(a, t)
      PROVE  OutgoingIsOwn'
  <2>1. CASE IncomingConnection(a, t)
    BY <2>1, SetStateKeepsOutgoing, Zenon DEF IncomingConnection, entryVars
  <2>2. CASE state[a] = "absent" /\ NewEntry(a, "live", t, NoAddr)
    BY <2>2, <1>n, Zenon
  <2> QED
    BY <1>2, <2>1, <2>2, Zenon DEF AddIncomingPeer
<1>3. ASSUME NEW a \in Addr, RequeueOne(a) \/ ParkOne(a) \/ \E d \in Delay : WaitForPeer(a, d)
      PROVE  OutgoingIsOwn'
  <2>1. /\ UNCHANGED outgoing_address
        /\ \/ UNCHANGED <<state, live_outgoing_peers>>
           \/ SetState(a, "queued", NoTask)
           \/ SetState(a, "not_needed", NoTask)
    BY <1>3, Zenon DEF RequeueOne, ParkOne, WaitForPeer, entryVars
  <2> QED
    BY <1>q, <2>1, SetStateKeepsOutgoing, Zenon
<1>4. ASSUME NEW a \in Addr, PruneDeadPeers(a)
      PROVE  OutgoingIsOwn'
  <2>1. a \notin live_outgoing_peers
    BY <1>4, Zenon DEF OutgoingIsOwn, PruneDeadPeers
  <2> QED
    BY <1>4, <2>1, Zenon DEF OutgoingIsOwn, PruneDeadPeers, RemoveEntry, entryVars, Shape
<1>5. ASSUME NEW t \in Task,
             \/ AdderSpawns(t) \/ OnConnected(t) \/ AcquireNextPiece(t) \/ PieceCompleted(t)
      PROVE  OutgoingIsOwn'
  BY <1>5, <1>q, Zenon DEF AdderSpawns, OnConnected, AcquireNextPiece, PieceCompleted, entryVars
<1>6. ASSUME NEW t \in Task,
             \/ MarkPeerConnecting(t) \/ OnHandshake(t)
             \/ \E error \in BOOLEAN : OnPeerDied(t, error)
      PROVE  OutgoingIsOwn'
  <2>1. task[t].addr \in Addr
    BY <1>6, Zenon DEF MarkPeerConnecting, OnHandshake, OnPeerDied, Shape, FreeTask
  <2>2. /\ UNCHANGED outgoing_address
        /\ \/ UNCHANGED <<state, live_outgoing_peers>>
           \/ \E new \in PeerState, newTx \in {t, tx[task[t].addr], NoTask} :
                SetState(task[t].addr, new, newTx)
    BY <1>6, Zenon DEF MarkPeerConnecting, OnHandshake, OnPeerDied, entryVars, PeerState
  <2> QED
    BY <1>q, <2>1, <2>2, SetStateKeepsOutgoing, ZenonT(30)
<1>7. ASSUME NEW t \in Task, OnExtendedHandshake(t)
      PROVE  OutgoingIsOwn'
  <2>1. task[t].addr \in Addr /\ UNCHANGED <<state, live_outgoing_peers>>
    BY <1>7, Zenon DEF OnExtendedHandshake, Shape, FreeTask
  <2>2. outgoing_address' = [outgoing_address EXCEPT ![task[t].addr] = task[t].addr]
    BY <1>7, <2>1, Zenon DEF OnExtendedHandshake, SameAddress
  <2> QED
    BY <2>1, <2>2, Zenon DEF OutgoingIsOwn, Shape
<1>8. CASE AdderReceives
  <2>1. Head(peer_queue) \in Addr
    BY <1>8 DEF AdderReceives, Shape
  <2>2. /\ UNCHANGED outgoing_address
        /\ \/ UNCHANGED <<state, live_outgoing_peers>>
           \/ SetState(Head(peer_queue), "not_needed", NoTask)
    BY <1>8, Zenon DEF AdderReceives, entryVars
  <2> QED
    BY <1>q, <2>1, <2>2, SetStateKeepsOutgoing, ZenonT(30)
<1>9. CASE UpdateOnlyFiles(TRUE) \/ PeerHealthMonitor
  BY <1>9, <1>q, Zenon DEF UpdateOnlyFiles, PeerHealthMonitor, entryVars
<1> QED
  BY <1>1, <1>2, <1>3, <1>4, <1>5, <1>6, <1>7, <1>8, <1>9, ZenonT(30) DEF CalmNext, TaskStep

-----------------------------------------------------------------------------
(* The queue is never full.                                                *)

LEMMA DeadCount ==
  ASSUME CountersMatch
  PROVE  stats["dead"] \in Nat /\ \A a \in Addr : state[a] = "dead" => stats["dead"] > 0
<1> DEFINE Dead == {a \in Addr : state[a] = "dead"}
<1>1. IsFiniteSet(Dead) /\ stats["dead"] = Cardinality(Dead)
  BY PeerAssumptions, FS_Subset, Zenon DEF CountersMatch, PeerState
<1>2. Cardinality(Dead) \in Nat /\ (Cardinality(Dead) = 0 <=> Dead = {})
  BY <1>1, FS_CardinalityType, FS_EmptySet, Zenon
<1>3. ASSUME NEW a \in Addr, state[a] = "dead"
      PROVE  a \in Dead
  BY <1>3, Zenon
<1> HIDE DEF Dead
<1> QED
  BY <1>1, <1>2, <1>3

LEMMA DeadAfter ==
  ASSUME CountersMatch, NEW old, NEW new, IncDec(old, new)
  PROVE  stats'["dead"] = (stats["dead"] + (IF new = "dead" THEN 1 ELSE 0))
                          - (IF old = "dead" THEN 1 ELSE 0)
BY Zenon DEF IncDec, PeerState

LEMMA SendLength ==
  ASSUME Shape, NEW a \in Addr, TrySend(a)
  PROVE  Len(peer_queue') \in {Len(peer_queue), Len(peer_queue) + 1}
BY DEF Shape, TrySend

LEMMA QueueStep ==
  ASSUME Shape, CountersMatch, QueueFits, CalmNext
  PROVE  QueueFits'
<1> DEFINE L == Len(peer_queue)
           D == stats["dead"]
<1>n. /\ L \in Nat /\ D \in Nat /\ events \in Nat /\ events <= MaxEvents
      /\ L + D <= events /\ MaxEvents \in Nat
  BY DeadCount, PeerAssumptions DEF QueueFits, Shape
<1>d. Disturb => events' = events + 1 /\ events' <= MaxEvents
  BY <1>n DEF Disturb
<1>u. UNCHANGED events \/ Disturb => events' \in Nat /\ events' <= MaxEvents /\ L + D <= events'
  <2>1. CASE Disturb
    <3>1. events' = events + 1 /\ events' <= MaxEvents
      BY <1>d, <2>1, Zenon
    <3> HIDE DEF L, D
    <3> QED
      BY <1>n, <3>1
  <2>2. CASE UNCHANGED events
    BY <1>n, <2>2, Zenon
  <2> QED
    BY <2>1, <2>2, Zenon
<1>t. \A x \in Nat, y, m \in Int, z \in Nat : x + y <= m /\ m <= z => x + y <= z
  OBVIOUS
<1>s. L + D \in Int /\ L + D + 1 \in Int
  <2> HIDE DEF L, D
  <2> QED
    BY <1>n
<1>f. ASSUME Len(peer_queue') \in Nat, stats'["dead"] \in Int,
             Len(peer_queue') + stats'["dead"] <= L + D,
             UNCHANGED events \/ Disturb
      PROVE  QueueFits'
  BY <1>f, <1>u, <1>t, <1>s, ZenonT(30) DEF QueueFits
<1>g. ASSUME Len(peer_queue') \in Nat, stats'["dead"] \in Int,
             Len(peer_queue') + stats'["dead"] <= L + D + 1,
             Disturb
      PROVE  QueueFits'
  <2>1. events' \in Nat /\ events' <= MaxEvents /\ L + D + 1 <= events'
    <3>1. events' = events + 1 /\ events' <= MaxEvents
      BY <1>d, <1>g, Zenon
    <3> HIDE DEF L, D
    <3> QED
      BY <1>n, <3>1
  <2> QED
    BY <1>g, <1>t, <1>s, <2>1, ZenonT(30) DEF QueueFits
<1>1. ASSUME NEW a \in Addr, AddPeerIfNotSeen(a)
      PROVE  QueueFits'
  <2>1. Disturb /\ TrySend(a) /\ IncDec("absent", "queued")
    BY <1>1, Zenon DEF AddPeerIfNotSeen, NewEntry
  <2>2. stats'["dead"] = D
    BY <1>n, <2>1, DeadAfter
  <2> QED
    BY <1>n, <1>g, <2>1, <2>2, SendLength
<1>2. ASSUME NEW a \in Addr, NEW t \in Task, AddIncomingPeer(a, t)
      PROVE  QueueFits'
  <2>1. Disturb /\ UNCHANGED peer_queue /\ (\E old \in PeerState \cup {"absent"} : IncDec(old, "live"))
    BY <1>2, Zenon DEF AddIncomingPeer, IncomingConnection, SetState, NewEntry, PeerState
  <2>2. stats'["dead"] \in Int /\ stats'["dead"] <= D
    BY <1>n, <2>1, DeadAfter
  <2> QED
    BY <1>n, <1>f, <2>1, <2>2
<1>3. ASSUME NEW a \in Addr, RequeueOne(a) \/ \E d \in Delay : WaitForPeer(a, d)
      PROVE  QueueFits'
  <2>1. /\ UNCHANGED events
        /\ \/ UNCHANGED <<stats, peer_queue>>
           \/ IncDec("dead", "queued") /\ TrySend(a)
    BY <1>3, Zenon DEF RequeueOne, WaitForPeer, SetState
  <2>2. CASE UNCHANGED <<stats, peer_queue>>
    BY <1>n, <1>f, <2>1, <2>2
  <2>3. CASE IncDec("dead", "queued") /\ TrySend(a)
    <3>1. stats'["dead"] = D - 1
      BY <1>n, <2>3, DeadAfter
    <3> QED
      BY <1>n, <1>f, <2>1, <2>3, <3>1, SendLength
  <2> QED
    BY <2>1, <2>2, <2>3, Zenon
<1>4. ASSUME NEW a \in Addr, PruneDeadPeers(a) \/ ParkOne(a)
      PROVE  QueueFits'
  <2>1. /\ UNCHANGED <<events, peer_queue>>
        /\ \/ UNCHANGED stats
           \/ \E new \in {"absent", "not_needed"} : IncDec(state[a], new)
    BY <1>4, Zenon DEF PruneDeadPeers, RemoveEntry, ParkOne, SetState
  <2>2. stats'["dead"] \in Int /\ stats'["dead"] <= D
    BY <1>n, <2>1, DeadAfter
  <2> QED
    BY <1>n, <1>f, <2>1, <2>2
<1>5. ASSUME NEW t \in Task,
             \/ AdderSpawns(t) \/ OnConnected(t) \/ AcquireNextPiece(t) \/ PieceCompleted(t)
             \/ OnExtendedHandshake(t)
      PROVE  QueueFits'
  <2>1. UNCHANGED <<events, peer_queue, stats>>
    BY <1>5, Zenon DEF AdderSpawns, OnConnected, AcquireNextPiece, PieceCompleted, OnExtendedHandshake
  <2> QED
    BY <1>n, <1>f, <2>1
<1>6. ASSUME NEW t \in Task, MarkPeerConnecting(t) \/ OnHandshake(t)
      PROVE  QueueFits'
  <2>1. /\ UNCHANGED <<events, peer_queue>>
        /\ \/ UNCHANGED stats
           \/ \E new \in {"connecting", "live"} : IncDec(state[task[t].addr], new)
    BY <1>6, Zenon DEF MarkPeerConnecting, OnHandshake, SetState
  <2>2. stats'["dead"] \in Int /\ stats'["dead"] <= D
    BY <1>n, <2>1, DeadAfter
  <2> QED
    BY <1>n, <1>f, <2>1, <2>2
<1>7. ASSUME NEW t \in Task, NEW error \in BOOLEAN, OnPeerDied(t, error)
      PROVE  QueueFits'
  <2>0. UNCHANGED peer_queue
    BY <1>7, Zenon DEF OnPeerDied
  <2>1. CASE error
    <3>1. /\ Disturb
          /\ \/ UNCHANGED stats
             \/ \E new \in PeerState : IncDec(state[task[t].addr], new)
      BY <1>7, <2>1, ZenonT(30) DEF OnPeerDied, SetState, PeerState
    <3>2. stats'["dead"] \in Int /\ stats'["dead"] <= D + 1
      BY <1>n, <3>1, DeadAfter
    <3>3. Len(peer_queue') \in Nat /\ Len(peer_queue') = L
      BY <1>n, <2>0, Zenon
    <3>4. L + stats'["dead"] <= L + D + 1
      BY <1>n, <3>2
    <3> QED
      BY <1>g, <3>1, <3>2, <3>3, <3>4, ZenonT(30)
  <2>2. CASE ~ error
    <3>1. /\ UNCHANGED events
          /\ \/ UNCHANGED stats
             \/ \E new \in {"not_needed", "queued"} : IncDec(state[task[t].addr], new)
      BY <1>7, <2>2, Zenon DEF OnPeerDied, SetState
    <3>2. stats'["dead"] \in Int /\ stats'["dead"] <= D
      BY <1>n, <3>1, DeadAfter
    <3> QED
      BY <1>n, <1>f, <2>0, <3>1, <3>2
  <2> QED
    BY <2>1, <2>2, Zenon
<1>8. CASE AdderReceives
  <2>1. /\ UNCHANGED events
        /\ peer_queue # << >> /\ peer_queue' = Tail(peer_queue)
        /\ \/ UNCHANGED stats
           \/ IncDec(state[Head(peer_queue)], "not_needed")
    BY <1>8, Zenon DEF AdderReceives, SetState
  <2>2. stats'["dead"] \in Int /\ stats'["dead"] <= D
    BY <1>n, <2>1, DeadAfter
  <2>3. Len(peer_queue') = L - 1 /\ L > 0
    BY <2>1 DEF Shape
  <2> QED
    BY <1>n, <1>f, <2>1, <2>2, <2>3
<1>9. CASE UpdateOnlyFiles(TRUE) \/ PeerHealthMonitor
  <2>1. Disturb /\ UNCHANGED <<peer_queue, stats>>
    BY <1>9, Zenon DEF UpdateOnlyFiles, PeerHealthMonitor
  <2> QED
    BY <1>n, <1>f, <2>1
<1> QED
  BY <1>1, <1>2, <1>3, <1>4, <1>5, <1>6, <1>7, <1>8, <1>9, ZenonT(30) DEF CalmNext, TaskStep
-----------------------------------------------------------------------------
(* Tasks and entries agree.                                                *)

\* The task is where it was, as far as its entry is concerned.
SameTask(t) ==
  task'[t].pc = task[t].pc /\ task'[t].addr = task[t].addr /\ task'[t].bye = task[t].bye

\* The task does not run.
Idle(t) == task[t].pc \in {"none", "spawned"} /\ ~ task[t].bye

LEMMA SameTaskOk ==
  ASSUME NEW t \in Task, TaskOk(t), SameTask(t),
         Running(t) => state'[task[t].addr] = state[task[t].addr]
                       /\ tx'[task[t].addr] = tx[task[t].addr]
  PROVE  TaskOk(t)'
BY Zenon DEF TaskOk, SameTask, Running

LEMMA IdleTaskOk ==
  ASSUME NEW t \in Task, Idle(t)'
  PROVE  TaskOk(t)'
BY Zenon DEF TaskOk, Idle

LEMMA NotRunningIsIdle ==
  ASSUME Shape, NEW t \in Task, TaskOk(t)
  PROVE  Idle(t) <=> ~ Running(t)
BY Zenon DEF TaskOk, Running, Idle, Shape, TaskRecord, TaskPc

LEMMA RunningTaskEntry ==
  ASSUME Shape, NEW t \in Task, TaskOk(t), Running(t)
  PROVE  /\ task[t].addr \in Addr
         /\ \/ state[task[t].addr] \in Active /\ tx[task[t].addr] = t /\ ~ task[t].bye
            \/ state[task[t].addr] = "not_needed" /\ task[t].bye /\ task[t].addr \in Seeds
               /\ task[t].pc = "connected"
<1>1. task[t].pc \in {"connecting", "handshaking", "connected"}
  BY Zenon DEF TaskOk, Running, Shape, TaskRecord, TaskPc
<1>2. task[t].addr \in Addr
  BY <1>1, Zenon DEF Shape, FreeTask
<1> QED
  BY <1>1, <1>2, Zenon DEF TaskOk, Active

LEMMA SameEntryOk ==
  ASSUME NEW b \in Addr, EntryOk(b), state'[b] = state[b],
         state[b] \in Active => tx'[b] = tx[b] /\ SameTask(tx[b])
  PROVE  EntryOk(b)'
BY Zenon DEF EntryOk, SameTask, Active

LEMMA InactiveEntryOk ==
  ASSUME NEW b \in Addr, state'[b] \notin Active
  PROVE  EntryOk(b)'
BY Zenon DEF EntryOk, Active

\* No entry changes, and no task an active entry talks to does.
LEMMA QuietAgrees ==
  ASSUME Shape, ActiveEntryHasTask, TasksAgree, UNCHANGED <<state, tx>>,
         \A t \in Task :
           SameTask(t) \/ (Idle(t)' /\ (Running(t) => state[task[t].addr] \notin Active))
  PROVE  TasksAgree'
<1>1. \A t \in Task : TaskOk(t)'
  BY SameTaskOk, IdleTaskOk, Zenon DEF TasksAgree
<1>2. ASSUME NEW b \in Addr
      PROVE  EntryOk(b)'
  <2>1. state[b] \in Active => tx[b] \in Task /\ Running(tx[b]) /\ task[tx[b]].addr = b
    BY Zenon DEF ActiveEntryHasTask
  <2> QED
    BY <2>1, SameEntryOk, Zenon DEF TasksAgree
<1> QED
  BY <1>1, <1>2, Zenon DEF TasksAgree

\* An entry no running task belongs to moves between inactive states.
LEMMA IdleMoveAgrees ==
  ASSUME Shape, ActiveEntryHasTask, TasksAgree, NEW a \in Addr, NEW new, new \notin Active,
         state[a] \notin Active,
         state[a] = "not_needed" => \A t \in Task : task[t].addr = a => ~ task[t].bye,
         state' = [state EXCEPT ![a] = new], tx' = [tx EXCEPT ![a] = NoTask],
         \A t \in Task : SameTask(t)
  PROVE  TasksAgree'
<1>1. ASSUME NEW t \in Task
      PROVE  TaskOk(t)'
  <2>1. TaskOk(t)
    BY Zenon DEF TasksAgree
  <2>2. Running(t) => task[t].addr \in Addr /\ task[t].addr # a
    BY <2>1, RunningTaskEntry, Zenon
  <2>3. Running(t) => state'[task[t].addr] = state[task[t].addr]
                      /\ tx'[task[t].addr] = tx[task[t].addr]
    BY <2>2, Zenon DEF Shape
  <2> QED
    BY <2>1, <2>3, SameTaskOk, ZenonT(30)
<1>2. ASSUME NEW b \in Addr
      PROVE  EntryOk(b)'
  <2>1. CASE b = a
    <3>1. state'[b] = new
      BY <2>1, Zenon DEF Shape
    <3> QED
      BY <3>1, InactiveEntryOk, Zenon
  <2>2. CASE b # a
    <3>1. state'[b] = state[b] /\ tx'[b] = tx[b]
      BY <2>2, Zenon DEF Shape
    <3>2. state[b] \in Active => tx[b] \in Task
      BY Zenon DEF ActiveEntryHasTask
    <3> QED
      BY <3>1, <3>2, SameEntryOk, Zenon DEF TasksAgree
  <2> QED
    BY <2>1, <2>2, Zenon
<1> QED
  BY <1>1, <1>2, Zenon DEF TasksAgree

\* An inactive entry no running task belongs to is given to a task.
LEMMA EnterAgrees ==
  ASSUME Shape, ActiveEntryHasTask, TasksAgree, NEW a \in Addr, NEW t \in Task,
         NEW new \in Active, state[a] \notin Active, ~ Running(t),
         state[a] = "not_needed" => \A u \in Task : task[u].addr = a => ~ task[u].bye,
         state' = [state EXCEPT ![a] = new], tx' = [tx EXCEPT ![a] = t],
         task'[t].addr = a, ~ task'[t].bye,
         task'[t].pc = IF new = "live" THEN "connected" ELSE "connecting",
         \A u \in Task : u # t => SameTask(u)
  PROVE  TasksAgree'
<1>n. state'[a] = new /\ tx'[a] = t /\ new \in {"live", "connecting"}
  BY Zenon DEF Shape, Active
<1>1. ASSUME NEW u \in Task
      PROVE  TaskOk(u)'
  <2>1. CASE u = t
    BY <1>n, <2>1, Zenon DEF TaskOk
  <2>2. CASE u # t
    <3>1. TaskOk(u)
      BY Zenon DEF TasksAgree
    <3>2. Running(u) => task[u].addr \in Addr /\ task[u].addr # a
      BY <3>1, RunningTaskEntry, ZenonT(30)
    <3>3. Running(u) => state'[task[u].addr] = state[task[u].addr]
                        /\ tx'[task[u].addr] = tx[task[u].addr]
      BY <3>2, Zenon DEF Shape
    <3> QED
      BY <2>2, <3>1, <3>3, SameTaskOk, ZenonT(30)
  <2> QED
    BY <2>1, <2>2, Zenon
<1>2. ASSUME NEW b \in Addr
      PROVE  EntryOk(b)'
  <2>1. CASE b = a
    BY <1>n, <2>1, Zenon DEF EntryOk
  <2>2. CASE b # a
    <3>1. state'[b] = state[b] /\ tx'[b] = tx[b]
      BY <2>2, Zenon DEF Shape
    <3>2. state[b] \in Active => tx[b] \in Task /\ tx[b] # t
      BY Zenon DEF ActiveEntryHasTask
    <3> QED
      BY <3>1, <3>2, SameEntryOk, ZenonT(30) DEF TasksAgree
  <2> QED
    BY <2>1, <2>2, Zenon
<1> QED
  BY <1>1, <1>2, Zenon DEF TasksAgree

\* A running task and its entry go on together, or end together.
LEMMA OwnMoveAgrees ==
  ASSUME Shape, ActiveEntryHasTask, TasksAgree, NEW t \in Task,
         NEW a \in Addr, task[t].addr = a, Running(t), state[a] \in Active,
         TaskOk(t)', EntryOk(a)',
         \A b \in Addr : b # a => state'[b] = state[b] /\ tx'[b] = tx[b],
         \A u \in Task : u # t => SameTask(u)
  PROVE  TasksAgree'
<1>a. tx[a] = t
  BY RunningTaskEntry, Zenon DEF TasksAgree, Active
<1>1. ASSUME NEW u \in Task, u # t
      PROVE  TaskOk(u)'
  <2>1. TaskOk(u)
    BY Zenon DEF TasksAgree
  <2>2. Running(u) => task[u].addr \in Addr /\ task[u].addr # a
    BY <1>1, <1>a, <2>1, RunningTaskEntry DEF Active
  <2> QED
    BY <1>1, <2>1, <2>2, SameTaskOk, ZenonT(30)
<1>2. ASSUME NEW b \in Addr, b # a
      PROVE  EntryOk(b)'
  <2>1. state[b] \in Active => tx[b] \in Task /\ tx[b] # t
    BY <1>2, Zenon DEF ActiveEntryHasTask
  <2> QED
    BY <1>2, <2>1, SameEntryOk, Zenon DEF TasksAgree
<1> QED
  BY <1>1, <1>2, Zenon DEF TasksAgree
LEMMA AgreeStep ==
  ASSUME CalmWorld, Shape, ActiveEntryHasTask, TasksAgree, CalmNext,
         \A a \in Addr \ MayConnectToUs : PendingOnce(a)
  PROVE  TasksAgree'
<1>q. UNCHANGED <<state, tx, task>> => TasksAgree'
  BY QuietAgrees, Zenon DEF SameTask
<1>s. UNCHANGED task => \A t \in Task : SameTask(t)
  BY Zenon DEF SameTask
<1>1. ASSUME NEW a \in Addr, AddPeerIfNotSeen(a)
      PROVE  TasksAgree'
  <2>1. /\ state[a] = "absent" /\ UNCHANGED task
        /\ state' = [state EXCEPT ![a] = "queued"] /\ tx' = [tx EXCEPT ![a] = NoTask]
    BY <1>1, Zenon DEF AddPeerIfNotSeen, NewEntry
  <2> QED
    BY <1>s, <2>1, IdleMoveAgrees, ZenonT(40) DEF Active
<1>2. ASSUME NEW a \in Addr, NEW t \in Task, AddIncomingPeer(a, t)
      PROVE  TasksAgree'
  <2>1. /\ state' = [state EXCEPT ![a] = "live"] /\ tx' = [tx EXCEPT ![a] = t]
        /\ state[a] \notin Active /\ ~ Running(t)
    BY <1>2, Zenon
       DEF AddIncomingPeer, IncomingConnection, SetState, NewEntry, Active, FreeTask, Running
  <2>2. \A u \in Task : task[u].addr = a => ~ task[u].bye
    BY <1>2, ZenonT(30) DEF AddIncomingPeer, CalmWorld, TasksAgree, TaskOk
  <2>3. task'[t].addr = a /\ ~ task'[t].bye /\ task'[t].pc = "connected"
    BY <1>2, Zenon DEF AddIncomingPeer, Shape
  <2>4. \A u \in Task : u # t => SameTask(u)
    BY <1>2, Zenon DEF AddIncomingPeer, Shape, SameTask
  <2>5. "live" \in Active
    BY Zenon DEF Active
  <2> QED
    BY <2>1, <2>2, <2>3, <2>4, <2>5, EnterAgrees, ZenonT(40)
<1>3. ASSUME NEW a \in Addr, RequeueOne(a) \/ \E d \in Delay : WaitForPeer(a, d)
      PROVE  TasksAgree'
  <2>1. /\ UNCHANGED task
        /\ \/ UNCHANGED <<state, tx>>
           \/ /\ state[a] = "dead"
              /\ state' = [state EXCEPT ![a] = "queued"] /\ tx' = [tx EXCEPT ![a] = NoTask]
    BY <1>3, Zenon DEF RequeueOne, WaitForPeer, SetState
  <2>2. "queued" \notin Active /\ "dead" \notin Active
    BY Zenon DEF Active
  <2> QED
    BY <1>q, <1>s, <2>1, <2>2, IdleMoveAgrees, ZenonT(30)
<1>4. ASSUME NEW a \in Addr, PruneDeadPeers(a)
      PROVE  TasksAgree'
  <2>1. /\ state[a] \notin Active /\ "absent" \notin Active
        /\ state' = [state EXCEPT ![a] = "absent"] /\ tx' = [tx EXCEPT ![a] = NoTask]
        /\ \A t \in Task : task[t].addr = a => ~ task[t].bye
    BY <1>4, Zenon DEF PruneDeadPeers, RemoveEntry, Active
  <2>2. \A t \in Task : SameTask(t)
    BY <1>4, ZenonT(30) DEF PruneDeadPeers, Disowned, Shape, TaskRecord, SameTask
  <2> QED
    BY <2>1, <2>2, IdleMoveAgrees, ZenonT(40)
<1>5. ASSUME NEW a \in Addr, ParkOne(a)
      PROVE  TasksAgree'
  <2>1. CASE state[a] = "live" /\ a \in Seeds
    <3>0. PICK t \in Task : t = tx[a]
      BY <2>1, Zenon DEF ActiveEntryHasTask, Active
    <3>1. task[t].addr = a /\ Running(t) /\ task[t].pc = "connected"
      BY <2>1, <3>0, Zenon DEF ActiveEntryHasTask, Active, TasksAgree, EntryOk
    <3>2. /\ task' = [task EXCEPT ![t].bye = TRUE]
          /\ state' = [state EXCEPT ![a] = "not_needed"] /\ tx' = [tx EXCEPT ![a] = NoTask]
      BY <1>5, <2>1, <3>0, ZenonT(30) DEF ParkOne, SetState
    <3>3. \A u \in Task : u # t => SameTask(u)
      BY <3>1, <3>2, Zenon DEF Shape, SameTask
    <3>4. task'[t].pc = "connected" /\ task'[t].bye /\ task'[t].addr = a /\ state'[a] = "not_needed"
      BY <3>1, <3>2, ZenonT(30) DEF Shape, TaskRecord
    <3>5. \A b \in Addr : b # a => state'[b] = state[b] /\ tx'[b] = tx[b]
      BY <3>2, Zenon DEF Shape
    <3>6. TaskOk(t)'
      BY <2>1, <3>4, Zenon DEF TaskOk
    <3>7. EntryOk(a)'
      BY <3>4, InactiveEntryOk, Zenon DEF Active
    <3> QED
      BY <2>1, <3>1, <3>3, <3>5, <3>6, <3>7, OwnMoveAgrees, ZenonT(40) DEF Active
  <2>2. CASE ~ (state[a] = "live" /\ a \in Seeds)
    BY <1>5, <1>q, <2>2, ZenonT(30) DEF ParkOne
  <2> QED
    BY <2>1, <2>2, Zenon
<1>6. ASSUME NEW t \in Task, AdderSpawns(t)
      PROVE  TasksAgree'
  <2>1. UNCHANGED <<state, tx>> /\ ~ Running(t)
    BY <1>6, Zenon DEF AdderSpawns, FreeTask, Running
  <2>2. Idle(t)' /\ \A u \in Task : u # t => SameTask(u)
    BY <1>6, Zenon DEF AdderSpawns, Shape, Idle, SameTask
  <2> QED
    BY <2>1, <2>2, QuietAgrees, ZenonT(30)
<1>7. ASSUME NEW t \in Task, MarkPeerConnecting(t)
      PROVE  TasksAgree'
  <2> DEFINE a == task[t].addr
  <2>1. a \in Addr /\ ~ Running(t) /\ Spawned(t, a)
    BY <1>7, Zenon DEF MarkPeerConnecting, Shape, FreeTask, Running, Spawned
  <2>2. CASE state[a] \in {"queued", "not_needed"}
    <3>1. /\ state' = [state EXCEPT ![a] = "connecting"] /\ tx' = [tx EXCEPT ![a] = t]
          /\ state[a] \notin Active /\ "connecting" \in Active
      BY <1>7, <2>2, ZenonT(30) DEF MarkPeerConnecting, SetState, Active
    <3>2. ASSUME NEW u \in Task, task[u].addr = a, task[u].bye
          PROVE  FALSE
      <4>1. a \in Seeds /\ state[a] = "not_needed"
        BY <3>2, ZenonT(30) DEF TasksAgree, TaskOk
      <4>2. a \in Addr \ MayConnectToUs
        BY <2>1, <4>1, Zenon DEF CalmWorld
      <4>3. state[a] = "queued"
        BY <2>1, <4>2, ZenonT(30) DEF PendingOnce, WaitsOnce
      <4> QED
        BY <4>1, <4>3, ZenonT(30)
    <3>3. task'[t].addr = a /\ ~ task'[t].bye /\ task'[t].pc = "connecting"
      BY <1>7, <2>2 DEF MarkPeerConnecting, Shape
    <3>4. \A u \in Task : u # t => SameTask(u)
      BY <1>7, <2>2, Zenon DEF MarkPeerConnecting, Shape, SameTask
    <3> HIDE DEF a
    <3> QED
      BY <2>1, <3>1, <3>2, <3>3, <3>4, EnterAgrees, ZenonT(40)
  <2>3. CASE state[a] \notin {"queued", "not_needed"}
    <3>1. UNCHANGED <<state, tx>> /\ task' = [task EXCEPT ![t] = NoTaskRecord]
      BY <1>7, <2>3, ZenonT(30) DEF MarkPeerConnecting
    <3>2. Idle(t)' /\ \A u \in Task : u # t => SameTask(u)
      BY <3>1, Zenon DEF Shape, Idle, SameTask, NoTaskRecord
    <3> QED
      BY <2>1, <3>1, <3>2, QuietAgrees, ZenonT(30)
  <2> QED
    BY <2>2, <2>3, Zenon
<1>8. ASSUME NEW t \in Task, OnConnected(t) \/ OnHandshake(t)
      PROVE  TasksAgree'
  <2> DEFINE a == task[t].addr
  <2>1. task[t].pc \in {"connecting", "handshaking"}
    BY <1>8, Zenon DEF OnConnected, OnHandshake
  <2>2. state[a] = "connecting" /\ tx[a] = t /\ ~ task[t].bye
    BY <2>1, Zenon DEF TasksAgree, TaskOk
  <2>3. a \in Addr /\ Running(t)
    BY <2>1, Zenon DEF Shape, FreeTask, Running
  <2>4. \/ /\ task' = [task EXCEPT ![t].pc = "handshaking"]
           /\ UNCHANGED <<state, tx>>
        \/ /\ task' = [task EXCEPT ![t].pc = "connected"]
           /\ state' = [state EXCEPT ![a] = "live"] /\ tx' = [tx EXCEPT ![a] = t]
    BY <1>8, <2>2, ZenonT(30) DEF OnConnected, OnHandshake, SetState
  <2>5. /\ \A u \in Task : u # t => SameTask(u)
        /\ task'[t].addr = a /\ task'[t].bye = task[t].bye
    BY <2>4 DEF Shape, TaskRecord, SameTask
  <2>6. /\ \A b \in Addr : b # a => state'[b] = state[b] /\ tx'[b] = tx[b]
        /\ tx'[a] = t
        /\ \/ state'[a] = "live" /\ task'[t].pc = "connected"
           \/ state'[a] = "connecting" /\ task'[t].pc = "handshaking"
    BY <2>2, <2>3, <2>4 DEF Shape, TaskRecord
  <2> HIDE DEF a
  <2>7. TaskOk(t)'
    BY <2>2, <2>5, <2>6, ZenonT(30) DEF TaskOk
  <2>8. \A b \in Addr : b = a => EntryOk(b)'
    BY <2>2, <2>5, <2>6, ZenonT(30) DEF EntryOk
  <2>9. PICK b \in Addr : b = a
    BY <2>3, Zenon
  <2>10. task[t].addr = b /\ state[b] \in Active
    BY <2>2, <2>9, ZenonT(30) DEF a, Active
  <2> QED
    BY <2>3, <2>5, <2>6, <2>7, <2>8, <2>9, <2>10, OwnMoveAgrees, ZenonT(40)
<1>9. ASSUME NEW t \in Task,
             OnExtendedHandshake(t) \/ AcquireNextPiece(t) \/ PieceCompleted(t)
      PROVE  TasksAgree'
  BY <1>9, <1>q, ZenonT(30) DEF OnExtendedHandshake, AcquireNextPiece, PieceCompleted
<1>10. ASSUME NEW t \in Task, NEW error \in BOOLEAN, OnPeerDied(t, error)
      PROVE  TasksAgree'
  <2>1. PICK a \in Addr : task[t].addr = a
    BY <1>10, Zenon DEF OnPeerDied, Shape, FreeTask
  <2>2. Running(t)
    BY <1>10, Zenon DEF OnPeerDied, Running
  <2>3. state[a] \in Active \/ state[a] = "not_needed"
    BY <2>1, <2>2, RunningTaskEntry, ZenonT(30) DEF TasksAgree
  <2>4. task' = [task EXCEPT ![t] = NoTaskRecord]
    BY <1>10, <2>1, <2>3, ZenonT(30) DEF OnPeerDied, Active
  <2>5. Idle(t)' /\ \A u \in Task : u # t => SameTask(u)
    BY <2>4, Zenon DEF Shape, Idle, SameTask, NoTaskRecord
  <2>6. CASE state[a] \in Active
    <3>1. PICK new \in {"not_needed", "dead"} :
            state' = [state EXCEPT ![a] = new] /\ tx' = [tx EXCEPT ![a] = NoTask]
      BY <1>10, <2>1, <2>6, ZenonT(30) DEF OnPeerDied, SetState, Active
    <3>2. \A b \in Addr : b # a => state'[b] = state[b] /\ tx'[b] = tx[b]
      BY <3>1, Zenon DEF Shape
    <3>3. EntryOk(a)'
      BY <3>1, InactiveEntryOk, Zenon DEF Shape, Active
    <3> QED
      BY <2>1, <2>2, <2>5, <2>6, <3>2, <3>3, IdleTaskOk, OwnMoveAgrees, ZenonT(40)
  <2>7. CASE state[a] = "not_needed"
    <3>1. UNCHANGED <<state, tx>> /\ state[a] \notin Active
      BY <1>10, <2>1, <2>7, ZenonT(30) DEF OnPeerDied, Active
    <3> QED
      BY <2>1, <2>5, <3>1, QuietAgrees, ZenonT(30)
  <2> QED
    BY <2>3, <2>6, <2>7, ZenonT(30)
<1>11. CASE AdderReceives
  BY <1>11, <1>q, ZenonT(30) DEF AdderReceives, CalmWorld
<1>12. CASE UpdateOnlyFiles(TRUE) \/ PeerHealthMonitor
  BY <1>12, <1>q, ZenonT(30) DEF UpdateOnlyFiles, PeerHealthMonitor
<1> QED
  BY <1>1, <1>2, <1>3, <1>4, <1>5, <1>6, <1>7, <1>8, <1>9, <1>10, <1>11, <1>12, ZenonT(30)
     DEF CalmNext, TaskStep
-----------------------------------------------------------------------------
(* Queued peers are on their way.                                          *)

Pending(a) == Queued(a) \/ adder = a \/ \E t \in Task : Spawned(t, a)

LEMMA QueuedIsPendingAgain ==
  /\ QueuedIsPending <=> \A a \in Addr : state[a] = "queued" => Pending(a)
  /\ QueuedIsPending' <=> \A a \in Addr : state'[a] = "queued" => Pending(a)'
BY Zenon DEF QueuedIsPending, Pending, Queued, Spawned

SameSpawned == \A t \in Task, a \in Addr : Spawned(t, a)' <=> Spawned(t, a)

LEMMA AppendQueued ==
  ASSUME Shape, NEW a \in Addr, peer_queue' = Append(peer_queue, a)
  PROVE  /\ \A b \in Addr : Queued(b)' <=> Queued(b) \/ b = a
         /\ Len(peer_queue') = Len(peer_queue) + 1 /\ Len(peer_queue) \in Nat
         /\ \A i \in 1..Len(peer_queue) : peer_queue'[i] = peer_queue[i]
         /\ peer_queue'[Len(peer_queue) + 1] = a
<1> DEFINE n == Len(peer_queue)
<1>1. /\ Len(peer_queue') = n + 1 /\ n \in Nat
      /\ \A i \in 1..n : peer_queue'[i] = peer_queue[i]
      /\ peer_queue'[n + 1] = a
  BY DEF Shape
<1> HIDE DEF n
<1>2. ASSUME NEW b \in Addr
      PROVE  (\E i \in 1..Len(peer_queue') : peer_queue'[i] = b)
               <=> (\E i \in 1..n : peer_queue[i] = b) \/ b = a
  <2>1. ASSUME NEW i \in 1..(n + 1)
        PROVE  i \in 1..n \/ i = n + 1
    BY <1>1
  <2>2. 1..n \subseteq 1..(n + 1) /\ n + 1 \in 1..(n + 1)
    BY <1>1
  <2> QED
    BY <1>1, <2>1, <2>2, ZenonT(30)
<1> QED
  BY <1>1, <1>2, ZenonT(30) DEF Queued, n

LEMMA TailQueued ==
  ASSUME Shape, peer_queue # << >>, peer_queue' = Tail(peer_queue)
  PROVE  /\ Head(peer_queue) \in Addr
         /\ Len(peer_queue) \in Nat /\ Len(peer_queue) > 0
         /\ Head(peer_queue) = peer_queue[1] /\ Len(peer_queue') = Len(peer_queue) - 1
         /\ \A i \in 1..(Len(peer_queue) - 1) : peer_queue'[i] = peer_queue[i + 1]
         /\ \A b \in Addr : Queued(b) <=> Queued(b)' \/ b = Head(peer_queue)
<1> DEFINE n == Len(peer_queue)
<1>1. /\ Head(peer_queue) \in Addr
      /\ n \in Nat /\ n > 0
      /\ Head(peer_queue) = peer_queue[1] /\ Len(peer_queue') = n - 1
      /\ \A i \in 1..(n - 1) : peer_queue'[i] = peer_queue[i + 1]
  BY DEF Shape
<1> HIDE DEF n
<1>2. ASSUME NEW b \in Addr
      PROVE  (\E i \in 1..n : peer_queue[i] = b)
               <=> (\E i \in 1..Len(peer_queue') : peer_queue'[i] = b) \/ b = Head(peer_queue)
  <2>1. ASSUME NEW i \in 1..n, i # 1
        PROVE  i - 1 \in 1..(n - 1) /\ (i - 1) + 1 = i
    BY <1>1, <2>1
  <2>2. ASSUME NEW i \in 1..(n - 1)
        PROVE  i + 1 \in 1..n
    BY <1>1, <2>2
  <2>3. 1 \in 1..n
    BY <1>1
  <2>4. ASSUME NEW i \in 1..n, peer_queue[i] = b, b # Head(peer_queue)
        PROVE  \E j \in 1..(n - 1) : peer_queue'[j] = b
    <3>1. i # 1
      BY <1>1, <2>4, Zenon
    <3>2. i - 1 \in 1..(n - 1) /\ peer_queue'[i - 1] = b
      BY <1>1, <2>1, <2>4, <3>1, ZenonT(30)
    <3> QED
      BY <3>2, Zenon
  <2>5. ASSUME NEW j \in 1..(n - 1), peer_queue'[j] = b
        PROVE  \E i \in 1..n : peer_queue[i] = b
    BY <1>1, <2>2, <2>5, ZenonT(30)
  <2> QED
    BY <1>1, <2>3, <2>4, <2>5, ZenonT(30)
<1> QED
  BY <1>1, <1>2, ZenonT(30) DEF Queued, n

\* The waiting line stays as it is.
LEMMA LineUnchanged ==
  ASSUME QueuedIsPending, \A a \in Addr \ MayConnectToUs : PendingOnce(a),
         UNCHANGED <<peer_queue, adder>>, SameSpawned,
         \A a \in Addr : state'[a] = "queued" => state[a] = "queued",
         \A a \in Addr \ MayConnectToUs : state[a] = "queued" => state'[a] = "queued"
  PROVE  QueuedIsPending' /\ \A a \in Addr \ MayConnectToUs : PendingOnce(a)'
<1>0. \A a \in Addr : Queued(a)' <=> Queued(a)
  BY Zenon DEF Queued
<1>1. \A a \in Addr : Pending(a)' <=> Pending(a)
  BY <1>0, Zenon DEF Pending, SameSpawned
<1>2. QueuedIsPending'
  BY <1>1, QueuedIsPendingAgain, ZenonT(30)
<1>3. ASSUME NEW a \in Addr \ MayConnectToUs
      PROVE  PendingOnce(a)'
  <2>1. QueuedOnce(a)' /\ WaitsOnce(a)
    BY Zenon DEF PendingOnce, QueuedOnce
  <2>2. WaitsOnce(a)'
    BY <1>0, <2>1, Zenon DEF WaitsOnce, SameSpawned
  <2> QED
    BY <2>1, <2>2, Zenon DEF PendingOnce
<1> QED
  BY <1>2, <1>3, Zenon
\* An address that is neither queued nor pending joins the queue.
LEMMA LineJoined ==
  ASSUME Shape, QueuedIsPending, \A a \in Addr \ MayConnectToUs : PendingOnce(a),
         NEW a \in Addr, state[a] # "queued", peer_queue' = Append(peer_queue, a),
         state' = [state EXCEPT ![a] = "queued"], UNCHANGED adder, SameSpawned
  PROVE  QueuedIsPending' /\ \A b \in Addr \ MayConnectToUs : PendingOnce(b)'
<1>0. \A b \in Addr : Queued(b)' <=> Queued(b) \/ b = a
  BY AppendQueued, Zenon
<1>s. state'[a] = "queued" /\ \A b \in Addr : b # a => state'[b] = state[b]
  BY Zenon DEF Shape
<1>1. QueuedIsPending'
  <2>1. \A b \in Addr : Pending(b) => Pending(b)'
    BY <1>0, Zenon DEF Pending, SameSpawned
  <2>2. Pending(a)'
    BY <1>0, Zenon DEF Pending
  <2> QED
    BY <1>s, <2>1, <2>2, QueuedIsPendingAgain, ZenonT(30)
<1>2. ASSUME NEW b \in Addr \ MayConnectToUs
      PROVE  PendingOnce(b)'
  <2>0. QueuedOnce(b) /\ WaitsOnce(b)
    BY <1>2, Zenon DEF PendingOnce
  <2>1. b = a => ~ Queued(b) /\ adder # b /\ \A t \in Task : ~ Spawned(t, b)
    BY <2>0, Zenon DEF WaitsOnce
  <2>2. ASSUME NEW i \in 1..Len(peer_queue'), NEW j \in 1..Len(peer_queue'),
               peer_queue'[i] = b, peer_queue'[j] = b
        PROVE  i = j
    <3> DEFINE n == Len(peer_queue)
    <3>1. n \in Nat /\ i \in 1..(n + 1) /\ j \in 1..(n + 1)
      BY <2>2, AppendQueued, ZenonT(30)
    <3>2. CASE b = a
      <4>1. \A k \in 1..n : peer_queue'[k] # b
        BY <2>1, <3>2, AppendQueued, ZenonT(30) DEF Queued
      <4>2. i \notin 1..n /\ j \notin 1..n
        BY <2>2, <4>1, Zenon
      <4> HIDE DEF n
      <4> QED
        BY <3>1, <4>2
    <3>3. CASE b # a
      <4>1. peer_queue'[n + 1] # b
        BY <3>3, AppendQueued, ZenonT(30)
      <4>2. i \in 1..n /\ j \in 1..n
        <5>1. i # n + 1 /\ j # n + 1
          BY <2>2, <4>1, Zenon
        <5> HIDE DEF n
        <5> QED
          BY <3>1, <5>1
      <4>3. peer_queue[i] = b /\ peer_queue[j] = b
        BY <2>2, <4>2, AppendQueued, Zenon
      <4> QED
        BY <2>0, <4>2, <4>3, ZenonT(30) DEF QueuedOnce
    <3> QED
      BY <3>2, <3>3, Zenon
  <2>3. /\ Queued(b)' => adder' # b
        /\ \A t \in Task : Spawned(t, b)' => ~ Queued(b)' /\ adder' # b
        /\ \A t, u \in Task : Spawned(t, b)' /\ Spawned(u, b)' => t = u
    BY <1>0, <2>0, <2>1, ZenonT(30) DEF WaitsOnce, SameSpawned
  <2>4. Queued(b)' \/ adder' = b \/ (\E t \in Task : Spawned(t, b)') => state'[b] = "queued"
    BY <1>0, <1>s, <2>0, ZenonT(30) DEF WaitsOnce, SameSpawned
  <2> QED
    BY <2>2, <2>3, <2>4, ZenonT(30) DEF PendingOnce, QueuedOnce, WaitsOnce
<1> QED
  BY <1>1, <1>2, ZenonT(30)

\* The adder takes the first address of the queue.
LEMMA LineServed ==
  ASSUME Shape, QueuedIsPending, \A a \in Addr \ MayConnectToUs : PendingOnce(a),
         peer_queue # << >>, peer_queue' = Tail(peer_queue), adder = NoAddr,
         adder' = Head(peer_queue), UNCHANGED state, SameSpawned
  PROVE  QueuedIsPending' /\ \A b \in Addr \ MayConnectToUs : PendingOnce(b)'
<1>0. \A b \in Addr : Queued(b) <=> Queued(b)' \/ b = Head(peer_queue)
  BY TailQueued, Zenon
<1>1. QueuedIsPending'
  <2>1. \A b \in Addr : Pending(b) => Pending(b)'
    BY <1>0, PeerAssumptions, Zenon DEF Pending, SameSpawned
  <2> QED
    BY <2>1, QueuedIsPendingAgain, Zenon
<1>2. ASSUME NEW b \in Addr \ MayConnectToUs
      PROVE  PendingOnce(b)'
  <2> DEFINE n == Len(peer_queue)
  <2>0. QueuedOnce(b) /\ WaitsOnce(b)
    BY <1>2, Zenon DEF PendingOnce
  <2>n. n \in Nat /\ n > 0 /\ Len(peer_queue') = n - 1 /\ Head(peer_queue) = peer_queue[1]
    BY TailQueued, Zenon
  <2>i. ASSUME NEW i \in 1..Len(peer_queue'), peer_queue'[i] = b
        PROVE  i \in Int /\ i + 1 \in 1..n /\ i + 1 # 1 /\ peer_queue[i + 1] = b
    <3>1. i \in 1..(n - 1)
      BY <2>n, <2>i, Zenon
    <3>2. peer_queue[i + 1] = b
      BY <2>i, <3>1, TailQueued, Zenon
    <3> HIDE DEF n
    <3> QED
      BY <2>n, <3>1, <3>2
  <2>2. ASSUME NEW i \in 1..Len(peer_queue'), NEW j \in 1..Len(peer_queue'),
               peer_queue'[i] = b, peer_queue'[j] = b
        PROVE  i = j
    <3>1. i + 1 = j + 1
      BY <2>2, <2>i, <2>0, Zenon DEF QueuedOnce
    <3> QED
      BY <2>2, <2>i, <3>1
  <2>3. Queued(b)' => Head(peer_queue) # b
    <3> SUFFICES ASSUME NEW i \in 1..Len(peer_queue'), peer_queue'[i] = b
                 PROVE  peer_queue[1] # b
      BY <2>n, Zenon DEF Queued
    <3>1. 1 \in 1..n
      BY <2>n
    <3> QED
      BY <2>0, <2>i, <3>1, Zenon DEF QueuedOnce
  <2>4. /\ Queued(b)' => adder' # b
        /\ \A t \in Task : Spawned(t, b)' => ~ Queued(b)' /\ adder' # b
        /\ \A t, u \in Task : Spawned(t, b)' /\ Spawned(u, b)' => t = u
    BY <1>0, <2>0, <2>3, Zenon DEF WaitsOnce, SameSpawned
  <2>5. Queued(b)' \/ adder' = b \/ (\E t \in Task : Spawned(t, b)') => state'[b] = "queued"
    BY <1>0, <2>0, Zenon DEF WaitsOnce, SameSpawned
  <2> QED
    BY <2>2, <2>4, <2>5, ZenonT(30) DEF PendingOnce, QueuedOnce, WaitsOnce
<1> QED
  BY <1>1, <1>2, Zenon

\* The adder gives its address to a task.
LEMMA LineSpawned ==
  ASSUME Shape, QueuedIsPending, \A a \in Addr \ MayConnectToUs : PendingOnce(a),
         NEW t \in Task, AdderSpawns(t)
  PROVE  QueuedIsPending' /\ \A b \in Addr \ MayConnectToUs : PendingOnce(b)'
<1>0. \A b \in Addr : Queued(b)' <=> Queued(b)
  BY Zenon DEF Queued, AdderSpawns
<1>1. /\ \A b \in Addr : Spawned(t, b)' <=> adder = b
      /\ \A u \in Task, b \in Addr : u # t => (Spawned(u, b)' <=> Spawned(u, b))
      /\ \A b \in Addr : ~ Spawned(t, b)
  BY Zenon DEF AdderSpawns, Spawned, FreeTask, Shape
<1>2. UNCHANGED state /\ adder' = NoAddr /\ adder \in Addr /\ NoAddr \notin Addr
  BY PeerAssumptions, Zenon DEF AdderSpawns, Shape
<1>3. QueuedIsPending'
  <2>1. \A b \in Addr : Pending(b) => Pending(b)'
    BY <1>0, <1>1, Zenon DEF Pending
  <2> QED
    BY <1>2, <2>1, QueuedIsPendingAgain, Zenon
<1>4. ASSUME NEW b \in Addr \ MayConnectToUs
      PROVE  PendingOnce(b)'
  <2>0. QueuedOnce(b) /\ WaitsOnce(b)
    BY <1>4, Zenon DEF PendingOnce
  <2>1. QueuedOnce(b)'
    BY <2>0, Zenon DEF QueuedOnce, AdderSpawns
  <2>2. /\ Queued(b)' => adder' # b
        /\ \A u \in Task : Spawned(u, b)' => ~ Queued(b)' /\ adder' # b
        /\ \A v, u \in Task : Spawned(v, b)' /\ Spawned(u, b)' => v = u
    BY <1>0, <1>1, <1>2, <2>0, ZenonT(30) DEF WaitsOnce
  <2>3. Queued(b)' \/ adder' = b \/ (\E u \in Task : Spawned(u, b)') => state'[b] = "queued"
    BY <1>0, <1>1, <1>2, <2>0, ZenonT(30) DEF WaitsOnce
  <2> QED
    BY <2>1, <2>2, <2>3, Zenon DEF PendingOnce, WaitsOnce
<1> QED
  BY <1>3, <1>4, Zenon

\* A spawned task takes its entry, or gives up.
LEMMA LineLeft ==
  ASSUME Shape, QueuedIsPending, \A a \in Addr \ MayConnectToUs : PendingOnce(a),
         NEW t \in Task, MarkPeerConnecting(t)
  PROVE  QueuedIsPending' /\ \A b \in Addr \ MayConnectToUs : PendingOnce(b)'
<1>a. PICK a \in Addr : task[t].addr = a
  BY Zenon DEF MarkPeerConnecting, Shape, FreeTask
<1>0. (\A b \in Addr : Queued(b)' <=> Queued(b)) /\ UNCHANGED <<peer_queue, adder>>
  BY Zenon DEF Queued, MarkPeerConnecting
<1>1. /\ \A b \in Addr : ~ Spawned(t, b)'
      /\ \A u \in Task, b \in Addr : u # t => (Spawned(u, b)' <=> Spawned(u, b))
      /\ Spawned(t, a) /\ \A b \in Addr : b # a => ~ Spawned(t, b)
  BY <1>a DEF MarkPeerConnecting, Spawned, Shape, NoTaskRecord
<1>2. state'[a] # "queued" /\ \A b \in Addr : b # a => state'[b] = state[b]
  BY <1>a, Zenon DEF MarkPeerConnecting, SetState, Shape
<1>3. QueuedIsPending'
  <2>1. \A b \in Addr : b # a => (Pending(b) => Pending(b)')
    BY <1>0, <1>1, Zenon DEF Pending
  <2> QED
    BY <1>2, <2>1, QueuedIsPendingAgain, ZenonT(30)
<1>4. ASSUME NEW b \in Addr \ MayConnectToUs
      PROVE  PendingOnce(b)'
  <2>0. QueuedOnce(b) /\ WaitsOnce(b)
    BY <1>4, Zenon DEF PendingOnce
  <2>1. QueuedOnce(b)'
    BY <1>0, <2>0, Zenon DEF QueuedOnce
  <2>2. /\ Queued(b)' => adder' # b
        /\ \A u \in Task : Spawned(u, b)' => ~ Queued(b)' /\ adder' # b
        /\ \A v, u \in Task : Spawned(v, b)' /\ Spawned(u, b)' => v = u
    BY <1>0, <1>1, <2>0, Zenon DEF WaitsOnce
  <2>3. Queued(b)' \/ adder' = b \/ (\E u \in Task : Spawned(u, b)') => state'[b] = "queued"
    <3>1. CASE b = a
      BY <1>0, <1>1, <2>0, <3>1, ZenonT(30) DEF WaitsOnce
    <3>2. CASE b # a
      BY <1>0, <1>1, <1>2, <2>0, <3>2, ZenonT(30) DEF WaitsOnce
    <3> QED
      BY <3>1, <3>2, ZenonT(30)
  <2> QED
    BY <2>1, <2>2, <2>3, ZenonT(30) DEF PendingOnce, WaitsOnce
<1> QED
  BY <1>3, <1>4, Zenon
\* try_send finds room for a new peer and for a dead one.
LEMMA SendSucceeds ==
  ASSUME CalmWorld, Shape, CountersMatch, QueueFits, NEW a \in Addr, TrySend(a),
         events < MaxEvents \/ state[a] = "dead"
  PROVE  peer_queue' = Append(peer_queue, a)
<1>1. Len(peer_queue) \in Nat /\ stats["dead"] \in Nat /\ {QueueCap, MaxEvents} \subseteq Nat
  BY DeadCount, PeerAssumptions DEF Shape
<1>2. state[a] = "dead" => stats["dead"] > 0
  BY DeadCount, Zenon
<1>3. Len(peer_queue) < QueueCap
  BY <1>1, <1>2 DEF CalmWorld, QueueFits
<1> QED
  BY <1>3, ZenonT(30) DEF TrySend, TrySendOk

LEMMA LineStep ==
  ASSUME CalmWorld, PeersInv, TasksAgree, QueueFits, QueuedIsPending, CalmNext,
         \A a \in Addr \ MayConnectToUs : PendingOnce(a)
  PROVE  QueuedIsPending' /\ \A a \in Addr \ MayConnectToUs : PendingOnce(a)'
<1> DEFINE Goal == QueuedIsPending' /\ \A a \in Addr \ MayConnectToUs : PendingOnce(a)'
<1>i. Shape /\ CountersMatch /\ ActiveEntryHasTask
  BY Zenon DEF PeersInv
<1>s. UNCHANGED task => SameSpawned
  BY Zenon DEF SameSpawned, Spawned
<1>q. UNCHANGED <<state, peer_queue, adder, task>> => Goal
  BY <1>s, LineUnchanged, Zenon
<1>f. ASSUME NEW t \in Task, ~ Spawned(t, task[t].addr), task'[t].pc # "spawned",
             \A u \in Task : u # t => task'[u] = task[u]
      PROVE  SameSpawned
  BY <1>f, Zenon DEF SameSpawned, Spawned
<1>1. ASSUME NEW a \in Addr, AddPeerIfNotSeen(a)
      PROVE  Goal
  <2>1. /\ state[a] = "absent" /\ TrySend(a) /\ events < MaxEvents /\ UNCHANGED <<adder, task>>
        /\ state' = [state EXCEPT ![a] = "queued"]
    BY <1>1, ZenonT(30) DEF AddPeerIfNotSeen, NewEntry, Disturb
  <2> QED
    BY <1>i, <1>s, <2>1, SendSucceeds, LineJoined, ZenonT(30)
<1>2. ASSUME NEW a \in Addr, NEW t \in Task, AddIncomingPeer(a, t)
      PROVE  Goal
  <2>1. /\ a \in MayConnectToUs /\ state' = [state EXCEPT ![a] = "live"]
        /\ UNCHANGED <<peer_queue, adder>>
    BY <1>2, Zenon DEF AddIncomingPeer, IncomingConnection, SetState, NewEntry
  <2>2. /\ ~ Spawned(t, task[t].addr) /\ task'[t].pc # "spawned"
        /\ \A u \in Task : u # t => task'[u] = task[u]
    BY <1>i, <1>2, Zenon DEF AddIncomingPeer, FreeTask, Spawned, Shape
  <2>3. \A b \in Addr : state'[b] = IF b = a THEN "live" ELSE state[b]
    BY <1>i, <2>1, Zenon DEF Shape
  <2> QED
    BY <1>f, <2>1, <2>2, <2>3, LineUnchanged
<1>3. ASSUME NEW a \in Addr, RequeueOne(a) \/ \E d \in Delay : WaitForPeer(a, d)
      PROVE  Goal
  <2>1. /\ UNCHANGED <<adder, task>>
        /\ \/ UNCHANGED <<state, peer_queue>>
           \/ state[a] = "dead" /\ TrySend(a) /\ state' = [state EXCEPT ![a] = "queued"]
    BY <1>3, Zenon DEF RequeueOne, WaitForPeer, SetState
  <2> QED
    BY <1>i, <1>q, <1>s, <2>1, SendSucceeds, LineJoined, ZenonT(30)
<1>4. ASSUME NEW a \in Addr, PruneDeadPeers(a) \/ ParkOne(a)
      PROVE  Goal
  <2>1. /\ UNCHANGED <<peer_queue, adder>>
        /\ \/ UNCHANGED state
           \/ /\ state[a] \in {"dead", "not_needed", "live"}
              /\ \E new \in {"absent", "not_needed"} : state' = [state EXCEPT ![a] = new]
    BY <1>4, Zenon DEF PruneDeadPeers, RemoveEntry, ParkOne, SetState
  <2>2. SameSpawned
    <3>1. CASE PruneDeadPeers(a)
      BY <1>i, <3>1, ZenonT(30) DEF PruneDeadPeers, Disowned, Shape, TaskRecord, SameSpawned, Spawned
    <3>2. CASE ParkOne(a)
      <4>1. UNCHANGED task \/ (tx[a] \in Task /\ task' = [task EXCEPT ![tx[a]].bye = TRUE])
        BY <1>i, <3>2, Zenon DEF ParkOne, ActiveEntryHasTask, Active
      <4>2. \A t \in Task : task'[t].pc = task[t].pc /\ task'[t].addr = task[t].addr
        <5>1. ASSUME NEW u \in Task, task' = [task EXCEPT ![u].bye = TRUE], NEW t \in Task
              PROVE  task'[t].pc = task[t].pc /\ task'[t].addr = task[t].addr
          BY <1>i, <5>1, Zenon DEF Shape, TaskRecord
        <5> QED
          BY <4>1, <5>1, Zenon
      <4> QED
        BY <4>2, Zenon DEF SameSpawned, Spawned
    <3> QED
      BY <1>4, <3>1, <3>2, Zenon
  <2>3. \A b \in Addr : state'[b] = "queued" <=> state[b] = "queued"
    BY <1>i, <2>1, Zenon DEF Shape
  <2> QED
    BY <2>1, <2>2, <2>3, LineUnchanged, ZenonT(30)
<1>5. ASSUME NEW t \in Task, AdderSpawns(t) \/ MarkPeerConnecting(t)
      PROVE  Goal
  BY <1>i, <1>5, LineSpawned, LineLeft, ZenonT(30)
<1>6. ASSUME NEW t \in Task, OnConnected(t) \/ OnHandshake(t)
      PROVE  Goal
  <2>1. /\ UNCHANGED <<peer_queue, adder>> /\ task[t].addr \in Addr
        /\ \/ UNCHANGED state
           \/ /\ state[task[t].addr] = "connecting"
              /\ state' = [state EXCEPT ![task[t].addr] = "live"]
    BY <1>i, <1>6, ZenonT(30) DEF OnConnected, OnHandshake, SetState, Shape, FreeTask
  <2>2. /\ ~ Spawned(t, task[t].addr) /\ task'[t].pc # "spawned"
        /\ \A u \in Task : u # t => task'[u] = task[u]
    BY <1>i, <1>6, ZenonT(30) DEF OnConnected, OnHandshake, Spawned, Shape, TaskRecord
  <2>3. \A b \in Addr : state'[b] = "queued" <=> state[b] = "queued"
    BY <1>i, <2>1, Zenon DEF Shape
  <2> QED
    BY <1>f, <2>1, <2>2, <2>3, LineUnchanged, ZenonT(30)
<1>7. ASSUME NEW t \in Task,
             OnExtendedHandshake(t) \/ AcquireNextPiece(t) \/ PieceCompleted(t)
      PROVE  Goal
  BY <1>7, <1>q, ZenonT(30) DEF OnExtendedHandshake, AcquireNextPiece, PieceCompleted
<1>8. ASSUME NEW t \in Task, NEW error \in BOOLEAN, OnPeerDied(t, error)
      PROVE  Goal
  <2>1. PICK a \in Addr : task[t].addr = a
    BY <1>i, <1>8, ZenonT(30) DEF OnPeerDied, Shape, FreeTask
  <2>2. Running(t)
    BY <1>8, ZenonT(30) DEF OnPeerDied, Running
  <2>3. state[a] \in Active \/ state[a] = "not_needed"
    BY <1>i, <2>1, <2>2, RunningTaskEntry, ZenonT(30) DEF TasksAgree
  <2>4. /\ task' = [task EXCEPT ![t] = NoTaskRecord] /\ UNCHANGED <<peer_queue, adder>>
        /\ \/ UNCHANGED state
           \/ \E new \in {"not_needed", "dead"} : state' = [state EXCEPT ![a] = new]
    BY <1>8, <2>1, <2>3, ZenonT(30) DEF OnPeerDied, SetState, Active
  <2>5. /\ ~ Spawned(t, task[t].addr) /\ task'[t].pc # "spawned"
        /\ \A u \in Task : u # t => task'[u] = task[u]
    BY <1>i, <2>2, <2>4, ZenonT(30) DEF Running, Spawned, Shape, NoTaskRecord
  <2>6. \A b \in Addr : state'[b] = "queued" <=> state[b] = "queued"
    BY <1>i, <2>3, <2>4, ZenonT(30) DEF Shape, Active
  <2> QED
    BY <1>f, <2>4, <2>5, <2>6, LineUnchanged, ZenonT(30)
<1>9. CASE AdderReceives
  <2>1. /\ peer_queue # << >> /\ peer_queue' = Tail(peer_queue) /\ adder = NoAddr
        /\ adder' = Head(peer_queue) /\ UNCHANGED <<state, task>>
    BY <1>9, Zenon DEF AdderReceives, CalmWorld
  <2> QED
    BY <1>i, <1>s, <2>1, LineServed, ZenonT(30)
<1>10. CASE UpdateOnlyFiles(TRUE) \/ PeerHealthMonitor
  BY <1>10, <1>q, Zenon DEF UpdateOnlyFiles, PeerHealthMonitor
<1> QED
  BY <1>1, <1>2, <1>3, <1>4, <1>5, <1>6, <1>7, <1>8, <1>9, <1>10, ZenonT(30) DEF CalmNext, TaskStep

-----------------------------------------------------------------------------
LEMMA CalmInvInit ==
  ASSUME Init
  PROVE  CalmInv
<1>1. PeersInv
  BY PeersInvInit, Zenon
<1>2. ParksWhenFinished /\ OwnerIsLivePeer /\ OutgoingIsOwn
  BY Zenon DEF Init, ParksWhenFinished, OwnerIsLivePeer, OutgoingIsOwn
<1>3. QueueFits
  BY PeerAssumptions DEF Init, QueueFits, PeerState
<1>4. QueuedIsPending /\ TasksAgree
  BY Zenon DEF Init, QueuedIsPending, TasksAgree, TaskOk, EntryOk, NoTaskRecord
<1>5. \A a \in Addr \ MayConnectToUs : PendingOnce(a)
  BY PeerAssumptions DEF Init, PendingOnce, QueuedOnce, WaitsOnce, Queued, Spawned, NoTaskRecord
<1> QED
  BY <1>1, <1>2, <1>3, <1>4, <1>5, ZenonT(30) DEF CalmInv

LEMMA CalmInvStep ==
  ASSUME CalmWorld, CalmInv, [CalmNext]_vars
  PROVE  CalmInv'
<1>1. PeersInv'
  BY CalmIsNext, PeersInvStep, ZenonT(30) DEF CalmInv
<1>2. CASE CalmNext
  <2>1. ParksWhenFinished' /\ OwnerIsLivePeer'
    BY <1>2, OwnersStep, ZenonT(30) DEF CalmInv, PeersInv
  <2>2. OutgoingIsOwn' /\ QueueFits'
    BY <1>2, OutgoingStep, QueueStep, ZenonT(30) DEF CalmInv, PeersInv, CalmWorld
  <2>3. TasksAgree'
    BY <1>2, AgreeStep, ZenonT(30) DEF CalmInv, PeersInv
  <2>4. QueuedIsPending' /\ \A a \in Addr \ MayConnectToUs : PendingOnce(a)'
    BY <1>2, LineStep, Zenon DEF CalmInv
  <2> QED
    BY <1>1, <2>1, <2>2, <2>3, <2>4, ZenonT(30) DEF CalmInv
<1>3. CASE UNCHANGED vars
  <2>1. ParksWhenFinished' /\ OwnerIsLivePeer' /\ OutgoingIsOwn' /\ QueueFits'
    BY <1>3, Zenon DEF CalmInv, ParksWhenFinished, OwnerIsLivePeer, OutgoingIsOwn, QueueFits, vars
  <2>2. TasksAgree'
    BY <1>3, Zenon DEF CalmInv, TasksAgree, TaskOk, EntryOk, vars
  <2>3. QueuedIsPending' /\ \A a \in Addr \ MayConnectToUs : PendingOnce(a)'
    <3>1. SameSpawned /\ UNCHANGED <<state, peer_queue, adder>>
      BY <1>3, Zenon DEF SameSpawned, Spawned, vars
    <3> QED
      BY <3>1, LineUnchanged, Zenon DEF CalmInv
  <2> QED
    BY <1>1, <2>1, <2>2, <2>3, ZenonT(30) DEF CalmInv
<1> QED
  BY <1>2, <1>3, ZenonT(30)

LEMMA CalmInvSuffices ==
  ASSUME CalmInv
  PROVE  PeersConsistent
<1>1. NoWrongState /\ ConnectedTaskIsLive
  BY Zenon DEF CalmInv, TasksAgree, TaskOk, NoWrongState, ConnectedTaskIsLive
<1>2. LiveOutgoingAreLive
  BY Zenon DEF CalmInv, OutgoingIsOwn, LiveOutgoingAreLive
<1> QED
  BY <1>1, <1>2, Zenon DEF CalmInv, PeersConsistent

\* Tasks and entries agree over deaths, parking, requeueing and retries, for any
\* number of peers and connections, as long as files are only deselected and CalmWorld
\* holds: on_peer_died finds no "wrong state", a connection that has shaken hands is the
\* one its Live entry talks to, no Queued peer is forgotten, PEX knows Live peers only,
\* and a piece in flight has a Live owner unless it was deselected and its owner parked.
THEOREM PeersStayConsistent ==
  ASSUME CalmWorld
  PROVE  CalmSpec => []PeersConsistent
<1>1. Init => CalmInv
  BY CalmInvInit, Zenon
<1>2. CalmInv /\ [CalmNext]_vars => CalmInv'
  BY CalmInvStep, Zenon
<1>3. CalmInv => PeersConsistent
  BY CalmInvSuffices, Zenon
<1> QED
  BY <1>1, <1>2, <1>3, PTL DEF CalmSpec
=============================================================================
