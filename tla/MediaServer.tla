---------------------------- MODULE MediaServer -----------------------------
(***************************************************************************)
(* The UPnP media server: the tree of folders a client browses             *)
(* (upnp_server_adapter.rs), the subscriptions to changes of it            *)
(* (subscriptions.rs), and the advertisements that make it known           *)
(* (ssdp.rs).                                                              *)
(*                                                                         *)
(* A subscription has an entry in a map and a task with two branches: one  *)
(* waits for the timeout or a renewal, the other sends the update ids of a *)
(* broadcast channel to the subscriber.  Time is counted in quarters of a  *)
(* minute; what is ready runs before time passes, though in any order.     *)
(***************************************************************************)
EXTENDS Integers, Sequences, FiniteSets, SequencesExt, Bitwise

CONSTANTS Library,     \* sets of torrents to browse: functions from an id to the paths of its files
          IdBits,      \* bits of a torrent id in an object id (16)
          Sids,        \* ids of subscriptions
          Directory,   \* those to the content directory, which has updates
          Timeouts,    \* timeouts a client asks for, at most the default
          Channel,     \* capacity of the broadcast channel (32)
          MaxUpdates, MaxRenewals

MaxAge == 5            \* Cache-Control: max-age=75
NotifyInterval == 4    \* notify_interval: 60 seconds

VARIABLES subs,        \* the maps of subscriptions: the entries of both services
          task,        \* per subscription: its subscription-manager
          bus,         \* per subscription: the receiver of the broadcast channel
          peer,        \* per subscription: what the subscriber was told last
          updateId,    \* system_update_id
          sent,        \* the last id sent to the channel
          renewals,    \* renewals so far (bound)
          ssdp,        \* the announcer: "running", "deaf" or "ended", and the time to its next notification
          known        \* what a client's cache still gives the server, and if a notification was lost

vars == <<subs, task, bus, peer, updateId, sent, renewals, ssdp, known>>

----------------------------------------------------------------------------
(* The tree of a torrent: TorrentFileTree::build.  Nodes are numbered from *)
(* 0, the root; a folder is found again by its parent and name.            *)

Node(title, parent, file) == [title |-> title, parent |-> parent, file |-> file]
None == -1

IsSingleFileAtRoot(paths) == Len(paths) = 1 /\ Len(paths[1]) = 1

Folder(nodes, parent, name) ==
    {n \in DOMAIN nodes : nodes[n].parent = parent /\ nodes[n].title = name /\ nodes[n].file = None}

\* One component of the path of file `fid': the next parent, and the nodes.
Component(st, name, last, fid) ==
    LET new == Len(st.nodes)
        Pushed(file) == [nodes |-> Append(st.nodes, Node(name, st.parent, file)), parent |-> new]
        old == Folder(st.nodes, st.parent, name)
    IN IF last THEN Pushed(fid)
       ELSE IF old = {} THEN Pushed(None)
       ELSE [st EXCEPT !.parent = (CHOOSE n \in old : TRUE) - 1]

AddFile(nodes, path, fid) ==
    FoldLeftDomain(LAMBDA st, k : Component(st, path[k], k = Len(path), fid),
                   [nodes |-> nodes, parent |-> 0], path).nodes

Build(paths) ==
    IF IsSingleFileAtRoot(paths) THEN <<Node(paths[1][1], None, 0)>>
    ELSE FoldLeftDomain(LAMBDA nodes, f : AddFile(nodes, paths[f], f - 1), <<Node("torrent", None, None)>>, paths)

\* encode_id and decode_id: the torrent is in the low bits, from 1.
EncodeId(local, torrent) == (local * 2 ^ IdBits) | (torrent + 1)
DecodeId(id) == [local |-> id \div 2 ^ IdBits, torrent |-> (id % 2 ^ IdBits) - 1]

AFolder == <<>>

\* as_item_or_container for node n of torrent t: the file it shows, or a folder.
AsObject(nodes, n, t) ==
    LET node == nodes[n + 1] IN
    [id     |-> EncodeId(n, t),
     title  |-> node.title,
     parent |-> IF node.parent = None THEN 0 ELSE EncodeId(node.parent, t),
     shows  |-> IF node.file = None THEN AFolder ELSE <<t, node.file>>]

\* build_root: torrents whose metadata is known; those of one file are items.
BuildRoot(lib) ==
    {IF IsSingleFileAtRoot(lib[t]) THEN AsObject(Build(lib[t]), 0, t)
     ELSE [id |-> t + 1, title |-> "torrent", parent |-> 0, shows |-> AFolder] : t \in {x \in DOMAIN lib : lib[x] # <<>>}}

\* build_impl, for children or for the object itself.
Browse(lib, id, metadata) ==
    LET d == DecodeId(id)
        nodes == Build(lib[d.torrent])
        own == {AsObject(nodes, d.local, d.torrent)}
    IN IF id = 0 THEN IF metadata THEN {[id |-> 0, title |-> "root", parent |-> None, shows |-> AFolder]} ELSE BuildRoot(lib)
       ELSE IF d.torrent \notin DOMAIN lib THEN {}
       ELSE IF lib[d.torrent] = <<>> \/ d.local >= Len(nodes) THEN {}
       ELSE IF metadata \/ nodes[d.local + 1].file # None THEN own
       ELSE {AsObject(nodes, n, d.torrent) : n \in {k \in 0..Len(nodes) - 1 : nodes[k + 1].parent = d.local}}

----------------------------------------------------------------------------
NoEntry == [timeout |-> 0, seq |-> None]
NoTask == [at |-> "none", timer |-> 0, woken |-> FALSE, sending |-> None, promised |-> 0, excused |-> FALSE]
Untold == [id |-> 0, missed |-> FALSE, back |-> FALSE, lagged |-> FALSE]

Init ==
    /\ subs = [s \in Sids |-> NoEntry]
    /\ task = [s \in Sids |-> NoTask]
    /\ bus = [s \in Sids |-> [ids |-> <<>>, lagged |-> FALSE]]
    /\ peer = [s \in Sids |-> Untold]
    /\ updateId = 0 /\ sent = 0 /\ renewals = 0
    /\ ssdp = [at |-> "running", next |-> 0]
    /\ known = [left |-> None, lost |-> FALSE]

Present(s) == subs[s] # NoEntry
Served(s) == task[s].at \in {"waiting", "refreshing"}
Running == ssdp.at \in {"running", "deaf"}

\* Create: the entry, the receiver and the task, which is not polled yet.
Create(s, t) ==
    /\ task[s].at = "none" /\ Running
    /\ subs' = [subs EXCEPT ![s] = [timeout |-> t, seq |-> 0]]
    /\ task' = [task EXCEPT ![s] = [NoTask EXCEPT !.at = "spawned", !.timer = t, !.promised = t]]
    /\ peer' = [peer EXCEPT ![s].id = sent]
    /\ UNCHANGED <<bus, updateId, sent, renewals, ssdp, known>>

\* Renew: update_timeout wakes the task if it waits (notify_waiters).
Renew(s, t) ==
    /\ Present(s) /\ renewals < MaxRenewals
    /\ subs' = [subs EXCEPT ![s].timeout = t]
    /\ task' = [task EXCEPT ![s].woken = @ \/ task[s].at = "waiting", ![s].promised = t,
                            ![s].excused = task[s].at # "waiting" \/ task[s].timer = 0]
    /\ renewals' = renewals + 1
    /\ UNCHANGED <<bus, peer, updateId, sent, ssdp, known>>

\* The task is polled for the first time.
Start(s) ==
    /\ task[s].at = "spawned"
    /\ task' = [task EXCEPT ![s].at = "waiting"]
    /\ UNCHANGED <<subs, bus, peer, updateId, sent, renewals, ssdp, known>>

\* The branch of the renewal: the timeout is read, ...
Refresh(s) ==
    /\ task[s].at = "waiting" /\ task[s].woken
    /\ task' = [task EXCEPT ![s].at = "refreshing", ![s].woken = FALSE, ![s].timer = subs[s].timeout]
    /\ UNCHANGED <<subs, bus, peer, updateId, sent, renewals, ssdp, known>>

\* ... and the task waits again, with a new sleep.
Refreshed(s) ==
    /\ task[s].at = "refreshing"
    /\ task' = [task EXCEPT ![s].at = "waiting"]
    /\ UNCHANGED <<subs, bus, peer, updateId, sent, renewals, ssdp, known>>

\* The branch of the sleep: the entry is removed, and the notifier dropped.
Expire(s) ==
    /\ task[s].at = "waiting" /\ task[s].timer = 0
    /\ subs' = [subs EXCEPT ![s] = NoEntry]
    /\ task' = [task EXCEPT ![s].at = "expired", ![s].sending = None]
    /\ bus' = [bus EXCEPT ![s] = [ids |-> <<>>, lagged |-> FALSE]]
    /\ UNCHANGED <<peer, updateId, sent, renewals, ssdp, known>>

----------------------------------------------------------------------------
\* system_update_id_updater stores an id and then sends it.  The id is the time in seconds: ids
\* are numbered by the seconds that passed, and a clock that is set back is not modelled.
StoreId ==
    /\ Running /\ updateId = sent /\ updateId < MaxUpdates
    /\ updateId' = updateId + 1
    /\ UNCHANGED <<subs, task, bus, peer, sent, renewals, ssdp, known>>

\* A receiver that is full loses its oldest id.
Received(b, id) ==
    IF Len(b.ids) < Channel THEN [b EXCEPT !.ids = Append(@, id)]
    ELSE [ids |-> Append(Tail(b.ids), id), lagged |-> TRUE]

SendId ==
    /\ Running /\ sent # updateId
    /\ sent' = updateId
    /\ bus' = [s \in Sids |-> IF s \in Directory /\ Present(s) THEN Received(bus[s], updateId) ELSE bus[s]]
    /\ UNCHANGED <<subs, task, peer, updateId, renewals, ssdp, known>>

\* The notifier receives an id, or learns that it lagged: then it uses two
\* sequence numbers and sends the current id.
TakeId(s) ==
    /\ Served(s) /\ task[s].sending = None /\ (bus[s].lagged \/ bus[s].ids # <<>>)
    /\ subs' = [subs EXCEPT ![s].seq = @ + (IF bus[s].lagged THEN 2 ELSE 1)]
    /\ task' = [task EXCEPT ![s].sending = IF bus[s].lagged THEN updateId ELSE Head(bus[s].ids)]
    /\ bus' = [bus EXCEPT ![s] = [ids |-> IF @.lagged THEN @.ids ELSE Tail(@.ids), lagged |-> FALSE]]
    /\ peer' = [peer EXCEPT ![s].lagged = @ \/ bus[s].lagged]
    /\ UNCHANGED <<updateId, sent, renewals, ssdp, known>>

\* notify_system_id_update returns; an error is logged and the id is not sent again.
Notified(s, delivered) ==
    /\ Served(s) /\ task[s].sending # None
    /\ peer' = [peer EXCEPT ![s] =
                  IF delivered THEN [id |-> task[s].sending, missed |-> FALSE, lagged |-> @.lagged,
                                     back |-> @.back \/ task[s].sending < @.id]
                  ELSE [@ EXCEPT !.missed = TRUE]]
    /\ task' = [task EXCEPT ![s].sending = None]
    /\ UNCHANGED <<subs, bus, updateId, sent, renewals, ssdp, known>>

----------------------------------------------------------------------------
\* task_send_alive_notifies_periodically; a datagram may be lost.
SendAlive(lost) ==
    /\ Running /\ ssdp.next = 0
    /\ ssdp' = [ssdp EXCEPT !.next = NotifyInterval]
    /\ known' = IF lost THEN [known EXCEPT !.lost = TRUE] ELSE [left |-> MaxAge, lost |-> FALSE]
    /\ UNCHANGED <<subs, task, bus, peer, updateId, sent, renewals>>

\* An error of recv_from ends task_respond_on_msearches and nothing else.
RecvFails ==
    /\ ssdp.at = "running"
    /\ ssdp' = [ssdp EXCEPT !.at = "deaf"]
    /\ UNCHANGED <<subs, task, bus, peer, updateId, sent, renewals, known>>

\* matches_media_server, and an address that can be answered.
Answered(q) == q.discover /\ q.st \in {"root", "mediaserver"} /\ q.from = "routable"

\* process_incoming_message
MSearch(q) ==
    /\ ssdp.at = "running" /\ Answered(q)
    /\ known' = [known EXCEPT !.left = MaxAge]
    /\ UNCHANGED <<subs, task, bus, peer, updateId, sent, renewals, ssdp>>

\* The session's token is cancelled; every task notices by itself.
Shutdown ==
    /\ Running
    /\ ssdp' = [ssdp EXCEPT !.at = "stopping"]
    /\ UNCHANGED <<subs, task, bus, peer, updateId, sent, renewals, known>>

ByeBye(lost) ==
    /\ ssdp.at = "stopping"
    /\ ssdp' = [at |-> "ended", next |-> 0]
    /\ known' = IF lost THEN known ELSE [left |-> 0, lost |-> FALSE]
    /\ UNCHANGED <<subs, task, bus, peer, updateId, sent, renewals>>

Cancelled(s) ==
    /\ ~ Running /\ task[s].at \in {"spawned", "waiting", "refreshing"}
    /\ task' = [task EXCEPT ![s].at = "cancelled", ![s].sending = None]
    /\ UNCHANGED <<subs, bus, peer, updateId, sent, renewals, ssdp, known>>

Less(n) == IF n > 0 THEN n - 1 ELSE n

Tick ==
    /\ Running => ssdp.next > 0
    /\ \A s \in Sids : task[s].at \notin {"spawned", "refreshing"} /\ (task[s].at = "waiting" => ~ task[s].woken /\ task[s].timer > 0)
    /\ task' = [s \in Sids |-> [task[s] EXCEPT !.timer = Less(@), !.promised = Less(@)]]
    /\ ssdp' = [ssdp EXCEPT !.next = Less(@)]
    /\ known' = [known EXCEPT !.left = Less(@)]
    /\ UNCHANGED <<subs, bus, peer, updateId, sent, renewals>>

Searches == [discover : BOOLEAN, st : {"root", "mediaserver", "other"}, from : {"routable", "linklocal", "unknown"}]

Next ==
    \/ StoreId \/ SendId \/ RecvFails \/ Shutdown \/ Tick
    \/ \E lost \in BOOLEAN : SendAlive(lost) \/ ByeBye(lost)
    \/ \E q \in Searches : MSearch(q)
    \/ \E s \in Sids : \/ Start(s) \/ Refresh(s) \/ Refreshed(s) \/ Expire(s) \/ TakeId(s) \/ Cancelled(s)
                       \/ \E t \in Timeouts : Create(s, t) \/ Renew(s, t)
                       \/ \E delivered \in BOOLEAN : Notified(s, delivered)

Spec == Init /\ [][Next]_vars

----------------------------------------------------------------------------
\* What a client reaches from the root by browsing folders, three deep.
Deeper(lib, S) == S \cup UNION {Browse(lib, o.id, FALSE) : o \in {x \in S : x.shows = AFolder}}
Reached(lib) == Deeper(lib, Deeper(lib, Deeper(lib, Browse(lib, 0, FALSE))))

\* Browsing from the root finds every file of every torrent, once, under an
\* id of its own, in the folder it names as its parent, and the object by itself
\* is the one its folder listed, and files of one folder share it, as long as the
\* ids of torrents fit into their bits (upnp_server_adapter.rs).
EveryFileIsFound ==
    \A lib \in Library : (\A t \in DOMAIN lib : t + 1 < 2 ^ IdBits) =>
        LET found == Reached(lib) IN
        /\ \A t \in DOMAIN lib : \A f \in 1..Len(lib[t]) :
              Cardinality({o \in found : o.shows = <<t, f - 1>>}) = 1
        /\ \A o, p \in found : o.id = p.id => o = p
        /\ \A o, p \in found : o.shows = AFolder /\ p.shows = AFolder /\ o.parent # 0
                               /\ o.parent = p.parent /\ o.title = p.title => o = p
        /\ \A o \in found : o \in Browse(lib, o.parent, FALSE) /\ Browse(lib, o.id, TRUE) = {o}

\* A subscription lives as long as its subscriber was last promised, unless the
\* renewal came in the instant of its end or while the task was not waiting;
\* a subscriber that has everything and missed nothing knows the current id, and ids,
\* as long as the clock does not, go back only after a lag; and the server is known to whoever heard its
\* last notification.
SubscribersAreServed ==
    /\ \A s \in Sids :
         /\ task[s].at = "expired" => task[s].promised = 0 \/ task[s].excused
         /\ s \in Directory /\ Served(s) /\ bus[s].ids = <<>> /\ ~ bus[s].lagged /\ task[s].sending = None
            /\ ~ peer[s].missed => peer[s].id = sent \/ (peer[s].lagged /\ peer[s].id = updateId)
         /\ peer[s].back => peer[s].lagged
    /\ Running /\ ~ known.lost => known.left # 0

\* The media server as its clients see it: the tree of files, the subscriptions and
\* the advertisements (librtbit-upnp-serve, upnp_server_adapter.rs).
MediaIsServed ==
    /\ SubscribersAreServed
    /\ updateId = 0 /\ renewals = 0 /\ known.left = None /\ (\A s \in Sids : task[s].at = "none") => EveryFileIsFound
=============================================================================
