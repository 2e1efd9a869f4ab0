---------------------------- MODULE PeerSources -----------------------------
(***************************************************************************)
(* Where the addresses of peers of a torrent come from: the streams that   *)
(* Session::make_peer_rx merges from the DHT, the trackers and the local   *)
(* network, the tasks of the live torrent that drain them, and the         *)
(* rediscovery that replaces an exhausted stream.                          *)
(*                                                                         *)
(* A stream of the DHT never ends.  The monitor of a tracker ends only for *)
(* a URL it cannot use (`Broken'), and the local part ends when its sender *)
(* leaves the table of receivers.  Streams have numbers, which are used    *)
(* again once a stream has been dropped.                                   *)
(***************************************************************************)
EXTENDS Naturals, FiniteSets

CONSTANTS Trackers,         \* tracker URLs
          SessionTrackers,  \* trackers of the session, added to every public torrent
          Broken,           \* trackers whose monitor ends at once
          HasDht, HasLsd, Private, DisableTrackers,
          Streams           \* numbers of streams

NoStream == 0

VARIABLES phase,      \* the torrent: "paused", "checking" or "live"
          trackers,   \* ManagedTorrentShared.trackers
          streams,    \* per number: "free", "held" by the check, "adder", "added", or "cancelled"; its trackers
          receivers,  \* the stream in LocalServiceDiscovery.receivers for the info hash
          adder,      \* external_peer_adder: "none", "draining", "waiting" or "woken"
          permit,     \* rediscovery_notify holds a permit
          pending,    \* trackers add_trackers has inserted and not yet started
          cooled,     \* REDISCOVERY_COOLDOWN is over
          low,        \* fewer peers than MIN_PEERS_THRESHOLD
          finished,   \* finished, and no stream is read
          deaf,       \* a dropped stream has taken the receiver of a newer one along
          late        \* trackers added while the stream of the next start was already made

vars == <<phase, trackers, streams, receivers, adder, permit, pending, cooled, low, finished, deaf, late>>
network == <<receivers, deaf>>
signals == <<permit, cooled, low, finished>>

----------------------------------------------------------------------------
\* apply_tracker_policy
Policy(ts) == IF DisableTrackers THEN {} ELSE IF Private THEN ts ELSE ts \cup SessionTrackers

Dht == HasDht /\ ~Private
Lsd == HasLsd /\ ~Private
Free == {n \in Streams : streams[n].at = "free"}
Lowest == CHOOSE n \in Free : \A k \in Free : n <= k   \* streams are alike: any free number will do
Empty == [at |-> "free", trackers |-> {}]

\* make_peer_rx returns a stream when one of its sources does.
HasSource(ts) == Dht \/ Lsd \/ Policy(ts) # {}

\* announce_with_shared_port: the receiver is inserted, whatever was there.
Register(n) ==
    IF Lsd THEN receivers' = n /\ deaf' = FALSE
    ELSE UNCHANGED network

\* make_peer_rx(ts) for an owner, on a free number.
MakePeerRx(ts, owner) ==
    /\ Free # {}
    /\ streams' = [streams EXCEPT ![Lowest] = [at |-> owner, trackers |-> Policy(ts)]]
    /\ Register(Lowest)

\* Drop of AddrStream: the entry is removed by info hash, even that of a newer stream.
DropRx(n) ==
    IF Lsd THEN /\ receivers' = NoStream
                /\ deaf' = (deaf \/ receivers \notin {n, NoStream})
    ELSE UNCHANGED network

----------------------------------------------------------------------------
\* Session::unpause makes the stream, then starts: at once from the paused
\* state, after a check otherwise, which holds the stream meanwhile.
Unpause ==
    /\ phase = "paused"
    /\ \E checking \in BOOLEAN :
          /\ phase' = IF checking THEN "checking" ELSE "live"
          /\ IF HasSource(trackers)
             THEN /\ MakePeerRx(trackers, IF checking THEN "held" ELSE "adder")
                  /\ adder' = IF checking THEN "none" ELSE "draining"
             ELSE adder' = "none" /\ UNCHANGED <<streams, network>>
    /\ late' = {} /\ UNCHANGED <<trackers, pending, signals>>

CheckEnds ==
    /\ phase = "checking"
    /\ phase' = "live"
    /\ streams' = [n \in Streams |-> IF streams[n].at = "held" THEN [streams[n] EXCEPT !.at = "adder"] ELSE streams[n]]
    /\ adder' = IF \E n \in Streams : streams[n].at = "held" THEN "draining" ELSE "none"
    /\ UNCHANGED <<trackers, network, pending, late, signals>>

\* The tasks of the torrent are cancelled; their futures are dropped later.
Pause ==
    /\ phase \in {"live", "checking"}
    /\ phase' = "paused"
    /\ streams' = [n \in Streams |-> IF streams[n].at = "free" THEN Empty ELSE [at |-> "cancelled", trackers |-> {}]]
    /\ adder' = "none" /\ permit' = FALSE /\ late' = {}
    /\ UNCHANGED <<trackers, network, pending, cooled, low, finished>>

Dropped(n) ==
    /\ streams[n].at = "cancelled"
    /\ streams' = [streams EXCEPT ![n] = Empty]
    /\ DropRx(n)
    /\ UNCHANGED <<phase, trackers, adder, pending, late, signals>>

\* drain_peer_stream reaches the end of a stream whose sources have all ended.
Exhausted(n) ==
    /\ streams[n].at \in {"adder", "added"}
    /\ ~Dht /\ receivers # n /\ streams[n].trackers \subseteq Broken
    /\ streams' = [streams EXCEPT ![n] = Empty]
    /\ adder' = IF streams[n].at = "adder" THEN "waiting" ELSE adder
    /\ DropRx(n)
    /\ UNCHANGED <<phase, trackers, pending, late, signals>>

----------------------------------------------------------------------------
\* Session::add_trackers inserts what is new, persists, and then looks at the state.
AddTrackers(ts) ==
    /\ pending = {} /\ ts \ trackers # {}
    /\ \A n \in Streams : streams[n].at # "added"   \* bound: one such stream at a time
    /\ pending' = ts \ trackers
    /\ trackers' = trackers \cup ts
    /\ UNCHANGED <<phase, streams, network, adder, late, signals>>

\* The stream of the added trackers (and of the session's, the DHT and the
\* local network once more) has a task of its own: add_peer_stream.
StartAdded ==
    /\ pending # {}
    /\ pending' = {}
    /\ IF phase = "live" /\ HasSource(pending)
       THEN MakePeerRx(pending, "added")
       ELSE UNCHANGED <<streams, network>>
    /\ late' = IF phase = "checking" THEN late \cup (pending \cap trackers) ELSE late
    /\ UNCHANGED <<phase, trackers, adder, signals>>

\* remove_trackers: running monitors go on.
RemoveTracker(t) ==
    /\ t \in trackers
    /\ trackers' = trackers \ {t}
    /\ UNCHANGED <<phase, streams, network, adder, pending, late, signals>>

----------------------------------------------------------------------------
\* ManagedTorrent::reannounce leaves a permit for the adder.
Reannounce ==
    /\ phase = "live" /\ adder # "none"
    /\ permit' = TRUE
    /\ UNCHANGED <<phase, trackers, streams, network, adder, pending, late, cooled, low, finished>>

\* A mutant: the cooldown is never over.
CoolsNever == FALSE /\ UNCHANGED vars

Cools ==
    /\ ~cooled /\ cooled' = TRUE
    /\ UNCHANGED <<phase, trackers, streams, network, adder, permit, pending, low, finished, late>>

\* A round of task_peer_health_monitor that signals: only an adder that
\* waits right now notices (notify_waiters).
HealthMonitor ==
    /\ phase = "live" /\ ~finished /\ low /\ cooled
    /\ cooled' = FALSE
    /\ adder' = IF adder = "waiting" THEN "woken" ELSE adder
    /\ UNCHANGED <<phase, trackers, streams, network, permit, pending, low, finished, late>>

\* The adder wakes; unless the torrent is finished it makes a stream.
Rediscover ==
    /\ adder = "woken" \/ (adder = "waiting" /\ permit)
    /\ permit' = IF adder = "waiting" THEN FALSE ELSE permit
    /\ IF finished \/ ~HasSource(trackers)
       THEN adder' = "waiting" /\ UNCHANGED <<streams, network>>
       ELSE MakePeerRx(trackers, "adder") /\ adder' = "draining"
    /\ UNCHANGED <<phase, trackers, pending, late, cooled, low, finished>>

\* recv_and_process_one: a search of another client for this torrent; its
\* address goes to the receiver.
LsdHeard ==
    /\ receivers # NoStream
    /\ streams[receivers].at \in {"adder", "added"}
    /\ low /\ low' = FALSE
    /\ UNCHANGED <<phase, trackers, streams, network, adder, pending, permit, cooled, finished, late>>

\* Peers come and go, the download finishes, another file is selected.
PeersChange ==
    /\ \/ low' = ~low /\ UNCHANGED finished
       \/ finished' = ~finished /\ UNCHANGED low
    /\ UNCHANGED <<phase, trackers, streams, network, adder, permit, pending, cooled, late>>

Init ==
    /\ phase = "paused" /\ trackers = Broken
    /\ streams = [n \in Streams |-> Empty] /\ receivers = NoStream
    /\ adder = "none" /\ permit = FALSE /\ pending = {}
    /\ cooled = TRUE /\ low = TRUE /\ finished = FALSE
    /\ deaf = FALSE /\ late = {}

Next ==
    \/ Unpause \/ CheckEnds \/ Pause \/ StartAdded
    \/ Reannounce \/ Cools \/ HealthMonitor \/ Rediscover \/ LsdHeard \/ PeersChange
    \/ \E n \in Streams : Dropped(n) \/ Exhausted(n)
    \/ \E t \in Trackers : AddTrackers({t}) \/ RemoveTracker(t)

Spec == Init /\ [][Next]_vars

AnyDropped == \E n \in Streams : Dropped(n)

----------------------------------------------------------------------------
\* The streams a live torrent drains.
Drained == {n \in Streams : streams[n].at \in {"adder", "added"}}

\* While a torrent is live, the addresses heard on the local network go to a
\* stream it drains, unless the late drop of an old stream removed the entry;
\* and every usable tracker it is configured with has an announce loop, is
\* about to get one, or came while the check held the stream of the start.
SourcesFollowTorrent ==
    phase = "live" =>
        /\ Lsd /\ ~deaf /\ adder \notin {"none", "waiting", "woken"} => receivers \in Drained
        /\ receivers # NoStream => streams[receivers].at # "free"
        /\ ~DisableTrackers => \A t \in trackers \ (Broken \cup pending \cup late) :
                                  \E n \in Drained : t \in streams[n].trackers

\* A torrent that is short of peers and whose stream has run dry gets a new
\* stream, in spite of signals that are lost while nobody waits for them.
ShortageIsHeeded ==
    (phase = "live" /\ adder = "waiting" /\ low /\ ~finished)
    ~> (adder = "draining" \/ ~low \/ finished \/ phase # "live" \/ ~HasSource(trackers))

\* "Force an immediate re-announce to trackers (and a fresh peer discovery
\* from DHT/trackers)": what reannounce promises when it returns true.
ReannounceIsHeeded == permit ~> ~permit
=============================================================================
