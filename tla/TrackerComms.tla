---------------------------- MODULE TrackerComms ----------------------------
(***************************************************************************)
(* The announce loops of one torrent (TrackerComms): one per tracker, over *)
(* HTTP or UDP, which share a bounded channel of discovered addresses and  *)
(* the registry of statuses the API shows.                                 *)
(*                                                                         *)
(* A response is a batch of addresses, sent to the channel in one step; a  *)
(* UDP tracker is asked at its IPv4 and its IPv6 address at once, and what *)
(* lies under one such request is module UdpTrackerClient.                 *)
(***************************************************************************)
EXTENDS Naturals, FiniteSets

CONSTANTS Http, Udp,     \* trackers by the scheme of their URL
          Unsupported,   \* trackers of any other scheme
          Broken,        \* UDP trackers whose URL has no host or no port
          HasUdpClient,  \* no proxy: UDP trackers may be used
          Cap            \* batches the channel of addresses holds

ASSUME TrackersAssumption == Broken \subseteq Udp

Trackers == Http \cup Udp \cup Unsupported
Families == {"v4", "v6"}
States == {"none", "initializing", "paused", "live"}

VARIABLES torrent,   \* what TorrentStatsProvider::get reports: its state and completion
          stream,    \* the stream of addresses: "unmade", "made", "polled", "ended", "dropped"
          loop,      \* per tracker, the locals of its monitor
          leg,       \* per UDP tracker and family, the request under way
          chan,      \* batches in the channel
          status,    \* the registry: TrackerAnnounceState, or "unknown" without an entry
          told       \* trackers that have answered a "completed" since the torrent last changed

vars == <<torrent, stream, loop, leg, chan, status, told>>

----------------------------------------------------------------------------
Supported == Http \cup (IF HasUdpClient THEN Udp ELSE {})

\* The registry: record_updating only leaves NotContacted.
RecordUpdating(t) == IF status[t] = "NotContacted" THEN "Updating" ELSE status[t]

\* start_with_shared_announce_port: unusable trackers are recorded as
\* disabled and dropped; without any tracker left there is no stream.
Start ==
    /\ stream = "unmade"
    /\ stream' = IF Supported = {} THEN "ended" ELSE "made"
    /\ status' = [t \in Trackers |-> IF t \notin Supported THEN "Disabled"
                                     ELSE IF status[t] = "unknown" THEN "NotContacted" ELSE status[t]]
    /\ UNCHANGED <<torrent, loop, leg, chan, told>>

\* The body of the stream runs from its first poll on.
Poll ==
    /\ stream = "made"
    /\ stream' = "polled"
    /\ loop' = [t \in Trackers |-> IF t \in Supported THEN [loop[t] EXCEPT !.at = "head"] ELSE loop[t]]
    /\ UNCHANGED <<torrent, leg, chan, status, told>>

Yield ==
    /\ stream = "polled" /\ chan > 0
    /\ chan' = chan - 1
    /\ UNCHANGED <<torrent, stream, loop, leg, status, told>>

\* The stream is over when no monitor is left.
StreamEnds ==
    /\ stream = "polled" /\ \A t \in Supported : loop[t].at = "over"
    /\ stream' = "ended"
    /\ UNCHANGED <<torrent, loop, leg, chan, status, told>>

\* The consumer drops the stream, and all the monitors with it.
DropStream ==
    /\ stream \in {"made", "polled"}
    /\ stream' = "dropped"
    /\ UNCHANGED <<torrent, loop, leg, chan, status, told>>

At(t, a) == stream = "polled" /\ loop[t].at = a
Goto(t, a) == loop' = [loop EXCEPT ![t].at = a]

----------------------------------------------------------------------------
\* The event of an HTTP announce.  A torrent the session does not know is
\* complete: it has all of its zero bytes.
Event(t) ==
    IF loop[t].first THEN "started"
    ELSE IF torrent.state = "paused" THEN "stopped"
    ELSE IF torrent.complete /\ ~loop[t].was THEN "completed"
    ELSE "none"

\* task_single_tracker_monitor_http, from the head of the loop to its request.
HttpAnnounce(t) ==
    /\ At(t, "head")
    /\ loop' = [loop EXCEPT ![t] = [at |-> "asking", first |-> FALSE, was |-> torrent.complete, event |-> Event(t), addrs |-> {}]]
    /\ status' = [status EXCEPT ![t] = RecordUpdating(t)]
    /\ UNCHANGED <<torrent, stream, leg, chan, told>>

\* The replies of an HTTP tracker, as TrackerError and TrackerResponse tell
\* them apart: a failure, a body that cannot be parsed, addresses in either form.
HttpReply == {"failure", "unparsable", "compact", "dict"}

\* The request ends; every failure is retried later.
HttpAnswered(t) ==
    /\ At(t, "asking")
    /\ \E r \in HttpReply :
          IF r \in {"compact", "dict"}
          THEN /\ Goto(t, "sending")
               /\ told' = IF loop[t].event = "completed" THEN told \cup {t} ELSE told
               /\ UNCHANGED status
          ELSE /\ Goto(t, "backoff")
               /\ status' = [status EXCEPT ![t] = "Error"]
               /\ UNCHANGED told
    /\ UNCHANGED <<torrent, stream, leg, chan>>

\* A mutant: a retry computes the event afresh.
HttpRetryAfresh(t) ==
    /\ At(t, "backoff")
    /\ loop' = [loop EXCEPT ![t].at = "asking", ![t].event = Event(t)]
    /\ UNCHANGED <<torrent, stream, leg, chan, status, told>>

\* The retry repeats the request with the event of the first attempt.
HttpRetry(t) ==
    /\ At(t, "backoff")
    /\ Goto(t, "asking")
    /\ UNCHANGED <<torrent, stream, leg, chan, status, told>>

\* The addresses go into the channel, which may be full; then the success is recorded.
HttpDelivers(t) ==
    /\ At(t, "sending") /\ chan < Cap
    /\ chan' = chan + 1
    /\ Goto(t, "sleeping")
    /\ status' = [status EXCEPT ![t] = "Working"]
    /\ UNCHANGED <<torrent, stream, leg, told>>

Wakes(t) ==
    /\ At(t, "sleeping")
    /\ Goto(t, "head")
    /\ UNCHANGED <<torrent, stream, leg, chan, status, told>>

----------------------------------------------------------------------------
\* task_single_tracker_monitor_udp up to the lookup of the host; a URL
\* without host or port ends it.
UdpHead(t) ==
    /\ At(t, "head")
    /\ IF t \in Broken THEN Goto(t, "over") /\ UNCHANGED status
       ELSE Goto(t, "resolving") /\ status' = [status EXCEPT ![t] = RecordUpdating(t)]
    /\ UNCHANGED <<torrent, stream, leg, chan, told>>

\* udp_tracker_to_socket_addrs: the first address of each family; a failed
\* lookup falls back on the previous result, and is retried without one.
Resolved(t) == (SUBSET Families \ {{}}) \cup (IF loop[t].addrs = {} THEN {} ELSE {loop[t].addrs})

\* The event of a UDP announce is that of the torrent at the moment.
UdpEvent ==
    CASE torrent.state = "none" -> "none"
      [] torrent.state = "initializing" -> "started"
      [] torrent.state = "paused" -> "stopped"
      [] torrent.state = "live" -> IF torrent.complete THEN "completed" ELSE "started"

\* The addresses are known: all of them are asked at once.
UdpAnnounce(t) ==
    /\ At(t, "resolving")
    /\ \E a \in Resolved(t) :
          /\ loop' = [loop EXCEPT ![t].at = "asking", ![t].addrs = a]
          /\ leg' = [leg EXCEPT ![t] = [f \in Families |-> IF f \in a THEN [at |-> "asking", event |-> UdpEvent]
                                                           ELSE [at |-> "idle", event |-> "none"]]]
    /\ UNCHANGED <<torrent, stream, chan, status, told>>

\* tracker_one_request_udp: the answer of one address, or its error.
LegAnswered(t, f) ==
    /\ At(t, "asking") /\ leg[t][f].at = "asking"
    /\ \/ /\ leg' = [leg EXCEPT ![t][f].at = "sending"]
          /\ told' = IF leg[t][f].event = "completed" THEN told \cup {t} ELSE told
          /\ UNCHANGED status
       \/ /\ leg' = [leg EXCEPT ![t][f].at = "done"]
          /\ status' = [status EXCEPT ![t] = "Error"]
          /\ UNCHANGED told
    /\ UNCHANGED <<torrent, stream, loop, chan>>

LegDelivers(t, f) ==
    /\ At(t, "asking") /\ leg[t][f].at = "sending" /\ chan < Cap
    /\ chan' = chan + 1
    /\ leg' = [leg EXCEPT ![t][f].at = "done"]
    /\ status' = [status EXCEPT ![t] = "Working"]
    /\ UNCHANGED <<torrent, stream, loop, told>>

\* All addresses have answered or failed: sleep for the interval asked for,
\* the previous one or a minute.
UdpAnswered(t) ==
    /\ At(t, "asking") /\ \A f \in Families : leg[t][f].at \in {"done", "idle"}
    /\ Goto(t, "sleeping")
    /\ leg' = [leg EXCEPT ![t] = [f \in Families |-> [at |-> "idle", event |-> "none"]]]
    /\ UNCHANGED <<torrent, stream, chan, status, told>>

----------------------------------------------------------------------------
\* The torrent moves on between two looks at it (PeerRxTorrentInfo::get); a
\* torrent that is not in the session reports no bytes at all.
TorrentMoves ==
    /\ torrent' \in [state : States, complete : BOOLEAN] \ {torrent}
    /\ told' = {}
    /\ UNCHANGED <<stream, loop, leg, chan, status>>

Init ==
    /\ torrent = [state |-> "none", complete |-> TRUE]
    /\ stream = "unmade"
    /\ loop = [t \in Trackers |-> [at |-> "unborn", first |-> t \in Http, was |-> FALSE, event |-> "none", addrs |-> {}]]
    /\ leg = [t \in Trackers |-> [f \in Families |-> [at |-> "idle", event |-> "none"]]]
    /\ chan = 0
    /\ status = [t \in Trackers |-> "unknown"]
    /\ told = {}

HttpStep(t) == HttpAnnounce(t) \/ HttpRetry(t) \/ HttpDelivers(t) \/ Wakes(t)
UdpStep(t) ==
    \/ UdpHead(t) \/ UdpAnnounce(t) \/ UdpAnswered(t) \/ Wakes(t)
    \/ \E f \in Families : LegDelivers(t, f)

Next ==
    \/ Start \/ Poll \/ Yield \/ StreamEnds \/ DropStream \/ TorrentMoves
    \/ \E t \in Http : HttpStep(t) \/ HttpAnswered(t)
    \/ \E t \in Udp : UdpStep(t) \/ \E f \in Families : LegAnswered(t, f)

Spec == Init /\ [][Next]_vars

\* A tracker that is asked again and again answers some day.
HttpAnswers == \E t \in Http : HttpAnswered(t) /\ loop'[t].at = "sending"
UdpAnswers == \E t \in Udp : \E f \in Families : LegAnswered(t, f) /\ leg'[t][f].at = "sending"
Progress ==
    \/ \E t \in Http : HttpStep(t) \/ HttpAnswered(t)
    \/ \E t \in Udp : UdpStep(t) \/ \E f \in Families : LegAnswered(t, f)

\* A download that completes while its announce loops run is reported as
\* completed to every tracker that knew of it as incomplete, unless it is
\* paused, deleted or reselected first: through failed requests, which are
\* retried, and through a full channel.
CompletedIsAnnounced ==
    \A t \in Supported \ Broken :
        (stream = "polled" /\ ~loop[t].first /\ ~loop[t].was /\ torrent = [state |-> "live", complete |-> TRUE])
        ~> (t \in told \/ stream # "polled" \/ torrent # [state |-> "live", complete |-> TRUE])
=============================================================================
