----------------------------- MODULE DhtUpkeep -----------------------------
(***************************************************************************)
(* How the DHT worker keeps its routing table alive: the pinger asks the   *)
(* nodes it is not sure of, the refresher looks for nodes in buckets that  *)
(* were quiet, lookups and queries of others mark nodes on the way.        *)
(*                                                                         *)
(* The model follows one node and its bucket.  Time is counted in rounds   *)
(* of the pinger (INACTIVITY_TIMEOUT / 4); a ping takes 10 seconds at most *)
(* and is over before the next round.                                      *)
(***************************************************************************)
EXTENDS Integers

CONSTANTS Inactivity,  \* INACTIVITY_TIMEOUT in rounds (4)
          Never        \* no such event

Cap == 2 * Inactivity + 1   \* bound: ages count no further

VARIABLES request,     \* age of last_request
          response,    \* age of last_response
          query,       \* age of last_query
          errors,      \* errors_in_a_row (two are as good as more)
          ping,        \* the pinger's ping of the node: "none", "queued" or "sent"
          pinger,      \* the pinger's timer is due
          silent,      \* the node has gone away for good
          bucket,      \* age of last_refreshed
          quiet,       \* rounds since the bucket was last refreshed or looked into
          round        \* rounds since the refresher's timer last fired

vars == <<request, response, query, errors, ping, pinger, silent, bucket, quiet, round>>

Older(age) == IF age = Never \/ age = Cap THEN age ELSE age + 1

----------------------------------------------------------------------------
\* status: the arms in their order.
Status ==
    IF request # Never /\ errors >= 2 THEN "Bad"
    ELSE IF /\ request # Never /\ response # Never
            /\ response < Inactivity \/ (query # Never /\ query < Inactivity)
         THEN "Good"
    ELSE IF /\ (query # Never /\ query > Inactivity) \/ (response # Never /\ response > Inactivity)
            /\ request = Never \/ request > Inactivity
         THEN "Questionable"
    ELSE "Unknown"

\* mark_response; get_mut refreshes the bucket.
Responds ==
    /\ ~silent
    /\ response' = 0 /\ errors' = 0 /\ bucket' = 0 /\ quiet' = 0
    /\ request' = IF request = Never THEN 0 ELSE request

Fails ==
    /\ errors' = IF errors = 2 THEN 2 ELSE errors + 1
    /\ UNCHANGED <<request, response, bucket, quiet>>

\* A mutant: nodes of which nothing is known are left alone.
DoubtfulQuestionable == Status = "Questionable"

Doubtful == Status \in {"Questionable", "Unknown"}

\* A round of the pinger.
PingerRound ==
    /\ pinger
    /\ pinger' = FALSE
    /\ ping' = IF Doubtful THEN "queued" ELSE ping
    /\ UNCHANGED <<request, response, query, errors, silent, bucket, quiet, round>>

\* mark_outgoing_request, the request, and its end.
Ping ==
    /\ ping = "queued"
    /\ ping' = "sent" /\ request' = 0
    /\ UNCHANGED <<response, query, errors, pinger, silent, bucket, quiet, round>>

PingEnds ==
    /\ ping = "sent"
    /\ ping' = "none"
    /\ Responds \/ Fails
    /\ UNCHANGED <<query, pinger, silent, round>>

\* on_request_start and on_request_end of a find_node lookup that reaches the node.
Lookup ==
    /\ \/ ~silent /\ request' = 0 /\ response' = 0 /\ errors' = 0 /\ bucket' = 0 /\ quiet' = 0
       \/ /\ request' = 0 /\ errors' = IF errors = 2 THEN 2 ELSE errors + 1
          /\ UNCHANGED <<response, bucket, quiet>>
    /\ UNCHANGED <<query, ping, pinger, silent, round>>

\* mark_last_query, for any query of the node.
Query ==
    /\ ~silent /\ query' = 0
    /\ UNCHANGED <<request, response, errors, ping, pinger, silent, bucket, quiet, round>>

\* insert_into_leaf: a node that enters the bucket refreshes it.
NodeAdded ==
    /\ bucket' = 0 /\ quiet' = 0
    /\ UNCHANGED <<request, response, query, errors, ping, pinger, silent, round>>

GoSilent ==
    /\ ~silent /\ silent' = TRUE
    /\ UNCHANGED <<request, response, query, errors, ping, pinger, bucket, quiet, round>>

Quiet == bucket >= Inactivity

\* The refresher's timer: buckets that were not refreshed are looked into.
RefresherRound ==
    /\ round = Inactivity
    /\ round' = 0
    /\ quiet' = IF Quiet THEN 0 ELSE quiet
    /\ UNCHANGED <<request, response, query, errors, ping, pinger, silent, bucket>>

\* A round of the pinger passes; what is due happens first.
Tick ==
    /\ ~pinger /\ ping = "none" /\ round < Inactivity
    /\ pinger' = TRUE /\ round' = round + 1
    /\ request' = Older(request) /\ response' = Older(response) /\ query' = Older(query)
    /\ bucket' = Older(bucket) /\ quiet' = Older(quiet)
    /\ UNCHANGED <<errors, ping, silent>>

----------------------------------------------------------------------------
\* A node that was just added, or that comes from a dump; the refresher skips its first tick.
Init ==
    /\ request = Never /\ response = Never /\ query = Never /\ errors = 0
    /\ ping = "none" /\ pinger = TRUE /\ silent = FALSE
    /\ bucket = 0 /\ quiet = 0 /\ round = 0

Worker == PingerRound \/ Ping \/ PingEnds \/ RefresherRound

Next == Worker \/ Lookup \/ Query \/ NodeAdded \/ GoSilent \/ Tick

Spec == Init /\ [][Next]_vars /\ WF_vars(PingerRound) /\ WF_vars(Ping) /\ WF_vars(PingEnds)
             /\ WF_vars(RefresherRound) /\ WF_vars(Tick)

----------------------------------------------------------------------------
(* Properties *)

\* A node that has gone away turns bad, and so makes room, whatever was known of it and whatever
\* lookups do meanwhile (pinger, dht.rs:1187-1242).
SilentTurnsBad == silent ~> Status = "Bad"

\* No bucket stays quiet for twice the timeout without being looked into (bucket_refresher,
\* dht.rs:1128-1185).
BucketsAreRefreshed == quiet < 2 * Inactivity
=============================================================================
