------------------------------- MODULE MCDht -------------------------------
(***************************************************************************)
(* The parts of the DHT for TLC.  They share no state that their properties*)
(* are about (the routing table abstracts from who calls it, a lookup from *)
(* the transactions under it), so a behaviour moves one of them (`part').  *)
(***************************************************************************)
EXTENDS DhtRequests, PeerStore

CONSTANTS IdBits, Self, BucketSize, MaxSize, Known, MaxReplaced, MaxFailing, Nodes,
          Bootstrap, Knows, Roots, MaxDepth, Limit, MaxOpen, Inactivity, Never

VARIABLES part, data, treeSize, len, kind, queue, futs, useful, successes, status, request,
          response, query, errors, ping, pinger, silent, bucket, quiet, round

R == INSTANCE RoutingTable
L == INSTANCE DhtLookup
U == INSTANCE DhtUpkeep

tableVars == <<data, treeSize, len>>
lookupVars == <<kind, queue, futs, useful, successes, status>>
upkeepVars == <<request, response, query, errors, ping, pinger, silent, bucket, quiet, round>>
allVars == <<part, vars, storeVars, tableVars, lookupVars, upkeepVars>>

Acquaintances == [n \in 0..3 |-> CASE n = 0 -> <<3, 1>> [] n = 1 -> <<2>> [] n = 2 -> <<1, 3>> [] n = 3 -> <<2>>]
ClosestKnown == <<2>>


MCInit ==
    /\ part \in {"requests", "table", "lookup", "store", "upkeep"}
    /\ Init
    /\ StoreInit
    /\ R!Init
    /\ L!Init
    /\ part # "lookup" => kind = "find_node"
    /\ U!Init
MCNext ==
    /\ UNCHANGED part
    /\ \/ part = "requests" /\ Next /\ UNCHANGED <<storeVars, tableVars, lookupVars, upkeepVars>>
       \/ part = "store" /\ StoreNext /\ UNCHANGED <<vars, tableVars, lookupVars, upkeepVars>>
       \/ part = "table" /\ R!Next /\ UNCHANGED <<vars, storeVars, lookupVars, upkeepVars>>
       \/ part = "lookup" /\ L!Next /\ UNCHANGED <<vars, storeVars, tableVars, upkeepVars>>
       \/ part = "upkeep" /\ U!Next /\ UNCHANGED <<vars, storeVars, tableVars, lookupVars>>
Fairness ==
    /\ WF_lookupVars(part = "lookup" /\ L!Progress)
    /\ WF_upkeepVars(part = "upkeep" /\ U!PingerRound)
    /\ WF_upkeepVars(part = "upkeep" /\ U!Ping)
    /\ WF_upkeepVars(part = "upkeep" /\ U!PingEnds)
    /\ WF_upkeepVars(part = "upkeep" /\ U!RefresherRound)
    /\ WF_upkeepVars(part = "upkeep" /\ U!Tick)
MCSpec == MCInit /\ [][MCNext]_allVars /\ Fairness

\* What a lookup leaves behind, over any order of answers, errors and timeouts.
LookupIsSound == L!LookupIsSound

\* A find_node ends, although nodes that were asked a minute ago are asked again and everybody
\* may know everybody: the depth grows (request_one, dht.rs:503-515).
LookupEnds == part = "lookup" => L!LookupEnds

\* A node that has gone away turns bad, and so makes room, whatever was known of it and whatever
\* lookups do meanwhile (pinger, dht.rs:1187-1242).
SilentTurnsBad == part = "upkeep" => U!SilentTurnsBad

\* The tree of buckets is in order after any mixture of insertions, splits, replacements, errors
\* and reloads: ranges, order of iteration (test_iter_is_ordered) and the size that limits it; and
\* no bucket stays quiet for twice the timeout without being looked into (bucket_refresher,
\* dht.rs:1128-1185).
TableIsSound == R!TableIsSound /\ U!BucketsAreRefreshed
=============================================================================
