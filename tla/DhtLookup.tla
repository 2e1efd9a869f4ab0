----------------------------- MODULE DhtLookup -----------------------------
(***************************************************************************)
(* A recursive lookup of the DHT: find_node, which fills the routing table *)
(* and ends, and get_peers, which goes on until its stream is dropped.     *)
(*                                                                         *)
(* A node is a number, its distance from the target; Bootstrap stands for  *)
(* an address whose identifier is unknown.  Requests are those of module   *)
(* DhtRequests; here each has an outcome.                                  *)
(***************************************************************************)
EXTENDS Integers, Sequences, SequencesExt, FiniteSets

CONSTANTS Nodes,      \* nodes, by distance
          Bootstrap,  \* the address a find_node starts from
          Knows,      \* the nodes that a node, or Bootstrap, answers with
          Roots,      \* the nodes of the routing table that are closest to the target
          MaxDepth,   \* max_depth (4)
          Limit,      \* useful_nodes_limit (32 or 256)
          MaxOpen     \* bound: futures left when a round of get_peers begins

VARIABLES kind,       \* "find_node" or "get_peers"
          queue,      \* node_rx: [id, depth]
          futs,       \* how many futures of request_one there are for a node, at a depth and a stage
          useful,     \* useful_nodes: [id, recent, responded, peers]
          successes,  \* some request_one returned Ok
          status      \* "running", "ok", "failed", "dropped"

vars == <<kind, queue, futs, useful, successes, status>>

----------------------------------------------------------------------------
(* The list of useful nodes *)

\* The sort key; distances differ, so the time of the response never decides.
Better(a, b) ==
    \/ a.peers /\ ~b.peers
    \/ a.peers = b.peers /\ a.responded /\ ~b.responded
    \/ a.peers = b.peers /\ a.responded = b.responded /\ a.id < b.id

Verdict(ask, list) == [ask |-> ask, list |-> list]
Entry(id) == [id |-> id, recent |-> TRUE, responded |-> FALSE, peers |-> FALSE]

\* should_request_node
ShouldRequestNode(list, id, depth) ==
    LET at == {i \in DOMAIN list : list[i].id = id}
        sorted == SortSeq(Append(list, Entry(id)), Better)
    IN IF depth >= MaxDepth THEN Verdict(FALSE, list)
       ELSE IF at # {}
            THEN LET i == CHOOSE i \in at : TRUE
                 IN Verdict(~list[i].recent, [list EXCEPT ![i].recent = TRUE])
       ELSE IF Len(sorted) <= Limit THEN Verdict(TRUE, sorted)
       ELSE Verdict(Last(sorted).id # id, Front(sorted))

\* mark_node_responded
MarkNodeResponded(list, id, peers) ==
    [i \in DOMAIN list |->
        IF list[i].id = id THEN [list[i] EXCEPT !.responded = TRUE, !.peers = peers] ELSE list[i]]

----------------------------------------------------------------------------
(* request_one *)

Fut == (Nodes \cup {Bootstrap}) \X (0..MaxDepth) \X {1, 2}
None == [f \in Fut |-> 0]
Open == {f \in Fut : futs[f] > 0}

\* The loop takes a node of the queue and makes a future for it.
Take ==
    /\ status = "running" /\ queue # <<>>
    /\ queue' = Tail(queue)
    /\ futs' = [futs EXCEPT ![<<Head(queue).id, Head(queue).depth, 1>>] = @ + 1]
    /\ UNCHANGED <<kind, useful, successes, status>>

\* The first request: what it returns, peers and nodes included, only marks the node.
First(f) ==
    /\ status = "running" /\ f \in Open /\ f[3] = 1
    /\ futs' = [futs EXCEPT ![f] = @ - 1, ![<<f[1], f[2], 2>>] = @ + 1]
    /\ \/ \E peers \in BOOLEAN : useful' = MarkNodeResponded(useful, f[1], peers)
       \/ UNCHANGED useful
    /\ UNCHANGED <<kind, queue, successes, status>>

\* A mutant: what a node knows is asked at the node's own depth.
NextDepthSame(f) == f[2]

NextDepth(f) == f[2] + 1

\* The nodes of a response are considered one by one.
Consider(f) ==
    LET after[k \in 0..Len(Knows[f[1]])] ==
          IF k = 0 THEN [list |-> useful, queue |-> queue]
          ELSE LET id == Knows[f[1]][k]
                   v == ShouldRequestNode(after[k - 1].list, id, f[2])
               IN [list |-> v.list,
                   queue |-> IF v.ask THEN Append(after[k - 1].queue, [id |-> id, depth |-> NextDepth(f)])
                             ELSE after[k - 1].queue]
    IN after[Len(Knows[f[1]])]

\* The second request is answered with nodes.
Second(f) ==
    /\ status = "running" /\ f \in Open /\ f[3] = 2
    /\ futs' = [futs EXCEPT ![f] = @ - 1]
    /\ LET considered == Consider(f)
       IN useful' = considered.list /\ queue' = considered.queue
    /\ successes' = TRUE
    /\ UNCHANGED <<kind, status>>

\* It fails or is answered with an error, or a find_node is answered with peers, for which there
\* is no receiver (peer_tx of find_node_for_routing_table).
SecondFails(f) ==
    /\ status = "running" /\ f \in Open /\ f[3] = 2
    /\ futs' = [futs EXCEPT ![f] = @ - 1]
    /\ UNCHANGED <<kind, queue, useful, successes, status>>

----------------------------------------------------------------------------
(* The loops *)

\* A mutant: the end of the futures is noticed before the queue.
FinishUnbiased ==
    /\ kind = "find_node" /\ status = "running"
    /\ futs = None
    /\ status' = IF successes THEN "ok" ELSE "failed"
    /\ UNCHANGED <<kind, queue, futs, useful, successes>>

\* find_node_for_routing_table: the select is biased towards the queue.
Finish ==
    /\ kind = "find_node" /\ status = "running"
    /\ queue = <<>> /\ futs = None
    /\ status' = IF successes THEN "ok" ELSE "failed"
    /\ UNCHANGED <<kind, queue, futs, useful, successes>>

\* get_peers_root, by the looper's timer.  Bound: a round begins when the queue is empty and at
\* most MaxOpen futures of earlier rounds are open.
GetPeersRoot ==
    /\ kind = "get_peers" /\ status = "running"
    /\ queue = <<>> /\ Cardinality(Open) <= MaxOpen /\ \A f \in Fut : futs[f] <= 1
    /\ queue' = [k \in DOMAIN Roots |-> [id |-> Roots[k], depth |-> 0]]
    /\ UNCHANGED <<kind, futs, useful, successes, status>>

\* A minute after a node was asked.
Expire(i) ==
    /\ status = "running" /\ i \in DOMAIN useful /\ useful[i].recent
    /\ useful' = [useful EXCEPT ![i].recent = FALSE]
    /\ UNCHANGED <<kind, queue, futs, successes, status>>

\* Drop for RequestPeersStream.
Drop ==
    /\ kind = "get_peers" /\ status = "running"
    /\ status' = "dropped" /\ queue' = <<>> /\ futs' = None
    /\ UNCHANGED <<kind, useful, successes>>

----------------------------------------------------------------------------
Init ==
    /\ kind \in {"find_node", "get_peers"}
    /\ queue = <<>> /\ useful = <<>> /\ successes = FALSE /\ status = "running"
    /\ futs = IF kind = "find_node" THEN [None EXCEPT ![<<Bootstrap, 0, 1>>] = 1] ELSE None

Progress ==
    \/ Take \/ Finish
    \/ \E f \in Open : First(f) \/ Second(f) \/ SecondFails(f)

Next ==
    \/ Progress \/ GetPeersRoot \/ Drop
    \/ \E i \in 1..Limit : Expire(i)

Spec == Init /\ [][Next]_vars /\ WF_vars(Progress)

----------------------------------------------------------------------------
(* Properties *)

\* A find_node ends, although nodes that were asked a minute ago are asked again and everybody
\* may know everybody: the depth grows (request_one, dht.rs:503-515).
LookupEnds == kind = "find_node" ~> status # "running"

\* When it ends, no node that it decided to ask is left in the queue, and no request is open
\* (the biased select, dht.rs:335-358).
NothingLeftUnasked == status \in {"ok", "failed"} => queue = <<>> /\ futs = None

\* The list of useful nodes names a node once and keeps to its limit, over any order of answers
\* (should_request_node, dht.rs:562-600).
ListIsSound ==
    /\ Len(useful) <= Limit
    /\ \A i, j \in DOMAIN useful : useful[i].id = useful[j].id => i = j

\* What a lookup leaves behind, over any order of answers, errors and timeouts.
LookupIsSound == NothingLeftUnasked /\ ListIsSound
=============================================================================
