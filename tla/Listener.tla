---------------------------- MODULE Listener ----------------------------
(***************************************************************************)
(* The accept loop of a session (task_listener, check_incoming_connection) *)
(* with the lists of addresses it consults (IpRanges).  The checks of the  *)
(* connections are futures of the loop itself: they move only while the    *)
(* loop polls them.  A round of its select! ends with an accepted          *)
(* connection or with a check that succeeded; a check that failed matches  *)
(* no pattern, and for the rest of that round only accept is polled.       *)
(***************************************************************************)
EXTENDS Naturals, FiniteSets

CONSTANTS Conns,        \* connections; one that is over may come again
          AddrOf,       \* connection -> its address
          Top,          \* the largest address
          Blocked,      \* lines <<first, last>> of the blocklist
          Allowed,      \* lines of the allowlist, {} for none
          MaxHandshakes \* MAX_CONCURRENT_HANDSHAKES (64)

VARIABLES conn,         \* connection -> where it is
          polls,        \* the checks are polled in this round
          asleep        \* the loop sleeps after an error of accept

vars == <<conn, polls, asleep>>

\* A range that keeps the last address of its line as an exclusive end.
RangeOpen(line) == [from |-> line[1], to |-> line[2]]

\* parse_ip_range: a line becomes a half-open range, its end saturating.
Range(line) == [from |-> line[1], to |-> IF line[2] = Top THEN Top ELSE line[2] + 1]

\* IpRanges::has
Has(lines, ip) == \E l \in lines : Range(l).from <= ip /\ ip < Range(l).to

Init == conn = [c \in Conns |-> "away"] /\ polls = TRUE /\ asleep = FALSE

Checking == {c \in Conns : conn[c] = "checking"}
Move(c, to) == conn' = [conn EXCEPT ![c] = to]

\* A peer connects; the connection waits in the backlog of the socket.
Arrive(c) == conn[c] \in {"away", "served", "refused"} /\ Move(c, "arrived") /\ UNCHANGED <<polls, asleep>>

\* accept: with no permit left the connection is dropped at once.  Either way
\* the next round polls the checks again.
Accepted(c) ==
    /\ ~asleep /\ conn[c] = "arrived"
    /\ Move(c, IF Cardinality(Checking) < MaxHandshakes THEN "checking" ELSE "away")
    /\ polls' = TRUE /\ UNCHANGED asleep

AcceptFails == ~asleep /\ asleep' = TRUE /\ polls' = TRUE /\ UNCHANGED conn

Wake == asleep /\ asleep' = FALSE /\ UNCHANGED <<conn, polls>>

\* The lists let the address pass.
Admitted(c) ==
    /\ ~Has(Blocked, AddrOf[c])
    /\ Allowed = {} \/ Has(Allowed, AddrOf[c])

\* The handshake came, is not our own, and names a torrent that is live within
\* five seconds: add_incoming_peer.
Served(c) ==
    /\ ~asleep /\ polls /\ conn[c] = "checking" /\ Admitted(c)
    /\ Move(c, "served") /\ UNCHANGED <<polls, asleep>>

\* The check fails or times out; its permit is free, and the branch of the
\* checks is disabled until the round is over.
Refused(c) ==
    /\ ~asleep /\ polls /\ conn[c] = "checking"
    /\ Move(c, "refused") /\ polls' = FALSE /\ UNCHANGED asleep

Next ==
    \/ \E c \in Conns : Arrive(c) \/ Accepted(c) \/ Served(c) \/ Refused(c)
    \/ AcceptFails \/ Wake

Spec == Init /\ [][Next]_vars

-----------------------------------------------------------------------------

\* No connection is handed to a torrent from an address that a line of the
\* blocklist covers, or that no line of the allowlist does, first and last
\* address of the line included.  (A range that ends at the largest address
\* loses that address to the saturation at ip_ranges.rs:169.)
IncomingIsScreened ==
    \A c \in Conns : conn[c] = "served" /\ AddrOf[c] # Top =>
        /\ \A l \in Blocked : ~(l[1] <= AddrOf[c] /\ AddrOf[c] <= l[2])
        /\ Allowed = {} \/ \E l \in Allowed : l[1] <= AddrOf[c] /\ AddrOf[c] <= l[2]
=============================================================================
