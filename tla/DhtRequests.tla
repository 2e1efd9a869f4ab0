---------------------------- MODULE DhtRequests ----------------------------
(***************************************************************************)
(* Requests of the DHT in flight, and the answers that find them.          *)
(*                                                                         *)
(* A request takes a permit of the rate limiter, a transaction number from *)
(* a counter that wraps around, and an entry in inflight_by_transaction_id *)
(* under (number, address).  It ends with an answer, a send error or a     *)
(* timeout, or its task is aborted.  An announce takes a number, but no    *)
(* permit and no entry.  Datagrams are lost, delayed and duplicated.       *)
(*                                                                         *)
(* Time is counted in refills of the rate limiter (100 ms).                *)
(***************************************************************************)
EXTENDS Integers, FiniteSets

CONSTANTS Addrs,     \* addresses of nodes
          TidSpace,  \* transaction numbers (2^16)
          Burst,     \* permits the rate limiter holds at most (250)
          Refill,    \* permits it gets per tick (25)
          Timeout,   \* RESPONSE_TIMEOUT in ticks (100)
          NetLife,   \* how long after its query an answer may still arrive
          MaxMade,   \* bound: requests
          MaxClock   \* bound: ticks

\* Between two uses of a number lie more requests than can be made, each with its announce,
\* while an answer is awaited or under way.
ASSUME DhtAssumption ==
    /\ TidSpace \in Nat /\ Burst \in Nat /\ Refill \in Nat
    /\ Timeout \in Nat /\ NetLife \in Nat /\ Timeout <= NetLife
    /\ TidSpace > 2 * (Burst + Refill * NetLife) + (Burst + Refill * Timeout) + 1

VARIABLES clock,     \* ticks
          tokens,    \* permits left
          next,      \* next_transaction_id, before it is cut to 16 bits
          made,      \* requests that took a permit
          waiting,   \* requests in progress: [nth, seq, addr, sent]
          inflight,  \* inflight_by_transaction_id: [tid, addr, for]
          replies,   \* answers under way: [tid, addr, for, sent]
          misled     \* history: a request got the answer to another query

vars == <<clock, tokens, next, made, waiting, inflight, replies, misled>>

Tid(seq) == seq % TidSpace
\* The answer of a node to the query that is sent now.
Reply(addr) == [tid |-> Tid(next), addr |-> addr, for |-> next, sent |-> clock]
Without(tid, addr) == {e \in inflight : ~(e.tid = tid /\ e.addr = addr)}

----------------------------------------------------------------------------
\* request: the entry takes the place of an older one with its key, which by WaitingIsTracked no
\* task waits on, so that no wait ends with a dropped sender; the node may or may not answer.
Request(addr) ==
    /\ tokens > 0 /\ made < MaxMade
    /\ tokens' = tokens - 1
    /\ made' = made + 1 /\ next' = next + 1
    /\ waiting' = waiting \cup {[nth |-> made, seq |-> next, addr |-> addr, sent |-> clock]}
    /\ inflight' = Without(Tid(next), addr)
                     \cup {[tid |-> Tid(next), addr |-> addr, for |-> next]}
    /\ replies' \in {replies, replies \cup {Reply(addr)}}
    /\ UNCHANGED <<clock, misled>>

\* on_request_end: an answer may be followed by an announce, which takes a number and is
\* answered, but has no entry; if it cannot be sent, the entry under its number is removed.
Announce(addr, rest, entries) ==
    \/ next' = next /\ replies' = rest /\ inflight' = entries
    \/ next' = next + 1 /\ replies' \in {rest, rest \cup {Reply(addr)}} /\ inflight' = entries
    \/ next' = next + 1 /\ replies' = rest /\ inflight' = entries \cap Without(Tid(next), addr)

\* A mutant: an answer is told by its address.
AnswersByAddr(m, e) == e.addr = m.addr

Answers(m, e) == e.tid = m.tid /\ e.addr = m.addr

\* on_received_message: the entry of this number and address is removed, its task gets the answer.
\* The datagram may come again.
Receive(m) ==
    /\ m \in replies
    /\ \E e \in inflight, rest \in {replies, replies \ {m}} :
         /\ Answers(m, e)
         /\ IF \E r \in waiting : r.seq = e.for
            THEN /\ waiting' = {r \in waiting : r.seq # e.for}
                 /\ misled' = (misled \/ e.for # m.for)
                 /\ Announce(m.addr, rest, inflight \ {e})
            ELSE /\ replies' = rest /\ inflight' = inflight \ {e}
                 /\ UNCHANGED <<next, waiting, misled>>
    /\ UNCHANGED <<clock, tokens, made>>

\* No entry: RequestNotFound.
ReceiveUnknown(m) ==
    /\ m \in replies
    /\ \A e \in inflight : ~Answers(m, e)
    /\ replies' = replies \ {m}
    /\ UNCHANGED <<clock, tokens, next, made, waiting, inflight, misled>>

\* The request gives up and removes the entry under its key.
GiveUp(r) ==
    /\ r \in waiting
    /\ waiting' = waiting \ {r}
    /\ inflight' = Without(Tid(r.seq), r.addr)
    /\ UNCHANGED <<clock, tokens, next, made, replies, misled>>

\* RESPONSE_TIMEOUT is over.
TimesOut(r) == clock = r.sent + Timeout /\ GiveUp(r)

\* on_send_error: the framer could not send the datagram, so there is no answer.
SendFails(r) ==
    /\ \A m \in replies : m.for # r.seq
    /\ GiveUp(r)

\* The task is aborted with its stream (Drop for RequestPeersStream); the entry stays.
Abort(r) ==
    /\ r \in waiting
    /\ waiting' = waiting \ {r}
    /\ UNCHANGED <<clock, tokens, next, made, inflight, replies, misled>>

\* A tick: timers that are due have fired, old datagrams are gone.
Tick ==
    /\ \A r \in waiting : clock < r.sent + Timeout
    /\ clock < MaxClock
    /\ clock' = clock + 1
    /\ tokens' = IF tokens + Refill <= Burst THEN tokens + Refill ELSE Burst
    /\ replies' = {m \in replies : clock < m.sent + NetLife}
    /\ UNCHANGED <<next, made, waiting, inflight, misled>>

----------------------------------------------------------------------------
Init ==
    /\ clock = 0 /\ tokens = Burst /\ next = 0 /\ made = 0
    /\ waiting = {} /\ inflight = {} /\ replies = {} /\ misled = FALSE

Next ==
    \/ \E addr \in Addrs : Request(addr)
    \/ \E m \in replies : Receive(m) \/ ReceiveUnknown(m)
    \/ \E r \in waiting : TimesOut(r) \/ SendFails(r) \/ Abort(r)
    \/ Tick

Spec == Init /\ [][Next]_vars

----------------------------------------------------------------------------
(* Properties *)

\* An answer reaches the request whose query it answers, although numbers are used again and
\* answers come late or twice (on_received_message against request, dht.rs:652-685).
AnswerReachesItsRequest == ~misled

\* Whoever waits has its entry: no other request's cleanup by key removes it.
WaitingIsTracked ==
    \A r \in waiting : [tid |-> Tid(r.seq), addr |-> r.addr, for |-> r.seq] \in inflight
=============================================================================
