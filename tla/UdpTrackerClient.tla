-------------------------- MODULE UdpTrackerClient --------------------------
(***************************************************************************)
(* The UDP client all announce loops share (UdpTrackerClient): a table of  *)
(* transactions in flight, a cache of connection ids, and one reader of    *)
(* the socket, which finds the waiting request by transaction number.      *)
(*                                                                         *)
(* Datagrams are lost, delayed, repeated and reordered.  Time is counted   *)
(* in the lifetime of a cached connection id.                              *)
(***************************************************************************)
EXTENDS Naturals, FiniteSets

CONSTANTS Calls,      \* announces and scrapes, each a task of its own
          Addr,       \* the address of the tracker a call goes to
          Tids,       \* transaction numbers
          Nothing,    \* no transaction, no connection id
          MaxSent,    \* bound: requests sent
          MaxIds,     \* bound: connection ids the trackers hand out
          MaxAge      \* age at which a cached connection id is no longer used (60 s)

Addrs == {Addr[c] : c \in Calls}

VARIABLES call,          \* per call: what it waits for, its guard, its connection id, the answer in its oneshot
          transactions,  \* transactions in flight: number |-> call
          connections,   \* cached connection ids by address
          issued,        \* per address, the ids it has handed out
          datagrams,     \* requests on the wire, and answers, which may come more than once
          sent,          \* requests sent
          crossed        \* a number was drawn again while an earlier use of it could still matter

vars == <<call, transactions, connections, issued, datagrams, sent, crossed>>

----------------------------------------------------------------------------
Idle == [at |-> "idle", tid |-> Nothing, cid |-> Nothing, answer |-> Nothing, n |-> 0]
InFlight(c) == call[c].tid # Nothing

Without(f, x) == [y \in DOMAIN f \ {x} |-> f[y]]

\* reserve_transaction_id and the send of request: the number is drawn among
\* those not in the table.  Ten draws that all hit the table end the call.
Request(c, to, kind, cid) ==
    /\ sent < MaxSent
    /\ \/ \E t \in Tids \ DOMAIN transactions :
             /\ call' = [call EXCEPT ![c] = [at |-> to, tid |-> t, cid |-> cid, answer |-> Nothing, n |-> sent + 1]]
             /\ transactions' = [x \in DOMAIN transactions \cup {t} |-> IF x = t THEN c ELSE transactions[x]]
             /\ datagrams' = datagrams \cup {[dir |-> "out", tid |-> t, addr |-> Addr[c], kind |-> kind, cid |-> cid, n |-> sent + 1]}
             /\ sent' = sent + 1
             /\ crossed' = (crossed \/ \E d \in datagrams : d.tid = t)
       \/ /\ DOMAIN transactions # {}
          /\ call' = [call EXCEPT ![c] = Idle]
          /\ UNCHANGED <<transactions, datagrams, sent, crossed>>

\* get_connection_id, called first by announce and by scrape: a cached id
\* that is young enough, or a connect request.
Begin(c) ==
    /\ call[c].at = "idle"
    /\ LET m == connections[Addr[c]] IN
          IF m.id # Nothing /\ m.age < MaxAge
          THEN Request(c, "announcing", "announce", m.id)
          ELSE Request(c, "connecting", "connect", Nothing)
    /\ UNCHANGED <<connections, issued>>

----------------------------------------------------------------------------
\* The tracker (external) answers a request it got: a connection id, the
\* peers, an error; an announce under an id that is not its own is an error.
Answer(d) ==
    /\ d.dir = "out"
    /\ \/ /\ d.kind = "connect" /\ Cardinality(UNION {issued[a] : a \in Addrs}) < MaxIds
          /\ LET id == Cardinality(UNION {issued[a] : a \in Addrs}) + 1 IN
                /\ issued' = [issued EXCEPT ![d.addr] = @ \cup {id}]
                /\ datagrams' = (datagrams \ {d}) \cup {[d EXCEPT !.dir = "in", !.cid = id]}
       \/ /\ d.kind = "announce" /\ d.cid \in issued[d.addr]
          /\ datagrams' = (datagrams \ {d}) \cup {[d EXCEPT !.dir = "in"]}
          /\ UNCHANGED issued
       \/ /\ datagrams' = (datagrams \ {d}) \cup {[d EXCEPT !.dir = "in", !.kind = "error"]}
          /\ UNCHANGED issued
    /\ UNCHANGED <<call, transactions, connections, sent, crossed>>

\* Response::parse: the action and the number come first; what follows and
\* cannot be parsed is Unknown, and is still delivered.
Parse(d) == {d, [d EXCEPT !.kind = "unknown"]}

\* run: the transaction leaves the table with its first answer.
Deliver(t) == Without(transactions, t)

\* The reader of the socket; the answer of no transaction is dropped.
Receive(d) ==
    /\ d.dir = "in" /\ d.tid \in DOMAIN transactions
    /\ \E r \in Parse(d) : call' = [call EXCEPT ![transactions[d.tid]].answer = r]
    /\ transactions' = Deliver(d.tid)
    /\ UNCHANGED <<connections, issued, datagrams, sent, crossed>>

\* Drop of TransactionIdGuard: the number leaves the table, whoever has it by now.
GuardDrops(c) == Without(transactions, call[c].tid)

\* A mutant: the guard is forgotten when its call is cancelled.
CancelLeaks(c) ==
    /\ InFlight(c) /\ call[c].answer = Nothing
    /\ call' = [call EXCEPT ![c] = Idle]
    /\ UNCHANGED <<transactions, connections, issued, datagrams, sent, crossed>>

\* The request times out after ten seconds, or its task is dropped with the stream.
Cancel(c) ==
    /\ InFlight(c) /\ call[c].answer = Nothing
    /\ call' = [call EXCEPT ![c] = Idle]
    /\ transactions' = GuardDrops(c)
    /\ UNCHANGED <<connections, issued, datagrams, sent, crossed>>

\* The sender of a request is gone when another guard has removed it.
SenderDead(c) ==
    /\ InFlight(c) /\ call[c].answer = Nothing
    /\ ~\E t \in DOMAIN transactions : transactions[t] = c
    /\ call' = [call EXCEPT ![c] = Idle]
    /\ transactions' = GuardDrops(c)
    /\ UNCHANGED <<connections, issued, datagrams, sent, crossed>>

\* get_connection_id gets its answer, stores the id and the call goes on; any
\* other answer than a connection id ends the call.
Connected(c) ==
    /\ call[c].at = "connecting" /\ call[c].answer # Nothing
    /\ transactions' = GuardDrops(c)
    /\ IF call[c].answer.kind = "connect"
       THEN /\ connections' = [connections EXCEPT ![Addr[c]] = [id |-> call[c].answer.cid, age |-> 0]]
            /\ call' = [call EXCEPT ![c] = [Idle EXCEPT !.at = "connected", !.cid = call[c].answer.cid]]
       ELSE /\ call' = [call EXCEPT ![c] = Idle]
            /\ UNCHANGED connections
    /\ UNCHANGED <<issued, datagrams, sent, crossed>>

\* announce: the second request, under the id just got.
Announce(c) ==
    /\ call[c].at = "connected"
    /\ Request(c, "announcing", "announce", call[c].cid)
    /\ UNCHANGED <<connections, issued>>

\* The call ends with the peers, or with an error for any other answer.
Announced(c) ==
    /\ call[c].at = "announcing" /\ call[c].answer # Nothing
    /\ transactions' = GuardDrops(c)
    /\ call' = [call EXCEPT ![c] = Idle]
    /\ UNCHANGED <<connections, issued, datagrams, sent, crossed>>

Tick ==
    /\ \E a \in Addrs : connections[a].id # Nothing /\ connections[a].age < MaxAge
    /\ connections' = [a \in Addrs |-> IF connections[a].age < MaxAge THEN [connections[a] EXCEPT !.age = @ + 1] ELSE connections[a]]
    /\ UNCHANGED <<call, transactions, issued, datagrams, sent, crossed>>

Init ==
    /\ call = [c \in Calls |-> Idle]
    /\ transactions = << >>
    /\ connections = [a \in Addrs |-> [id |-> Nothing, age |-> MaxAge]]
    /\ issued = [a \in Addrs |-> {}]
    /\ datagrams = {} /\ sent = 0 /\ crossed = FALSE

Next ==
    \/ \E c \in Calls : \/ Begin(c) \/ Cancel(c) \/ SenderDead(c)
                        \/ Connected(c) \/ Announce(c) \/ Announced(c)
    \/ \E d \in datagrams : Answer(d) \/ Receive(d)
    \/ Tick

Spec == Init /\ [][Next]_vars

----------------------------------------------------------------------------
\* Every transaction in the table belongs to a call that still waits on it,
\* so timeouts and dropped streams leave nothing behind; and unless a number
\* was drawn twice, a waiting call is in the table, the answer it gets is to
\* its own request, and the id it announces under is its tracker's.
UdpAnswersMatch ==
    /\ \A t \in DOMAIN transactions : InFlight(transactions[t]) /\ call[transactions[t]].tid = t
    /\ ~crossed => \A c \in Calls :
          /\ InFlight(c) /\ call[c].answer = Nothing => call[c].tid \in DOMAIN transactions
          /\ call[c].answer # Nothing => call[c].answer.n = call[c].n
          /\ call[c].cid # Nothing => call[c].cid \in issued[Addr[c]]
=============================================================================
