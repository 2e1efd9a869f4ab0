--------------------------- MODULE PeerExchange ---------------------------
(* What a live torrent does with the messages of its peers: the dispatch of    *)
(* on_received_message, the waits of the requester it wakes, the addresses     *)
(* peers exchange (PEX, the task that tells a peer who else is connected) and  *)
(* the introduction of two peers to each other (holepunch). Requests, pieces   *)
(* and metadata themselves are in PeerConnection, LivePieces, MagnetResolver.  *)
EXTENDS Integers, Sequences, FiniteSets, SequencesExt

CONSTANTS Peers, AddrOf,          \* address of a peer: [v4, ip, port]
          Requesters,             \* peers whose requester is followed
          Local,                  \* peers with a loopback or private address
          HasPex, HasPunch, HasMetadata,   \* message ids the peer announced
          Pieces, Batch,          \* Batch: the 128 permits of an unchoke
          MaxSent, Privacy, Kinds,
          Octets4, Octets6, Base,
          MaxMsgs, MaxChanges, MaxQueue   \* bounds: messages received, arrivals, messages queued

VARIABLES private, live, outgoing, \* outgoing: live_outgoing_peers
          view, tx,               \* per peer: the set the PEX task keeps, its writer's queue
          known,                  \* addresses given to add_peer_if_not_seen
          field, first, choked, permits, req,
          said, told, stray,      \* history: announced to us, written to the peer, sent unrecorded
          msgs, changes

vars == <<private, live, outgoing, view, tx, known, field, first, choked, permits, req,
          said, told, stray, msgs, changes>>
connVars == <<live, outgoing, changes>>
pexVars == <<view, stray>>
wireVars == <<field, first, choked, permits, req, said>>

-----------------------------------------------------------------------------
(* ut_pex.rs and ut_holepunch.rs *)

V4(S) == {p \in S : AddrOf[p].v4}
V6(S) == S \ V4(S)
Pex(a, a6, d, d6) == [added |-> a, added6 |-> a6, dropped |-> d, dropped6 |-> d6]
FromAddrs(live_, closed) == Pex(V4(live_), V6(live_), V4(closed), V6(closed))
AddedPeers(m) == m.added \cup m.added6
DroppedPeers(m) == m.dropped \cup m.dropped6

MsgTypes == <<"rendezvous", "connect", "error">>
ErrorCodes == <<"no_such_peer", "not_connected", "no_support", "no_self">>
Punch(type, addr, err) == [type |-> type, addr |-> addr, err |-> err]
NumberOf(s, x) == CHOOSE i \in DOMAIN s : s[i] = x
ToBe(n) == <<n \div Base, n % Base>>

Serialize(m) == <<NumberOf(MsgTypes, m.type) - 1, IF m.addr.v4 THEN 0 ELSE 1>>
                \o m.addr.ip \o ToBe(m.addr.port)
                \o IF m.err = {} THEN <<>>
                   ELSE <<0, 0>> \o ToBe(NumberOf(ErrorCodes, CHOOSE e \in m.err : TRUE))

Deserialize(b) ==
    LET octets == IF b[2] = 0 THEN Octets4 ELSE Octets6
        rest == SubSeq(b, 2 + octets + 1, Len(b))
        code == rest[5] * Base + rest[6]
        isErr == MsgTypes[b[1] + 1] = "error"
    IN  IF Len(b) < 2 \/ b[1] \notin 0 .. 2 \/ b[2] \notin {0, 1} THEN {}
        ELSE IF Len(b) < 2 + octets + 2 THEN {}
        ELSE IF isErr /\ (Len(rest) < 6 \/ code \notin DOMAIN ErrorCodes) THEN {}
        ELSE {Punch(MsgTypes[b[1] + 1],
                    [v4 |-> b[2] = 0, ip |-> SubSeq(b, 3, 2 + octets), port |-> rest[1] * Base + rest[2]],
                    IF isErr THEN {ErrorCodes[code]} ELSE {})}

Nobody == Pex({}, {}, {}, {})
Write(kind, pex, bytes) == [kind |-> kind, pex |-> pex, bytes |-> bytes]
WritePex(m) == Write("pex", m, <<>>)
WritePunch(m) == Write("punch", Nobody, Serialize(m))

-----------------------------------------------------------------------------
(* Connections and the requester of a peer *)

Waiting(on) == [on |-> on, at |-> "take", woken |-> FALSE]
Asking == [on |-> "none", at |-> "ask", woken |-> FALSE]

Init == /\ private \in Privacy /\ live = {} /\ outgoing = {}
        /\ view = [p \in Peers |-> {}] /\ tx = [p \in Peers |-> <<>>] /\ known = {}
        /\ field = [p \in Peers |-> {}] /\ first = [p \in Peers |-> FALSE]
        /\ choked = [p \in Peers |-> TRUE] /\ permits = [p \in Peers |-> 0]
        /\ req = [p \in Peers |-> Waiting("bitfield")]
        /\ said = [p \in Peers |-> {}]
        /\ told = [p \in Peers |-> {}] /\ stray = [p \in Peers |-> {}]
        /\ msgs = 0 /\ changes = 0

\* set_state to Live: an address we once connected to is exchanged.
Connect(p, out) ==
    /\ p \notin live /\ changes < MaxChanges /\ changes' = changes + 1
    /\ live' = live \cup {p} /\ outgoing' = outgoing \cup (IF out THEN {p} ELSE {})
    /\ UNCHANGED <<private, pexVars, tx, known, wireVars, told, msgs>>

\* The handler, its tasks and the live state of the peer are gone.
Gone(p) ==
    /\ live' = live \ {p} /\ outgoing' = outgoing \ {p}
    /\ view' = [view EXCEPT ![p] = {}] /\ tx' = [tx EXCEPT ![p] = <<>>]
    /\ field' = [field EXCEPT ![p] = {}] /\ first' = [first EXCEPT ![p] = FALSE]
    /\ choked' = [choked EXCEPT ![p] = TRUE] /\ permits' = [permits EXCEPT ![p] = 0]
    /\ req' = [req EXCEPT ![p] = Waiting("bitfield")]
    /\ said' = [said EXCEPT ![p] = {}] /\ told' = [told EXCEPT ![p] = {}]
    /\ stray' = [stray EXCEPT ![p] = {}]
    /\ UNCHANGED <<private, known>>

Disconnect(p) == /\ p \in live /\ Gone(p) /\ UNCHANGED <<msgs, changes>>

\* wait_for_any_notify: the token is taken before the check.
Allocated(p) == field[p] # {}
Holds(p) == IF req[p].on = "bitfield" THEN Allocated(p) ELSE ~choked[p]
Past(p) == IF req[p].on = "bitfield" THEN Waiting("unchoke") ELSE Asking
Wait(p) ==
    /\ p \in live \cap Requesters
    /\ \/ /\ req[p].at = "take" /\ req' = [req EXCEPT ![p].at = "check"]
       \/ /\ req[p].at = "check"
          /\ req' = [req EXCEPT ![p] = IF Holds(p) THEN Past(p) ELSE [req[p] EXCEPT !.at = "checked"]]
       \/ /\ req[p].at = "checked" /\ req' = [req EXCEPT ![p].at = "await"]
       \/ /\ req[p].at = "await" /\ req[p].woken /\ req' = [req EXCEPT ![p] = Past(p)]
    /\ UNCHANGED <<private, connVars, pexVars, tx, known, field, first, choked, permits, said, told, msgs>>

\* One chunk request of task_peer_chunk_requester; after the last one of a
\* piece it waits for an unchoke again.
Ask(p) ==
    /\ p \in live /\ req[p].at = "ask" /\ permits[p] > 0
    /\ permits' = [permits EXCEPT ![p] = @ - 1]
    /\ \E r \in {Asking, Waiting("unchoke")} : req' = [req EXCEPT ![p] = r]
    /\ UNCHANGED <<private, connVars, pexVars, tx, known, field, first, choked, said, told, msgs>>

\* notify_waiters reaches every token taken, awaited or not.
NotifyAwaiting(r, on) == IF r.on = on /\ r.at = "await" THEN [r EXCEPT !.woken = TRUE] ELSE r
NotifyWaiters(r, on) == IF r.on = on /\ r.at \in {"check", "checked", "await"} THEN [r EXCEPT !.woken = TRUE] ELSE r

-----------------------------------------------------------------------------
(* on_received_message *)

Receives(p, kind) == p \in live /\ kind \in Kinds /\ msgs < MaxMsgs /\ msgs' = msgs + 1

\* Any message but a bitfield, when it is the first.
FirstMessage(p) ==
    /\ first' = [first EXCEPT ![p] = TRUE]
    /\ req' = [req EXCEPT ![p] = IF first[p] THEN @ ELSE NotifyWaiters(@, "bitfield")]

\* update_bitfield, then notify_waiters.
TakeBitfield(p, pieces) ==
    /\ field' = [field EXCEPT ![p] = {pieces}]
    /\ req' = [req EXCEPT ![p] = NotifyWaiters(@, "bitfield")]
    /\ UNCHANGED <<private, connVars, pexVars, tx, known, choked, permits, told>>

OnBitfield(p, pieces) ==
    /\ Receives(p, "bitfield") /\ TakeBitfield(p, pieces)
    /\ said' = [said EXCEPT ![p] = pieces] /\ UNCHANGED first

\* HaveAll and HaveNone: both make a bitfield of zeroes (make_piece_bitfield).
MakePieceBitfield == {}
HaveAll(p) ==
    /\ Receives(p, "have_all") /\ TakeBitfield(p, MakePieceBitfield)
    /\ first' = [first EXCEPT ![p] = TRUE] /\ said' = [said EXCEPT ![p] = Pieces]
HaveNone(p) ==
    /\ Receives(p, "have_none") /\ TakeBitfield(p, {})
    /\ first' = [first EXCEPT ![p] = TRUE] /\ said' = [said EXCEPT ![p] = {}]

\* A bitfield of the wrong size, a message that cannot be read.
Unreadable(p) == Receives(p, "unreadable") /\ Gone(p) /\ UNCHANGED changes

\* on_have allocates the bitfield; an index out of range (q outside Pieces) sets nothing.
OnHave(p, q) ==
    /\ Receives(p, "have")
    /\ LET old == IF Allocated(p) THEN CHOOSE f \in field[p] : TRUE ELSE MakePieceBitfield
       IN  TakeBitfield(p, old \cup ({q} \cap Pieces))
    /\ first' = [first EXCEPT ![p] = TRUE]
    /\ said' = [said EXCEPT ![p] = @ \cup ({q} \cap Pieces)]

OnChoke(p) ==
    /\ Receives(p, "choke") /\ FirstMessage(p) /\ choked' = [choked EXCEPT ![p] = TRUE]
    /\ UNCHANGED <<private, connVars, pexVars, tx, known, field, permits, said, told>>

OnUnchoke(p) ==
    /\ Receives(p, "unchoke")
    /\ choked' = [choked EXCEPT ![p] = FALSE] /\ permits' = [permits EXCEPT ![p] = @ + Batch]
    /\ first' = [first EXCEPT ![p] = TRUE]
    /\ req' = [req EXCEPT ![p] = NotifyWaiters(IF first[p] THEN @ ELSE NotifyWaiters(@, "bitfield"), "unchoke")]
    /\ UNCHANGED <<private, connVars, pexVars, tx, known, field, said, told>>

\* on_received_piece returns the permit; the rest of it is in LivePieces.
OnPiece(p) ==
    /\ Receives(p, "piece") /\ FirstMessage(p) /\ permits' = [permits EXCEPT ![p] = @ + 1]
    /\ UNCHANGED <<private, connVars, pexVars, tx, known, field, choked, said, told>>

\* KeepAlive, Port (a ping to the DHT), NotInterested, Cancel, the optional
\* messages of BEP 6 and unknown ones change nothing here; Interested is a
\* flag that only the decision to part from a peer reads.
OnOther(p) ==
    /\ Receives(p, "other") /\ ~first[p] /\ FirstMessage(p)
    /\ UNCHANGED <<private, connVars, pexVars, tx, known, field, choked, permits, said, told>>

\* send_metadata_piece; a piece out of bounds ends the connection.
OnMetadataRequest(p) ==
    /\ Receives(p, "metadata")
    /\ \/ /\ FirstMessage(p)
          /\ tx' = IF private THEN tx ELSE [tx EXCEPT ![p] = Append(@, Write("metadata", Nobody, <<>>))]
          /\ UNCHANGED <<private, connVars, pexVars, known, field, choked, permits, said, told>>
       \/ ~private /\ Gone(p) /\ UNCHANGED changes

\* on_pex_message: the peers that left are added like those that came.
OnPex(p, m) ==
    /\ Receives(p, "pex") /\ FirstMessage(p)
    /\ known' = IF private THEN known ELSE known \cup DroppedPeers(m) \cup AddedPeers(m)
    /\ UNCHANGED <<private, connVars, pexVars, tx, field, choked, permits, said, told>>

WithLive(addr) == {q \in live : AddrOf[q] = addr}
Send(q, m) == [tx EXCEPT ![q] = Append(@, WritePunch(m))]
Relayed(p, q) == [r \in Peers |-> tx[r] \o (IF r = q THEN <<WritePunch(Punch("connect", AddrOf[p], {}))>> ELSE <<>>)
                                        \o (IF r = p THEN <<WritePunch(Punch("connect", AddrOf[q], {}))>> ELSE <<>>)]
OnHolepunch(p, bytes) ==
    /\ Receives(p, "punch") /\ Deserialize(bytes) # {}
    /\ FirstMessage(p)
    /\ LET m == CHOOSE x \in Deserialize(bytes) : TRUE
       IN  /\ tx' = IF private \/ m.type # "rendezvous" THEN tx
                    ELSE IF WithLive(m.addr) = {} THEN Send(p, Punch("error", m.addr, {"not_connected"}))
                    ELSE Relayed(p, CHOOSE q \in WithLive(m.addr) : TRUE)
           /\ known' = IF private \/ m.type # "connect" THEN known
                       ELSE known \cup {q \in Peers : AddrOf[q] = m.addr}
    /\ UNCHANGED <<private, connVars, pexVars, field, choked, permits, said, told>>

\* A holepunch message that does not parse ends the connection.
BadHolepunch(p, bytes) ==
    /\ Receives(p, "punch") /\ Deserialize(bytes) = {} /\ Gone(p) /\ UNCHANGED changes

-----------------------------------------------------------------------------
(* task_send_pex_to_peer and the writer *)

\* What an iteration over a hash set gives first is anyone.
Take(S) == {T \in SUBSET S : Cardinality(T) = IF Cardinality(S) < MaxSent THEN Cardinality(S) ELSE MaxSent}
Shown(p, q) == p \in Local \/ q \notin Local
RecordForever(old, connected, dropped) == old \cup connected
Record(old, connected, dropped) == (old \ dropped) \cup connected

\* One tick: sent to the peer without the filter, recorded through it.
Tick(p) ==
    /\ p \in live /\ ~private /\ p \in HasPex /\ Len(tx[p]) < MaxQueue
    /\ \E connected \in Take(outgoing \ view[p]), dropped \in Take(view[p] \ outgoing) :
         /\ connected \cup dropped # {}
         /\ tx' = [tx EXCEPT ![p] = Append(@, WritePex(FromAddrs(connected, dropped)))]
         /\ view' = [view EXCEPT ![p] = Record(@, {q \in connected : Shown(p, q)}, dropped)]
         /\ stray' = [stray EXCEPT ![p] = @ \cup {q \in connected : ~Shown(p, q)}]
    /\ UNCHANGED <<private, connVars, known, wireVars, told, msgs>>

\* A message whose id the peer never announced cannot be written: the writer,
\* and with it the connection, ends.
Writable(p, kind) == p \in CASE kind = "pex" -> HasPex [] kind = "punch" -> HasPunch [] OTHER -> HasMetadata
Heard(old, m) == (old \ DroppedPeers(m)) \cup AddedPeers(m)
WriteNext(p) ==
    /\ p \in live /\ tx[p] # <<>>
    /\ IF Writable(p, Head(tx[p]).kind)
       THEN /\ tx' = [tx EXCEPT ![p] = Tail(@)]
            /\ told' = [told EXCEPT ![p] = Heard(@, Head(tx[p]).pex)]
            /\ UNCHANGED <<private, connVars, pexVars, known, wireVars>>
       ELSE Gone(p) /\ UNCHANGED changes
    /\ UNCHANGED msgs

-----------------------------------------------------------------------------
Punches == {Punch(t, AddrOf[q], {}) : t \in {"rendezvous", "connect"}, q \in Peers}
           \cup {Punch("error", AddrOf[q], {ErrorCodes[i]}) : q \in Peers, i \in DOMAIN ErrorCodes}
Wires == {Serialize(m) : m \in Punches}
Truncated == UNION {{SubSeq(b, 1, k) : k \in 2 .. Len(b) - 1} : b \in Wires}

Receive(p) ==
    /\ p \in live /\ msgs < MaxMsgs
    /\ \/ \E f \in SUBSET Pieces : OnBitfield(p, f)
       \/ HaveAll(p) \/ HaveNone(p) \/ Unreadable(p)
       \/ \E q \in Pieces \cup {Cardinality(Pieces) + 1} : OnHave(p, q)
       \/ OnChoke(p) \/ OnUnchoke(p) \/ OnPiece(p) \/ OnOther(p) \/ OnMetadataRequest(p)
       \/ \E a, d \in Peers : OnPex(p, FromAddrs({a}, {d}))
       \/ \E b \in Wires : OnHolepunch(p, b)
       \/ \E b \in Truncated : BadHolepunch(p, b)

Next == \E p \in Peers :
    \/ Connect(p, TRUE) \/ Connect(p, FALSE) \/ Disconnect(p)
    \/ Wait(p) \/ Ask(p) \/ Receive(p) \/ Tick(p) \/ WriteNext(p)

Spec == Init /\ [][Next]_vars

-----------------------------------------------------------------------------
\* What a peer believes once everything queued for it has been written.
Believes(p) == FoldLeft(LAMBDA old, w : Heard(old, w.pex), told[p], tx[p])

\* What peers say to the torrent and the torrent says of its peers. The requester
\* never sleeps through the event it waits for (wait_for_any_notify takes its
\* token before it checks): while it awaits unwoken, no bitfield is there, or
\* the peer chokes us. A peer is never believed to have what it did not announce
\* (on_bitfield, on_have). Whatever the rounds of task_send_pex_to_peer, cut at
\* MAX_SENT_PEERS, met by departures and returns in between, a peer has been told
\* exactly the set the task keeps for it, besides local addresses told to a
\* peer that is not local, and no message both adds and drops an address. A
\* private torrent tells and learns nothing, and what a holepunch message says
\* survives its encoding, while a truncated one is refused (no state is part of
\* that, so it is looked at before anybody connects).
ExchangeIsSound ==
    /\ \A p \in live :
         /\ req[p].at \in {"checked", "await"} /\ ~req[p].woken => ~Holds(p)
         /\ \A f \in field[p] : f \subseteq said[p]
         /\ Believes(p) = view[p] \cup stray[p]
         /\ stray[p] # {} => p \notin Local /\ stray[p] \subseteq Local
         /\ \A i \in DOMAIN tx[p] : LET m == tx[p][i].pex IN
              /\ AddedPeers(m) \cap DroppedPeers(m) = {}
              /\ Cardinality(AddedPeers(m)) <= MaxSent /\ Cardinality(DroppedPeers(m)) <= MaxSent
    /\ private => known = {} /\ \A p \in Peers : tx[p] = <<>> /\ told[p] = {}
    /\ changes = 0 => /\ \A m \in Punches : Deserialize(Serialize(m)) = {m}
                      /\ \A b \in Truncated : Deserialize(b) = {}

\* A peer that says it has every piece is taken to have them: BEP 6, which the
\* handshake announces, gives HaveAll no other meaning.
AllMeansAll == \A p \in live : \A f \in field[p] : said[p] = Pieces => f = Pieces
=============================================================================
