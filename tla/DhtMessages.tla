----------------------------- MODULE DhtMessages -----------------------------
(* The messages of the DHT: what is written for each kind, what the two passes  *)
(* of the reader make of it, and the compact form of addresses and nodes inside *)
(* them. A datagram may come from another implementation, which writes the same *)
(* message in another dialect, or cuts a list of nodes short.                   *)
(* An option is a set of at most one element. Octets count from 0 to Base - 1.  *)
EXTENDS Integers, Sequences, SequencesExt, FiniteSets

CONSTANTS Base, Octets4, Octets6, IdLen, \* 256, 4, 16 and 20 in the code
          Tids, Nodes, Args, Values      \* what the messages are made of

VARIABLES sent, wire, dialect, got

vars == <<sent, wire, dialect, got>>

------------------------------------------------------------------------------
(* compact_ip.rs.                                                               *)

Octets(v4) == IF v4 THEN Octets4 ELSE Octets6
ToBeBytes(n) == <<n \div Base, n % Base>>
FromBeBytes(b) == b[1] * Base + b[2]

SliceOfIp(a) == a.ip
IpOfSlice(b) == [v4 |-> Len(b) = Octets4, ip |-> b]

SliceOfV4(a) == SliceOfIp(a) \o ToBeBytes(a.port)
SliceOfV6(a) == SliceOfIp(a) \o ToBeBytes(a.port)
SliceOf(a) == IF a.v4 THEN SliceOfV4(a) ELSE SliceOfV6(a)
AddrOfSlice(v4, b) == [v4 |-> v4, ip |-> SubSeq(b, 1, Octets(v4)),
                       port |-> FromBeBytes(SubSeq(b, Octets(v4) + 1, Octets(v4) + 2))]

(* The length tells the families apart.                                        *)
FromSlice(b) == CASE Len(b) = Octets4 + 2 -> {AddrOfSlice(TRUE, b)}
                  [] Len(b) = Octets6 + 2 -> {AddrOfSlice(FALSE, b)}
                  [] OTHER -> {}

FixedLen(v4) == IdLen + Octets(v4) + 2
NodeSliceV4(n) == n.id \o SliceOfV4(n.addr)
NodeSliceV6(n) == n.id \o SliceOfV6(n.addr)
NodeOfSlice(v4, b) == [id |-> SubSeq(b, 1, IdLen), addr |-> AddrOfSlice(v4, SubSeq(b, IdLen + 1, Len(b)))]

NewFromIter(v4, ns) == FoldLeft(LAMBDA b, n : b \o IF v4 THEN NodeSliceV4(n) ELSE NodeSliceV6(n), <<>>, ns)

(* chunks_exact: a remainder would be dropped.                                 *)
Iter(v4, b) == LET w == FixedLen(v4)
               IN  [i \in 1 .. Len(b) \div w |-> NodeOfSlice(v4, SubSeq(b, (i - 1) * w + 1, i * w))]
ListIsWholeAnyway(v4, b) == TRUE
ListIsWhole(v4, b) == Len(b) % FixedLen(v4) = 0

------------------------------------------------------------------------------
(* bprotocol.rs.                                                               *)

TypeOf(kind) == CASE kind = "response" -> "r" [] kind = "error" -> "e" [] OTHER -> "q"
Requests == {"find_node", "get_peers", "ping", "announce_peer", "get", "put"}

WantToList(w) == CASE w = "v4" -> <<"n4">> [] w = "v6" -> <<"n6">> [] w = "both" -> <<"n4", "n6">> [] w = "none" -> <<>>
WantOfList(l) == LET v4 == "n4" \in Range(l)
                     v6 == "n6" \in Range(l)
                 IN  CASE v4 /\ v6 -> "both" [] v4 /\ ~v6 -> "v4" [] ~v4 /\ v6 -> "v6" [] OTHER -> "none"

(* The arguments of each request: those that must be there, those that may be. *)
Required(q) == CASE q = "find_node" -> {"id", "target"}
                 [] q = "get_peers" -> {"id", "info_hash"}
                 [] q = "ping" -> {"id"}
                 [] q = "announce_peer" -> {"id", "implied_port", "info_hash", "port", "token"}
                 [] q = "get" -> {"id", "target"}
                 [] q = "put" -> {"id", "token", "k", "sig", "seq", "v"}
Optional(q) == CASE q = "get" -> {"seq"} [] q = "put" -> {"salt", "cas"} [] OTHER -> {}
MayWant(q) == q \in {"find_node", "get_peers"}

Response(values, nodes, nodes6) == [values |-> values, nodes |-> nodes, nodes6 |-> nodes6]

(* A message, as the program holds it.                                         *)
Message(kind, tid, args, want, resp) ==
    [kind |-> kind, tid |-> tid, args |-> args, want |-> want, resp |-> resp]
Messages ==
    {Message(q, t, [x \in Required(q) \union o |-> Args], w, {}) :
        q \in Requests, t \in Tids, o \in SUBSET {"seq", "salt", "cas"},
        w \in {{}} \union {{x} : x \in {"v4", "v6", "both", "none"}}}
Legal(m) == /\ m.kind \in Requests => DOMAIN m.args \subseteq Required(m.kind) \union Optional(m.kind)
            /\ m.want # {} => MayWant(m.kind)
Responses == {Message("response", t, <<>>, {}, {Response(v, n, n6)}) :
                t \in Tids, v \in {{}} \union {{x} : x \in Values},
                n \in {{}} \union {{x} : x \in {ns \in Nodes : \A i \in DOMAIN ns : ns[i].addr.v4}},
                n6 \in {{}} \union {{x} : x \in {ns \in Nodes : \A i \in DOMAIN ns : ~ns[i].addr.v4}}}
Errors == {Message("error", t, <<>>, {}, {}) : t \in Tids}

(* RawMessage, and serialize_message: each kind sets its own fields and no other. *)
Raw(y, t, e, r, q, a, w) == [y |-> y, t |-> t, e |-> e, r |-> r, q |-> q, a |-> a, want |-> w]
RawResponse(r) == [values |-> {[i \in DOMAIN v |-> SliceOf(v[i])] : v \in r.values},
                   nodes |-> {NewFromIter(TRUE, n) : n \in r.nodes},
                   nodes6 |-> {NewFromIter(FALSE, n) : n \in r.nodes6}]
SerializeMessage(m) ==
    Raw(TypeOf(m.kind), m.tid,
        IF m.kind = "error" THEN {<<201, "text">>} ELSE {},
        {RawResponse(r) : r \in m.resp},
        IF m.kind \in Requests THEN {m.kind} ELSE {},
        IF m.kind \in Requests THEN {m.args} ELSE {},
        {WantToList(w) : w \in m.want})

(* The second pass, which reads the arguments of the method as its type.       *)
ReadArguments(q, raw) == {[x \in DOMAIN a \intersect (Required(q) \union Optional(q)) |-> a[x]] :
                             a \in {b \in raw.a : Required(q) \subseteq DOMAIN b}}
ReadRequest(q, raw) == {Message(q, raw.t, a, IF MayWant(q) THEN {WantOfList(l) : l \in raw.want} ELSE {}, {}) :
                           a \in ReadArguments(q, raw)}
ReadResponse(r) ==
    IF /\ \A v \in r.values : \A i \in DOMAIN v : FromSlice(v[i]) # {}
       /\ \A b \in r.nodes : ListIsWhole(TRUE, b)
       /\ \A b \in r.nodes6 : ListIsWhole(FALSE, b)
    THEN {Response({[i \in DOMAIN v |-> CHOOSE a \in FromSlice(v[i]) : TRUE] : v \in r.values},
                   {Iter(TRUE, b) : b \in r.nodes}, {Iter(FALSE, b) : b \in r.nodes6})}
    ELSE {}

(* deserialize_message: what must be there, and what must not, for each type.  *)
DeserializeMessage(raw) ==
    CASE raw.y = "q" -> IF raw.a # {} /\ raw.q # {} /\ raw.r = {} /\ raw.e = {}
                        THEN UNION {ReadRequest(q, raw) : q \in raw.q \intersect Requests} ELSE {}
      [] raw.y = "r" -> IF raw.a = {} /\ raw.r # {} /\ raw.e = {}
                        THEN {Message("response", raw.t, <<>>, {}, {x}) : x \in UNION {ReadResponse(r) : r \in raw.r}}
                        ELSE {}
      [] raw.y = "e" -> IF raw.a = {} /\ raw.r = {} /\ raw.e # {}
                        THEN {Message("error", raw.t, <<>>, {}, {})} ELSE {}
      [] OTHER -> {}

(* Our transactions are two octets; anything else was not ours.                *)
OurTransactionId(tid) == IF Len(tid) # 2 THEN {} ELSE {FromBeBytes(tid)}

------------------------------------------------------------------------------
None == {}

Init == /\ sent \in {m \in Messages : Legal(m)} \union Responses \union Errors
        /\ wire = None /\ dialect = "ours" /\ got = None

Send == /\ wire = None /\ wire' = {SerializeMessage(sent)} /\ UNCHANGED <<sent, dialect, got>>

(* Other implementations: a method name in a response or an error; arguments   *)
(* and wishes we do not know; a list of nodes that was cut.                    *)
Other == /\ dialect = "ours" /\ got = None
         /\ \E raw \in wire :
               \/ /\ raw.y # "q" /\ dialect' = "named"
                  /\ wire' = {[raw EXCEPT !.q = {"get_peers"}]}
               \/ /\ raw.y = "q" /\ dialect' = "extended"
                  /\ wire' = {[raw EXCEPT !.a = {[x \in DOMAIN b \union {"ro"} |-> Args] : b \in raw.a},
                                          !.want = {Append(l, "n9") : l \in raw.want}]}
               \/ /\ \E r \in raw.r : \E b \in r.nodes : \E n \in 0 .. Len(b) - 1 :
                        wire' = {[raw EXCEPT !.r = {[r EXCEPT !.nodes = {SubSeq(b, 1, n)}]}]}
                  /\ dialect' = "cut"
         /\ UNCHANGED <<sent, got>>

Receive == /\ wire # None /\ got = None
           /\ \E raw \in wire : got' = {[msg |-> DeserializeMessage(raw)]}
           /\ UNCHANGED <<sent, wire, dialect>>

Next == Send \/ Other \/ Receive

Spec == Init /\ [][Next]_vars

------------------------------------------------------------------------------
NodesOf(m) == UNION {Range(ns) : ns \in UNION {r.nodes \union r.nodes6 : r \in m.resp}}
AddrsOf(m) == UNION {Range(v) : v \in UNION {r.values : r \in m.resp}}

\* A message is read as what was sent, in our own dialect and in those of other
\* implementations that name the method in an answer (bprotocol.rs says it ignores
\* it) or add fields of their own; from a list of nodes that was cut, the message is
\* refused or holds only nodes that were sent, never one pieced together; and the
\* transaction that comes back is ours exactly when it has the two octets we gave it.
MessagesAreRead ==
    \A g \in got :
       /\ dialect # "cut" => g.msg = {sent}
       /\ \A m \in g.msg : /\ m.kind = sent.kind /\ m.tid = sent.tid
                           /\ NodesOf(m) \subseteq NodesOf(sent) /\ AddrsOf(m) = AddrsOf(sent)
                           /\ \A n \in OurTransactionId(m.tid) : ToBeBytes(n) = sent.tid
       /\ dialect = "cut" => \A m \in g.msg : \A r \in m.resp, b \in UNION {x.nodes : x \in m.resp} :
                                \A w \in wire : \A x \in w.r : \A y \in x.nodes : NewFromIter(TRUE, b) = y
=============================================================================
