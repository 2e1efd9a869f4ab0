--------------------------- MODULE PortForwarder ----------------------------
(***************************************************************************)
(* UpnpPortForwarder: gateways are discovered over SSDP, their             *)
(* descriptions are fetched, and for every control URL a task keeps one    *)
(* mapping per port alive by renewing its lease at half time.              *)
(*                                                                         *)
(* run_forever is one task.  Its select polls the fetches, the managers    *)
(* and the channel of discovered locations together; a fetch that fails    *)
(* does not match the pattern of its branch, which switches that branch    *)
(* off until another branch completes, and only the channel can.           *)
(*                                                                         *)
(* Time is counted in quarters of the lease.  What is ready runs before    *)
(* time passes.                                                            *)
(***************************************************************************)
EXTENDS Integers, Sequences, FiniteSets

CONSTANTS Locations,   \* URLs of device descriptions
          Broken,      \* those that cannot be fetched or parsed
          UrlsOf,      \* per location: its WANIPConnection control URLs
          Ports,
          Nics, Dests  \* interfaces and destinations for LocalIp

Lease == 4
Half == Lease \div 2
NotYet == -1
MaxWaiting == 1           \* bound: responses that wait in the channel

VARIABLES inbox,       \* discover_rx
          endpoints,   \* locations being fetched
          deaf,        \* the branch of the fetches is switched off
          spawned,     \* spawned_tasks
          task,        \* per control URL and port: manage_port
          lease,       \* per control URL and port: what is left of the mapping in the gateway (NotYet: never made)
          trouble      \* mappings whose last renewal failed or took half a lease

vars == <<inbox, endpoints, deaf, spawned, task, lease, trouble>>

Urls == UNION {UrlsOf[l] : l \in Locations}
Mappings == Urls \X Ports

----------------------------------------------------------------------------
(* get_local_ip_relative_to.  An address is a family and two bits, of      *)
(* which a netmask keeps the first `mask' (-1: no netmask is known).       *)

\* masked_v4, masked_v6
Masked(bits, mask) == bits \div 2 ^ (2 - mask)

\* The arms of the match, in the order of their guards.
Matches(dest, nic, a) ==
    \/ dest.bits = a.ip.bits /\ dest.v4 = a.ip.v4
    \/ /\ dest.v4 /\ a.ip.v4 /\ a.mask >= 0
       /\ Masked(dest.bits, a.mask) = Masked(a.ip.bits, a.mask)
    \/ /\ ~ dest.v4 /\ ~ a.ip.v4
       /\ IF dest.scope > 0 THEN a.linkLocal /\ dest.scope = nic.index
          ELSE a.mask >= 0 => Masked(dest.bits, a.mask) = Masked(a.ip.bits, a.mask)

\* The first address that matches, in the order of the interfaces.
LocalIp(dest, nics) ==
    LET hits == {<<i, j>> \in UNION {{i} \X DOMAIN nics[i].addrs : i \in DOMAIN nics} :
                    Matches(dest, nics[i], nics[i].addrs[j])}
        First(h) == \A k \in hits : h[1] < k[1] \/ (h[1] = k[1] /\ h[2] <= k[2])
    IN {nics[h[1]].addrs[h[2]] : h \in {k \in hits : First(k)}}

----------------------------------------------------------------------------
Idle == [asking |-> FALSE, next |-> 0, took |-> 0, applied |-> FALSE]

Init ==
    /\ inbox = <<>> /\ endpoints = {} /\ deaf = FALSE /\ spawned = {}
    /\ task = [m \in Mappings |-> Idle]
    /\ lease = [m \in Mappings |-> NotYet]
    /\ trouble = {}

Managed == spawned \X Ports
Due(m) == ~ task[m].asking /\ task[m].next = 0

\* discover_once: a response that parses is sent to the channel.
Respond(l) ==
    /\ Len(inbox) < MaxWaiting
    /\ inbox' = Append(inbox, l)
    /\ UNCHANGED <<endpoints, deaf, spawned, task, lease, trouble>>

\* The channel's branch completes, and every branch is polled again.
Recv ==
    /\ inbox # <<>>
    /\ inbox' = Tail(inbox)
    /\ endpoints' = endpoints \cup {Head(inbox)}
    /\ deaf' = FALSE
    /\ UNCHANGED <<spawned, task, lease, trouble>>

\* parse_endpoint fails: Some(Err(_)) does not match.
FetchFails(l) ==
    /\ l \in endpoints /\ ~ deaf
    /\ endpoints' = endpoints \ {l}
    /\ deaf' = TRUE
    /\ UNCHANGED <<inbox, spawned, task, lease, trouble>>

\* A description arrives.  Control URLs that have a manager are skipped; if no
\* local address reaches the device, the others wait for the next discovery.
FetchEnds(l, reached) ==
    /\ l \in endpoints \ Broken /\ ~ deaf
    /\ endpoints' = endpoints \ {l}
    /\ spawned' = IF reached THEN spawned \cup UrlsOf[l] ELSE spawned
    /\ UNCHANGED <<inbox, deaf, task, lease, trouble>>

----------------------------------------------------------------------------
\* manage_port: the interval ticks and the next tick is set half a lease ahead.
Ask(m) ==
    /\ m \in Managed /\ Due(m)
    /\ task' = [task EXCEPT ![m] = [asking |-> TRUE, next |-> Half, took |-> 0, applied |-> FALSE]]
    /\ UNCHANGED <<inbox, endpoints, deaf, spawned, lease, trouble>>

\* The gateway adds the mapping, or renews it.
Applies(m) ==
    /\ task[m].asking /\ ~ task[m].applied
    /\ task' = [task EXCEPT ![m].applied = TRUE]
    /\ lease' = [lease EXCEPT ![m] = Lease]
    /\ trouble' = trouble \ {m}
    /\ UNCHANGED <<inbox, endpoints, deaf, spawned>>

\* forward_port returns; an error is logged and the loop goes on.
Returns(m) ==
    /\ task[m].asking
    /\ task' = [task EXCEPT ![m].asking = FALSE]
    /\ trouble' = IF task[m].applied THEN trouble ELSE trouble \cup {m}
    /\ UNCHANGED <<inbox, endpoints, deaf, spawned, lease>>

Less(n) == IF n > 0 THEN n - 1 ELSE n

\* A request has no deadline; how long it takes is counted up to half a lease.
Tick ==
    /\ \A m \in Managed : ~ Due(m)
    /\ task' = [m \in Mappings |->
                  [task[m] EXCEPT !.next = Less(@), !.took = IF task[m].asking /\ @ < Half THEN @ + 1 ELSE @]]
    /\ lease' = [m \in Mappings |-> Less(lease[m])]
    /\ trouble' = trouble \cup {m \in Managed : task[m].asking /\ task[m].took + 1 >= Half}
    /\ UNCHANGED <<inbox, endpoints, deaf, spawned>>

Next ==
    \/ Recv \/ Tick
    \/ \E l \in Locations : Respond(l) \/ FetchFails(l) \/ \E reached \in BOOLEAN : FetchEnds(l, reached)
    \/ \E m \in Mappings : Ask(m) \/ Applies(m) \/ Returns(m)

Spec == Init /\ [][Next]_vars

GatewayAnswers == \E l \in Locations \ Broken : Respond(l)
GatewayDescribes == \E l \in Locations \ Broken : FetchEnds(l, TRUE)
GatewayApplies == \E m \in Mappings : Applies(m)
AnyAsk == \E m \in Mappings : Ask(m)
AnyReturn == \E m \in Mappings : Returns(m)

----------------------------------------------------------------------------
\* The networks of the addresses of a family do not overlap.
Apart(nics) ==
    \A i, k \in DOMAIN nics : \A j \in DOMAIN nics[i].addrs, n \in DOMAIN nics[k].addrs :
        \/ <<i, j>> = <<k, n>>
        \/ nics[i].addrs[j].ip.v4 # nics[k].addrs[n].ip.v4
        \/ LET m == nics[i].addrs[j].mask IN
           m >= 0 /\ Masked(nics[i].addrs[j].ip.bits, m) # Masked(nics[k].addrs[n].ip.bits, m)

\* The address given to a gateway (and to a client of the media server) is of
\* the family and, over IPv4, of the network it was heard from; one of our own
\* addresses is answered with itself when networks do not overlap.
AddressIsReachable ==
    \A nics \in Nics, dest \in Dests :
        /\ \A a \in LocalIp(dest, nics) :
              /\ a.ip.v4 = dest.v4
              /\ dest.v4 /\ a.ip.bits # dest.bits => Masked(dest.bits, a.mask) = Masked(a.ip.bits, a.mask)
        /\ Apart(nics) /\ dest.scope = 0 => \A i \in DOMAIN nics : \A j \in DOMAIN nics[i].addrs :
              nics[i].addrs[j].ip = [v4 |-> dest.v4, bits |-> dest.bits]
              => LocalIp(dest, nics) = {nics[i].addrs[j]}

\* A mapping, once made, does not lapse as long as its renewals succeed in
\* less than half a lease, wherever in that time the gateway applies them
\* (manage_port); and the address it leads to can be reached from the gateway.
MappingsHold ==
    /\ \A m \in Managed \ trouble : lease[m] # 0
    /\ spawned = {} /\ inbox = <<>> => AddressIsReachable

\* A gateway that answers searches and requests ends up with every mapping,
\* and has it again and again, though descriptions of other devices fail and
\* leave the fetches unpolled.
GatewayIsMapped ==
    \A l \in Locations \ Broken : \A u \in UrlsOf[l], p \in Ports : []<>(lease[<<u, p>>] > 0)
=============================================================================
