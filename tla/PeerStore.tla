----------------------------- MODULE PeerStore -----------------------------
(***************************************************************************)
(* The peers that others announce to us: tokens handed out with get_peers  *)
(* answers, announces that present one, the collector, and the dump that   *)
(* survives a restart.  All but the dump runs in the one task of the DHT   *)
(* worker.                                                                 *)
(*                                                                         *)
(* Time is counted in runs of the collector (5 minutes): an age is the     *)
(* number of runs that were due since, so that what is of age n when a run *)
(* is due is more than n - 1 periods old and at most n.  With a peer the   *)
(* model keeps, as history, who announced it.                              *)
(***************************************************************************)
EXTENDS Integers, Sequences, FiniteSets, FiniteSetsExt

CONSTANTS Ids,        \* identifiers of nodes
          StoreAddrs, \* their addresses
          Ports,      \* ports they announce
          Hashes,     \* info hashes that are announced
          Near,       \* those within max_distance
          MaxTokens,  \* max_remembered_tokens (1000)
          MaxPeers,   \* max_remembered_peers (1000)
          PerHash,    \* MAX_PEERS_PER_INFO_HASH (100)
          PeerTtl,    \* PEER_TTL (3 runs)
          TokenTtl,   \* TOKEN_TTL (2 runs)
          MaxStarts,  \* bound: restarts
          MaxDown     \* bound: periods between a dump and the start that reads it

ASSUME StoreAssumption == TokenTtl \in Nat /\ MaxPeers \in Nat

VARIABLES storeTokens, \* the deque of [id, addr, age]
          peers,      \* by hash, the stored [addr, port, age, by]
          peersLen,   \* peers_len
          gc,         \* the collector's timer: "waits" or "due"
          collected,  \* the collector has run since the start, or nothing was loaded
          starts,     \* restarts
          given       \* history: who was given a token

storeVars == <<storeTokens, peers, peersLen, gc, collected, starts, given>>

Stored(ps) == UNION {{<<h, p>> : p \in ps[h]} : h \in Hashes}

\* Times are stored, so that everything is n periods older n periods later.
Older(x, n) == [x EXCEPT !.age = @ + n]
OlderTokens(ts, n) == [k \in DOMAIN ts |-> Older(ts[k], n)]
OlderPeers(ps, n) == [h \in Hashes |-> {Older(p, n) : p \in ps[h]}]

----------------------------------------------------------------------------
\* gen_token_for, with the answer to a get_peers; the oldest token is forgotten.
GenTokenFor(id, addr) ==
    LET all == Append(storeTokens, [id |-> id, addr |-> addr, age |-> 0])
    IN /\ storeTokens' = IF Len(all) > MaxTokens THEN Tail(all) ELSE all
       /\ given' = given \cup {<<id, addr>>}
       /\ UNCHANGED <<peers, peersLen, gc, collected, starts>>

Matches(t, id, addr) == t.id = id /\ t.addr = addr

\* A mutant: a peer that announces again is counted again.
PutCounted(hash, peer) ==
    LET same == {p \in peers[hash] : p.addr = peer.addr /\ p.port = peer.port}
    IN /\ peersLen < MaxPeers
       /\ peers' = [peers EXCEPT ![hash] = (@ \ same) \cup {peer}]
       /\ peersLen' = peersLen + 1

\* The entry of the hash: a known address is refreshed, a new one needs room.
Put(hash, peer) ==
    LET same == {p \in peers[hash] : p.addr = peer.addr /\ p.port = peer.port}
    IN IF same # {}
       THEN /\ peers' = [peers EXCEPT ![hash] = (@ \ same) \cup {[p EXCEPT !.age = 0] : p \in same}]
            /\ UNCHANGED peersLen
       ELSE /\ peersLen < MaxPeers
            /\ peers' = [peers EXCEPT ![hash] = @ \cup {peer}]
            /\ peersLen' = peersLen + 1

\* store_peer, of an announce that presents the k-th stored token (any other changes nothing).
StorePeer(id, addr, port, hash, k) ==
    /\ hash \in Near
    /\ k \in DOMAIN storeTokens /\ Matches(storeTokens[k], id, addr)
    /\ Put(hash, [addr |-> addr, port |-> port, age |-> 0, by |-> <<id, addr>>])
    /\ UNCHANGED <<storeTokens, gc, collected, starts, given>>

\* retain() keeps the tokens whose time has not come; by OldestIsFirst they are the end of
\* the deque.
TokensLeft(ts) ==
    LET young == {k \in 1..Len(ts) + 1 : \A j \in k..Len(ts) : ts[j].age <= TokenTtl}
    IN SubSeq(ts, Min(young), Len(ts))

\* The youngest PerHash of those that are not stale.
Survivors(ps) ==
    LET young == {p \in ps : p.age <= PeerTtl}
    IN {kept \in SUBSET young :
          /\ Cardinality(kept) = IF Cardinality(young) > PerHash THEN PerHash ELSE Cardinality(young)
          /\ \A p \in kept, q \in young \ kept : p.age <= q.age}

\* garbage_collect_peers.  The total is within MaxPeers, so that nothing is evicted for it.
GarbageCollectPeers ==
    /\ gc = "due"
    /\ storeTokens' = TokensLeft(storeTokens)
    /\ \E left \in [Hashes -> SUBSET UNION {peers[h] : h \in Hashes}] :
         /\ \A h \in Hashes : left[h] \in Survivors(peers[h])
         /\ peers' = left /\ peersLen' = Cardinality(Stored(left))
    /\ gc' = "waits" /\ collected' = TRUE
    /\ UNCHANGED <<starts, given>>

\* Five minutes.
StoreTick ==
    /\ gc = "waits" /\ gc' = "due"
    /\ storeTokens' = OlderTokens(storeTokens, 1)
    /\ peers' = OlderPeers(peers, 1)
    /\ UNCHANGED <<peersLen, collected, starts, given>>

\* The process ends, and one that starts later reads the last dump (dump_dht, every minute): the
\* tokens and the peers are loaded whatever their age is by then, and the peers are counted.  What
\* was done after the dump is lost, so that the step is one from the state that was dumped, and
\* `down' is the time from the dump to the start.  The collector skips its first tick: it runs
\* one period after the start.
Reload(down) ==
    /\ starts < MaxStarts
    /\ starts' = starts + 1 /\ gc' = "waits" /\ collected' = FALSE
    /\ storeTokens' = OlderTokens(storeTokens, down)
    /\ peers' = OlderPeers(peers, down)
    /\ peersLen' = Cardinality(Stored(peers'))
    /\ UNCHANGED given

----------------------------------------------------------------------------
StoreInit ==
    /\ storeTokens = <<>> /\ peers = [h \in Hashes |-> {}] /\ peersLen = 0
    /\ gc = "waits" /\ collected = TRUE /\ starts = 0 /\ given = {}

StoreNext ==
    \/ \E id \in Ids, addr \in StoreAddrs :
         \/ GenTokenFor(id, addr)
         \/ \E port \in Ports, hash \in Hashes, k \in DOMAIN storeTokens : StorePeer(id, addr, port, hash, k)
    \/ GarbageCollectPeers \/ StoreTick
    \/ \E down \in 0..MaxDown : Reload(down)

StoreSpec == StoreInit /\ [][StoreNext]_storeVars

----------------------------------------------------------------------------
(* Properties *)

\* The counter that limits the store is the number of stored peers, over refreshes, collections
\* and restarts, and it never exceeds the limit, so that the collector's eviction of the oldest
\* (peer_store.rs:286-329) has nothing to do.
PeersLenIsExact == peersLen = Cardinality(Stored(peers)) /\ peersLen <= MaxPeers

\* A stored peer has the address of a node that had asked us for the token itself.
StoredAskedFirst ==
    \A h \in Hashes : \A p \in peers[h] : p.addr = p.by[2] /\ p.by \in given /\ h \in Near

\* The age of the oldest token a run of the collector may have left.
OldestKept == IF gc = "due" THEN TokenTtl + 1 ELSE TokenTtl

\* Once the collector has run in this process, every token an announce could be accepted with is
\* less than TOKEN_TTL and one run of the collector old.  Until then, for one run after a
\* restart, a token of any age is accepted (peer_store.rs:81-106 loads all of them).
TokensExpire ==
    collected => \A k \in DOMAIN storeTokens : storeTokens[k].age <= OldestKept

\* The deque is in the order in which its tokens were given: the token forgotten for a new one is
\* the oldest.
OldestIsFirst ==
    \A j, k \in DOMAIN storeTokens : j < k => storeTokens[j].age >= storeTokens[k].age

\* The store of announced peers keeps to its limits, and to the tokens it gave, over collections
\* and restarts from a dump of any age.
PeerStoreIsSound == PeersLenIsExact /\ StoredAskedFirst /\ TokensExpire /\ OldestIsFirst
=============================================================================
