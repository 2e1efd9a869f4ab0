----------------------------- MODULE DhtProofs -----------------------------
(***************************************************************************)
(* Proofs about the DHT: the store of announced peers keeps to its limits  *)
(* and its tokens, and transaction numbers do not meet, for every rate     *)
(* limit, timeout and number space that satisfy DhtAssumption.             *)
(*                                                                         *)
(* In the store nothing becomes confused by growing older, by one period   *)
(* of the collector or by the many a dump may have waited for its restart  *)
(* (OlderKeeps).                                                           *)
(*                                                                         *)
(* The argument about numbers is one of potentials.  A permit is worth two *)
(* of them (the request's and its announce's) and a request in progress    *)
(* one.  Numbers used plus potential left grow only with the refills       *)
(* (Window), so that what was sent a moment ago is fewer than TidSpace     *)
(* numbers away.                                                           *)
(***************************************************************************)
EXTENDS DhtRequests, PeerStore, FiniteSetTheorems, TLAPS

Token == [id : Ids, addr : StoreAddrs, age : Nat]
Announced == [addr : StoreAddrs, port : Ports, age : Nat, by : Ids \X StoreAddrs]

StoreTypes ==
    /\ storeTokens \in Seq(Token) /\ peers \in [Hashes -> SUBSET Announced]

TokensAreGiven == \A k \in DOMAIN storeTokens : <<storeTokens[k].id, storeTokens[k].addr>> \in given

\* An address and port is stored once for a hash.
OneEntryEach ==
    \A h \in Hashes : \A p, q \in peers[h] : p.addr = q.addr /\ p.port = q.port => p = q

StoreInv ==
    StoreTypes /\ TokensAreGiven /\ OneEntryEach /\ IsFiniteSet(Stored(peers)) /\ PeerStoreIsSound

LEMMA StoredEntries ==
  ASSUME NEW ps, NEW x
  PROVE  x \in Stored(ps) <=> \E h \in Hashes : \E p \in ps[h] : x = <<h, p>>
BY DEF Stored

\* The entries after those of one hash were replaced.
LEMMA ReplacedEntries ==
  ASSUME NEW ps \in [Hashes -> SUBSET Announced], NEW h \in Hashes, NEW new
  PROVE  /\ [ps EXCEPT ![h] = new][h] = new
         /\ \A g \in Hashes \ {h} : [ps EXCEPT ![h] = new][g] = ps[g]
BY Zenon

LEMMA AgesAreNatural ==
  ASSUME NEW ts \in Seq(Token)
  PROVE  /\ DOMAIN ts = 1..Len(ts) /\ Len(ts) \in Nat
         /\ \A k \in DOMAIN ts : ts[k] \in Token /\ ts[k].age \in Nat
<1>1. DOMAIN ts = 1..Len(ts) /\ Len(ts) \in Nat /\ \A k \in DOMAIN ts : ts[k] \in Token
  OBVIOUS
<1> QED BY <1>1, Zenon DEF Token

\* A step that leaves the peers alone, from what it does to the tokens.
LEMMA TokenStep ==
  ASSUME StoreInv, StoreTypes', TokensAreGiven', TokensExpire', OldestIsFirst',
         UNCHANGED <<peers, peersLen>>, given \subseteq given'
  PROVE  StoreInv'
<1>1. Stored(peers)' = Stored(peers)
  BY DEF Stored
<1>2. StoredAskedFirst' /\ OneEntryEach'
  <2>1. StoredAskedFirst'
    BY Zenon DEF StoreInv, PeerStoreIsSound, StoredAskedFirst
  <2>2. OneEntryEach'
    BY Zenon DEF StoreInv, OneEntryEach
  <2> QED BY <2>1, <2>2, Zenon
<1>3. PeersLenIsExact'
  BY <1>1, Zenon DEF StoreInv, PeerStoreIsSound, PeersLenIsExact
<1> QED BY <1>1, <1>2, <1>3, Zenon DEF StoreInv, PeerStoreIsSound

LEMMA OldestKeptIsNatural == OldestKept \in Nat /\ 0 <= OldestKept
BY StoreAssumption DEF OldestKept

\* An answer to a get_peers hands out a token.
LEMMA GenTokenKeeps ==
  ASSUME StoreInv, NEW id \in Ids, NEW addr \in StoreAddrs, GenTokenFor(id, addr)
  PROVE  StoreInv'
<1> DEFINE new == [id |-> id, addr |-> addr, age |-> 0]
           all == Append(storeTokens, new)
<1>1. /\ storeTokens' = IF Len(all) > MaxTokens THEN Tail(all) ELSE all
      /\ given' = given \cup {<<id, addr>>}
      /\ UNCHANGED <<peers, peersLen, gc, collected>>
  BY Zenon DEF GenTokenFor
<1>2. new \in Token /\ storeTokens \in Seq(Token)
  BY Zenon DEF Token, StoreInv, StoreTypes
<1>3. all \in Seq(Token) /\ Len(all) = Len(storeTokens) + 1 /\ Tail(all) \in Seq(Token)
  BY <1>2
<1>4. \A k \in DOMAIN storeTokens : all[k] = storeTokens[k]
  BY <1>2
<1>5. /\ \A k \in DOMAIN all : k \in DOMAIN storeTokens \/ k = Len(storeTokens) + 1
      /\ all[Len(storeTokens) + 1] = new
  BY <1>2
<1>6. \A k \in DOMAIN all : /\ <<all[k].id, all[k].addr>> \in given'
                            /\ collected => all[k].age <= OldestKept
  <2>1. \A k \in DOMAIN storeTokens : /\ <<all[k].id, all[k].addr>> \in given'
                                      /\ collected => all[k].age <= OldestKept
    BY <1>1, <1>4, Zenon DEF StoreInv, TokensAreGiven, PeerStoreIsSound, TokensExpire
  <2>2. <<new.id, new.addr>> \in given' /\ new.age <= OldestKept
    BY <1>1, OldestKeptIsNatural, Zenon
  <2> HIDE DEF all, new
  <2> QED BY <1>5, <2>1, <2>2, Zenon
<1>7. \A j, k \in DOMAIN all : j < k => all[j].age >= all[k].age
  <2>1. \A j, k \in DOMAIN storeTokens : j < k => storeTokens[j].age >= storeTokens[k].age
    BY Zenon DEF StoreInv, PeerStoreIsSound, OldestIsFirst
  <2>2. new.age = 0 /\ \A j \in DOMAIN storeTokens : j <= Len(storeTokens) /\ storeTokens[j].age >= 0
    BY <1>2, AgesAreNatural
  <2> HIDE DEF all, new
  <2> QED BY <1>2, <1>4, <1>5, <2>1, <2>2
<1>8. OldestKept' = OldestKept /\ (collected' <=> collected)
  BY <1>1 DEF OldestKept
<1>9. TokensAreGiven' /\ TokensExpire' /\ OldestIsFirst'
  <2>1. CASE storeTokens' = all
    BY <1>1, <1>6, <1>7, <1>8, <2>1, Zenon DEF TokensAreGiven, TokensExpire, OldestIsFirst
  <2>2. CASE storeTokens' = Tail(all)
    <3>1. \A k \in DOMAIN Tail(all) : k \in Int /\ k + 1 \in DOMAIN all /\ Tail(all)[k] = all[k + 1]
      BY <1>3
    <3>2. TokensAreGiven' /\ TokensExpire'
      <4> HIDE DEF all
      <4> QED BY <1>1, <1>6, <1>8, <2>2, <3>1, Zenon DEF TokensAreGiven, TokensExpire
    <3>3. OldestIsFirst'
      <4> HIDE DEF all
      <4> QED BY <1>1, <1>7, <2>2, <3>1 DEF OldestIsFirst
    <3> QED BY <3>2, <3>3, Zenon
  <2> QED BY <1>1, <2>1, <2>2, Zenon
<1>10. StoreTypes'
  BY <1>1, <1>3, Zenon DEF StoreInv, StoreTypes
<1> QED BY <1>1, <1>9, <1>10, TokenStep, Zenon

\* The collector drops the tokens whose time has come: a beginning of the deque.
LEMMA YoungTokens ==
  ASSUME NEW ts \in Seq(Token), NEW left, left = TokensLeft(ts)
  PROVE  /\ left \in Seq(Token)
         /\ \E m \in Nat : \A k \in DOMAIN left : /\ k \in Int /\ m + k \in DOMAIN ts /\ left[k] = ts[m + k]
                                                  /\ left[k].age <= TokenTtl
<1> DEFINE n == Len(ts)
           young == {k \in 1..n + 1 : \A j \in k..n : ts[j].age <= TokenTtl}
<1>1. n \in Nat /\ DOMAIN ts = 1..n /\ \A k \in 1..n : ts[k] \in Token
  BY AgesAreNatural, Zenon
<1>2. young \subseteq Nat /\ n + 1 \in young
  BY <1>1
<1>3. Min(young) \in young
  <2> HIDE DEF young
  <2>1. PICK m \in young : \A y \in young : ~ (<<y, m>> \in OpToRel(<, Nat))
    BY <1>2, NatLessThanWellFounded, WFMin, Zenon
  <2>2. \A y \in young : ~ (y < m)
    BY <1>2, <2>1, Zenon DEF OpToRel
  <2>3. \A y \in young : m <= y
    BY <1>2, <2>2
  <2> QED BY <2>3, Zenon DEF Min
<1> DEFINE m == Min(young)
<1>4. left = SubSeq(ts, m, n)
  BY Zenon DEF TokensLeft
<1>5. m \in 1..n + 1 /\ \A j \in m..n : ts[j].age <= TokenTtl
  BY <1>3, Zenon
<1> HIDE DEF m
<1>6. /\ left \in Seq(Token) /\ Len(left) = IF m <= n THEN n - m + 1 ELSE 0
      /\ \A i \in 1..n - m + 1 : left[i] = ts[m + i - 1]
  <2>1. left = [i \in 1..1 + n - m |-> ts[i + m - 1]]
    BY <1>1, <1>4, <1>5
  <2>2. 1 + n - m \in Nat /\ Len(left) = 1 + n - m
    BY <1>1, <1>4, <1>5
  <2>3. ASSUME NEW i \in 1..1 + n - m PROVE i + m - 1 \in 1..n
    BY <1>1, <1>5
  <2>4. \A i \in 1..1 + n - m : left[i] = ts[i + m - 1] /\ left[i] \in Token
    BY <1>1, <2>1, <2>3, Zenon
  <2>5. left \in [1..1 + n - m -> Token]
    BY <2>1, <2>4, Zenon
  <2>6. left \in Seq(Token)
    BY <2>2, <2>5
  <2>7. /\ (m <= n => Len(left) = n - m + 1) /\ (~ (m <= n) => Len(left) = 0)
        /\ \A i \in 1..n - m + 1 : i \in 1..1 + n - m /\ i + m - 1 = m + i - 1
    BY <1>1, <1>5, <2>2
  <2>8. \A i \in 1..n - m + 1 : left[i] = ts[m + i - 1]
    BY <2>4, <2>7, Zenon
  <2> QED
    BY <2>6, <2>7, <2>8, Zenon
<1>7. DOMAIN left = 1..Len(left)
  BY <1>6
<1>8. m - 1 \in Nat
  BY <1>1, <1>5
<1>9. \A k \in DOMAIN left : /\ k \in Int /\ m - 1 + k \in DOMAIN ts /\ left[k] = ts[m - 1 + k]
                             /\ left[k].age <= TokenTtl
  <2> SUFFICES ASSUME NEW k \in DOMAIN left
               PROVE  /\ k \in Int /\ m - 1 + k \in DOMAIN ts /\ left[k] = ts[m - 1 + k]
                      /\ left[k].age <= TokenTtl
    BY Zenon
  <2>1. m <= n /\ k \in 1..n - m + 1
    BY <1>1, <1>5, <1>6, <1>7
  <2>2. m + k - 1 \in m..n /\ m + k - 1 = m - 1 + k /\ m - 1 + k \in 1..n
    BY <1>1, <1>5, <2>1
  <2>3. left[k] = ts[m + k - 1]
    BY <1>6, <2>1, Zenon
  <2> QED BY <1>1, <1>5, <2>1, <2>2, <2>3
<1> QED BY <1>6, <1>8, <1>9, Zenon

\* What the collector leaves of the peers is part of what was stored.
LEMMA CollectorKeeps ==
  ASSUME StoreInv, GarbageCollectPeers
  PROVE  StoreInv'
<1>1. /\ gc' = "waits" /\ storeTokens' = TokensLeft(storeTokens)
      /\ given' = given
  BY Zenon DEF GarbageCollectPeers
<1>2. PICK left \in [Hashes -> SUBSET UNION {peers[h] : h \in Hashes}] :
         /\ \A h \in Hashes : left[h] \in Survivors(peers[h])
         /\ peers' = left /\ peersLen' = Cardinality(Stored(left))
  BY Zenon DEF GarbageCollectPeers
<1>3. \A h \in Hashes : peers'[h] \subseteq peers[h]
  BY <1>2, Zenon DEF Survivors
<1>4. /\ storeTokens \in Seq(Token) /\ peers \in [Hashes -> SUBSET Announced]
  BY Zenon DEF StoreInv, StoreTypes
<1>5. peers' \in [Hashes -> SUBSET Announced]
  BY <1>2, <1>3, <1>4, Zenon
<1>6. PICK m \in Nat : \A k \in DOMAIN storeTokens' :
         /\ k \in Int /\ m + k \in DOMAIN storeTokens /\ storeTokens'[k] = storeTokens[m + k]
         /\ storeTokens'[k].age <= TokenTtl
  BY <1>1, <1>4, YoungTokens, ZenonT(30)
<1>7. StoreTypes'
  BY <1>1, <1>4, <1>5, YoungTokens, Zenon DEF StoreTypes
<1>8. TokensAreGiven' /\ TokensExpire'
  <2>1. OldestKept' = TokenTtl
    BY <1>1, Zenon DEF OldestKept
  <2>2. TokensExpire'
    BY <1>6, <2>1, Zenon DEF TokensExpire
  <2>3. TokensAreGiven'
    BY <1>1, <1>6, Zenon DEF StoreInv, TokensAreGiven
  <2> QED BY <2>2, <2>3, Zenon
<1>9. OldestIsFirst'
  BY <1>6 DEF StoreInv, PeerStoreIsSound, OldestIsFirst
<1>10. OneEntryEach' /\ StoredAskedFirst'
  BY <1>1, <1>3, Zenon DEF StoreInv, PeerStoreIsSound, OneEntryEach, StoredAskedFirst
<1>11. Stored(peers') \subseteq Stored(peers)
  BY <1>3, StoredEntries
<1>12. IsFiniteSet(Stored(peers')) /\ Cardinality(Stored(peers')) <= Cardinality(Stored(peers))
  BY <1>11, FS_Subset, Zenon DEF StoreInv
<1>13. /\ Cardinality(Stored(peers')) \in Nat /\ Cardinality(Stored(peers)) \in Nat
       /\ Cardinality(Stored(peers)) <= MaxPeers
  BY <1>12, FS_CardinalityType, Zenon DEF StoreInv, PeerStoreIsSound, PeersLenIsExact
<1>14. PeersLenIsExact'
  BY <1>2, <1>12, <1>13, StoreAssumption DEF PeersLenIsExact
<1> QED BY <1>7, <1>8, <1>9, <1>10, <1>12, <1>14, Zenon DEF StoreInv, PeerStoreIsSound

\* Time passes: everything stored gets older, and nothing is lost or confused by it.
LEMMA OlderKeeps ==
  ASSUME StoreInv, NEW n \in Nat, storeTokens' = OlderTokens(storeTokens, n),
         peers' = OlderPeers(peers, n), given' = given, TokensExpire',
         peersLen' \in {peersLen, Cardinality(Stored(peers'))}
  PROVE  StoreInv'
<1> DEFINE Aged(p) == Older(p, n)
<1>1. /\ storeTokens' = [k \in DOMAIN storeTokens |-> Aged(storeTokens[k])]
      /\ peers' = [h \in Hashes |-> {Aged(p) : p \in peers[h]}]
  BY Zenon DEF OlderTokens, OlderPeers
<1>2. storeTokens \in Seq(Token) /\ peers \in [Hashes -> SUBSET Announced]
  BY Zenon DEF StoreInv, StoreTypes
<1>3. \A t \in Token :
        /\ Aged(t) \in Token /\ Aged(t).id = t.id
        /\ Aged(t).addr = t.addr /\ Aged(t).age = t.age + n
  BY DEF Token, Older
<1>4. \A p \in Announced : /\ Aged(p) \in Announced /\ Aged(p).addr = p.addr /\ Aged(p).port = p.port
                           /\ Aged(p).by = p.by /\ Aged(p).age = p.age + n
  BY DEF Announced, Older
<1>5. \A p, q \in Announced : Aged(p) = Aged(q) => p = q
  <2> SUFFICES ASSUME NEW p \in Announced, NEW q \in Announced, Aged(p) = Aged(q) PROVE p = q
    BY Zenon
  <2>1. p.addr = q.addr /\ p.port = q.port /\ p.by = q.by /\ p.age + n = q.age + n
    <3>1. Aged(p).addr = p.addr /\ Aged(p).port = p.port /\ Aged(p).by = p.by /\ Aged(p).age = p.age + n
      BY <1>4, Zenon
    <3>2. Aged(q).addr = q.addr /\ Aged(q).port = q.port /\ Aged(q).by = q.by /\ Aged(q).age = q.age + n
      BY <1>4, Zenon
    <3> QED BY <3>1, <3>2, Zenon
  <2>2. p.age = q.age
    BY <2>1 DEF Announced
  <2> QED BY <2>1, <2>2 DEF Announced
<1> HIDE DEF Aged
<1>6. /\ \A k \in DOMAIN storeTokens : storeTokens[k] \in Token /\ storeTokens[k].age \in Nat
      /\ DOMAIN storeTokens = 1..Len(storeTokens) /\ Len(storeTokens) \in Nat
  BY <1>2, AgesAreNatural, Zenon
<1>7. /\ DOMAIN storeTokens' = DOMAIN storeTokens
      /\ \A k \in DOMAIN storeTokens : storeTokens'[k] = Aged(storeTokens[k])
  BY <1>1, Zenon
<1>8. StoreTypes'
  <2>1. storeTokens' \in Seq(Token)
    BY <1>1, <1>3, <1>6
  <2>2. peers' \in [Hashes -> SUBSET Announced]
    <3>1. \A h \in Hashes : peers[h] \subseteq Announced
      BY <1>2, Zenon
    <3>2. \A h \in Hashes : {Aged(p) : p \in peers[h]} \in SUBSET Announced
      BY <1>4, <3>1, Zenon
    <3> QED BY <1>1, <3>2, Zenon
  <2> QED BY <1>1, <1>2, <2>1, <2>2, Zenon DEF StoreTypes
<1>9. TokensAreGiven'
  <2> SUFFICES ASSUME NEW k \in DOMAIN storeTokens
               PROVE  <<storeTokens'[k].id, storeTokens'[k].addr>> \in given
    BY <1>7, Zenon DEF TokensAreGiven
  <2>1. storeTokens'[k].id = storeTokens[k].id /\ storeTokens'[k].addr = storeTokens[k].addr
    BY <1>3, <1>6, <1>7, Zenon
  <2> QED BY <2>1, Zenon DEF StoreInv, TokensAreGiven
<1>10. OldestIsFirst'
  <2>1. \A j, k \in DOMAIN storeTokens : j < k => storeTokens[j].age >= storeTokens[k].age
    BY Zenon DEF StoreInv, PeerStoreIsSound, OldestIsFirst
  <2>2. \A k \in DOMAIN storeTokens : storeTokens'[k].age = storeTokens[k].age + n
    BY <1>3, <1>6, <1>7, Zenon
  <2>3. \A a, b \in Nat : a >= b => a + n >= b + n
    OBVIOUS
  <2> QED BY <1>6, <1>7, <2>1, <2>2, <2>3, Zenon DEF OldestIsFirst
<1>11. \A h \in Hashes : peers'[h] = {Aged(p) : p \in peers[h]} /\ peers[h] \subseteq Announced
  BY <1>1, <1>2, Zenon
<1>12. OneEntryEach'
  <2> SUFFICES ASSUME NEW h \in Hashes, NEW p \in peers'[h], NEW q \in peers'[h],
                      p.addr = q.addr, p.port = q.port
               PROVE  p = q
    BY Zenon DEF OneEntryEach
  <2>1. PICK p0 \in peers[h] : p = Aged(p0)
    BY <1>11, Zenon
  <2>2. PICK q0 \in peers[h] : q = Aged(q0)
    BY <1>11, Zenon
  <2>3. p0.addr = q0.addr /\ p0.port = q0.port
    BY <1>4, <1>11, <2>1, <2>2, Zenon
  <2> QED BY <2>1, <2>2, <2>3, Zenon DEF StoreInv, OneEntryEach
<1>13. StoredAskedFirst'
  <2> SUFFICES ASSUME NEW h \in Hashes, NEW p \in peers'[h]
               PROVE  p.addr = p.by[2] /\ p.by \in given /\ h \in Near
    BY Zenon DEF StoredAskedFirst
  <2>1. PICK p0 \in peers[h] : p = Aged(p0)
    BY <1>11, Zenon
  <2>2. p.addr = p0.addr /\ p.by = p0.by
    BY <1>4, <1>11, <2>1, Zenon
  <2> QED BY <2>2, Zenon DEF StoreInv, PeerStoreIsSound, StoredAskedFirst
<1>14. IsFiniteSet(Stored(peers')) /\ Cardinality(Stored(peers')) = Cardinality(Stored(peers))
  <2> DEFINE f == [x \in Stored(peers) |-> <<x[1], Aged(x[2])>>]
  <2>1. \A h \in Hashes : \A p \in peers[h] : <<h, p>> \in Stored(peers) /\ f[<<h, p>>] = <<h, Aged(p)>>
    BY StoredEntries, Zenon
  <2>2. \A x \in Stored(peers) : \E h \in Hashes : \E p \in peers[h] : x = <<h, p>> /\ p \in Announced
    BY <1>11, StoredEntries
  <2>3. f \in [Stored(peers) -> Stored(peers')]
    <3> SUFFICES ASSUME NEW x \in Stored(peers) PROVE f[x] \in Stored(peers')
      BY Zenon
    <3>1. PICK h \in Hashes : \E p \in peers[h] : x = <<h, p>>
      BY <2>2, Zenon
    <3>2. PICK p \in peers[h] : x = <<h, p>>
      BY <3>1, Zenon
    <3>3. Aged(p) \in peers'[h]
      BY <1>11, Zenon
    <3>4. <<h, Aged(p)>> \in Stored(peers')
      BY <3>3, StoredEntries, Zenon
    <3> HIDE DEF f
    <3> QED BY <2>1, <3>2, <3>4, Zenon
  <2>4. ASSUME NEW x \in Stored(peers), NEW y \in Stored(peers), f[x] = f[y] PROVE x = y
    <3>1. PICK h \in Hashes : \E p \in peers[h] : x = <<h, p>> /\ p \in Announced
      BY <2>2, Zenon
    <3>2. PICK p \in peers[h] : x = <<h, p>> /\ p \in Announced
      BY <3>1, Zenon
    <3>3. PICK g \in Hashes : \E q \in peers[g] : y = <<g, q>> /\ q \in Announced
      BY <2>2, Zenon
    <3>4. PICK q \in peers[g] : y = <<g, q>> /\ q \in Announced
      BY <3>3, Zenon
    <3>5. <<h, Aged(p)>> = <<g, Aged(q)>>
      <4> HIDE DEF f
      <4> QED BY <2>1, <2>4, <3>2, <3>4, Zenon
    <3>6. h = g /\ Aged(p) = Aged(q)
      BY <3>5, Zenon
    <3> QED BY <1>5, <3>2, <3>4, <3>6, Zenon
  <2>5. ASSUME NEW y \in Stored(peers') PROVE \E x \in Stored(peers) : f[x] = y
    <3>1. PICK h \in Hashes : \E q \in peers'[h] : y = <<h, q>>
      BY StoredEntries
    <3>2. PICK q \in peers'[h] : y = <<h, q>>
      BY <3>1, Zenon
    <3>3. PICK p \in peers[h] : q = Aged(p)
      BY <1>11, <3>2, Zenon
    <3> HIDE DEF f
    <3> QED BY <2>1, <3>2, <3>3, Zenon
  <2>6. ExistsBijection(Stored(peers), Stored(peers'))
    <3> HIDE DEF f
    <3>1. f \in Injection(Stored(peers), Stored(peers'))
      BY <2>3, <2>4, Zenon DEF Injection, IsInjective
    <3>2. f \in Surjection(Stored(peers), Stored(peers'))
      BY <2>3, <2>5, Zenon DEF Surjection
    <3> QED BY <3>1, <3>2, Zenon DEF ExistsBijection, Bijection
  <2> QED BY <2>6, FS_Bijection, Zenon DEF StoreInv
<1>15. PeersLenIsExact'
  BY <1>14, Zenon DEF StoreInv, PeerStoreIsSound, PeersLenIsExact
<1> QED BY <1>8, <1>9, <1>10, <1>12, <1>13, <1>14, <1>15, Zenon DEF StoreInv, PeerStoreIsSound

\* A period of the collector.
LEMMA StoreTickKeeps ==
  ASSUME StoreInv, StoreTick
  PROVE  StoreInv'
<1>1. /\ gc = "waits" /\ gc' = "due" /\ storeTokens' = OlderTokens(storeTokens, 1)
      /\ peers' = OlderPeers(peers, 1) /\ given' = given /\ peersLen' = peersLen
      /\ collected' = collected
  BY Zenon DEF StoreTick
<1>2. OldestKept = TokenTtl /\ OldestKept' = TokenTtl + 1
  BY <1>1, Zenon DEF OldestKept
<1>3. TokensExpire'
  <2> SUFFICES ASSUME collected, NEW k \in DOMAIN storeTokens PROVE storeTokens'[k].age <= TokenTtl + 1
    BY <1>1, <1>2, Zenon DEF TokensExpire, OlderTokens
  <2>1. storeTokens[k].age <= TokenTtl
    BY <1>2, Zenon DEF StoreInv, PeerStoreIsSound, TokensExpire
  <2>2. storeTokens[k] \in Token /\ storeTokens[k].age \in Nat
    BY AgesAreNatural, Zenon DEF StoreInv, StoreTypes
  <2>3. storeTokens'[k].age = storeTokens[k].age + 1
    <3>1. storeTokens'[k] = Older(storeTokens[k], 1)
      BY <1>1, Zenon DEF OlderTokens
    <3> QED BY <2>2, <3>1 DEF Token, Older
  <2> QED BY <2>1, <2>2, <2>3, StoreAssumption
<1>4. 1 \in Nat
  OBVIOUS
<1> QED BY <1>1, <1>3, <1>4, OlderKeeps, Zenon

\* The store is read back after a restart, and its peers are counted.
LEMMA ReloadKeeps ==
  ASSUME StoreInv, NEW down \in Nat, Reload(down)
  PROVE  StoreInv'
<1>1. /\ collected' = FALSE /\ storeTokens' = OlderTokens(storeTokens, down)
      /\ peers' = OlderPeers(peers, down) /\ given' = given
      /\ peersLen' = Cardinality(Stored(peers'))
  BY Zenon DEF Reload
<1>2. TokensExpire'
  BY <1>1, Zenon DEF TokensExpire
<1> QED BY <1>1, <1>2, OlderKeeps, Zenon

\* The invariant after the entries of one hash are replaced.
LEMMA EntriesReplaced ==
  ASSUME StoreInv, NEW hash \in Hashes, hash \in Near, NEW new \in SUBSET Announced,
         UNCHANGED <<storeTokens, given>>,
         peers' = [peers EXCEPT ![hash] = new],
         \A p, q \in new : p.addr = q.addr /\ p.port = q.port => p = q,
         \A p \in new : p.by \in given /\ p.addr = p.by[2],
         IsFiniteSet(Stored(peers')), peersLen' = Cardinality(Stored(peers')), peersLen' <= MaxPeers,
         TokensExpire', TokensAreGiven', OldestIsFirst'
  PROVE  StoreInv'
<1>1. peers \in [Hashes -> SUBSET Announced]
  BY Zenon DEF StoreInv, StoreTypes
<1>2. peers'[hash] = new /\ \A h \in Hashes \ {hash} : peers'[h] = peers[h]
  BY <1>1, ReplacedEntries, Zenon
<1>3. StoreTypes'
  BY <1>1, Zenon DEF StoreInv, StoreTypes
<1>4. OneEntryEach'
  BY <1>2, Zenon DEF StoreInv, OneEntryEach
<1>5. StoredAskedFirst'
  <2>1. ASSUME NEW h \in Hashes, NEW p \in peers'[h]
        PROVE  p.by \in given /\ p.addr = p.by[2] /\ h \in Near
    <3>1. CASE h = hash
      BY <1>2, <3>1, Zenon
    <3>2. CASE h # hash
      <4>1. p \in peers[h]
        BY <1>2, <3>2, Zenon
      <4> QED BY <4>1, Zenon DEF StoreInv, PeerStoreIsSound, StoredAskedFirst
    <3> QED BY <3>1, <3>2, Zenon
  <2> QED BY <2>1, Zenon DEF StoredAskedFirst
<1> QED BY <1>3, <1>4, <1>5, Zenon DEF StoreInv, PeerStoreIsSound, PeersLenIsExact

\* An announce with a token: a known address is refreshed, a new one is added and counted.
LEMMA StorePeerKeeps ==
  ASSUME StoreInv, NEW id \in Ids, NEW addr \in StoreAddrs, NEW port \in Ports, NEW hash \in Hashes,
         NEW k \in DOMAIN storeTokens, StorePeer(id, addr, port, hash, k)
  PROVE  StoreInv'
<1> DEFINE peer == [addr |-> addr, port |-> port, age |-> 0, by |-> <<id, addr>>]
           same == {p \in peers[hash] : p.addr = addr /\ p.port = port}
           Fresh(p) == [p EXCEPT !.age = 0]
<1>1. /\ hash \in Near /\ storeTokens[k].id = id /\ storeTokens[k].addr = addr /\ Put(hash, peer)
      /\ UNCHANGED <<storeTokens, gc, collected, given>>
  BY Zenon DEF StorePeer, Matches
<1>2. storeTokens \in Seq(Token) /\ peers \in [Hashes -> SUBSET Announced]
  BY Zenon DEF StoreInv, StoreTypes
<1>3. peer \in Announced /\ peer.addr = addr /\ peer.port = port /\ peer.by = <<id, addr>>
  BY Zenon DEF Announced
<1>4. \A p \in Announced : /\ Fresh(p) \in Announced /\ Fresh(p).addr = p.addr /\ Fresh(p).port = p.port
                           /\ Fresh(p).by = p.by
  BY Zenon DEF Announced
<1>5. \/ /\ same # {} /\ peersLen' = peersLen
         /\ peers' = [peers EXCEPT ![hash] = (@ \ same) \cup {Fresh(p) : p \in same}]
      \/ /\ same = {} /\ peersLen < MaxPeers /\ peersLen' = peersLen + 1
         /\ peers' = [peers EXCEPT ![hash] = @ \cup {peer}]
  BY <1>1, Zenon DEF Put
<1>6. <<id, addr>> \in given
  BY <1>1, Zenon DEF StoreInv, TokensAreGiven
<1>7. TokensExpire'
  BY <1>1, Zenon DEF StoreInv, PeerStoreIsSound, TokensExpire, OldestKept
<1>8. TokensAreGiven' /\ OldestIsFirst'
  BY <1>1, Zenon DEF StoreInv, PeerStoreIsSound, TokensAreGiven, OldestIsFirst
<1> HIDE DEF peer, Fresh
<1>9. /\ IsFiniteSet(Stored(peers)) /\ peersLen = Cardinality(Stored(peers))
      /\ Cardinality(Stored(peers)) \in Nat /\ peersLen <= MaxPeers
  BY FS_CardinalityType, Zenon DEF StoreInv, PeerStoreIsSound, PeersLenIsExact
<1>10. \A p, q \in peers[hash] : p.addr = q.addr /\ p.port = q.port => p = q
  BY Zenon DEF StoreInv, OneEntryEach
<1>11. peers[hash] \subseteq Announced
  BY <1>2, Zenon
<1>12. \A p \in peers[hash] : p.by \in given /\ p.addr = p.by[2]
  BY Zenon DEF StoreInv, PeerStoreIsSound, StoredAskedFirst
<1>13. ASSUME NEW new, peers' = [peers EXCEPT ![hash] = new], new \subseteq Announced,
              \A p, q \in new : p.addr = q.addr /\ p.port = q.port => p = q,
              \A p \in new : p.by \in given /\ p.addr = p.by[2],
              IsFiniteSet(Stored(peers')), peersLen' = Cardinality(Stored(peers')), peersLen' <= MaxPeers
       PROVE  StoreInv'
  BY <1>1, <1>7, <1>8, <1>13, EntriesReplaced, ZenonT(30)
<1>14. CASE same = {}
  <2> DEFINE new == peers[hash] \cup {peer}
  <2>1. peersLen < MaxPeers /\ peersLen' = peersLen + 1 /\ peers' = [peers EXCEPT ![hash] = new]
    BY <1>5, <1>14, Zenon
  <2>2. peer \notin peers[hash] /\ \A p \in peers[hash] : ~ (p.addr = addr /\ p.port = port)
    BY <1>3, <1>14, Zenon
  <2>3. Stored(peers') = Stored(peers) \cup {<<hash, peer>>}
    <3>1. peers'[hash] = new /\ \A h \in Hashes \ {hash} : peers'[h] = peers[h]
      BY <1>2, <2>1, Zenon
    <3>2. ASSUME NEW x PROVE x \in Stored(peers') <=> x \in Stored(peers) \cup {<<hash, peer>>}
      BY <3>1, StoredEntries
    <3> QED BY <3>2, Zenon
  <2>4. <<hash, peer>> \notin Stored(peers)
    BY <2>2, StoredEntries
  <2>5. IsFiniteSet(Stored(peers')) /\ Cardinality(Stored(peers')) = Cardinality(Stored(peers)) + 1
    <3> DEFINE S == Stored(peers)
               e == <<hash, peer>>
    <3>1. IsFiniteSet(S) /\ e \notin S
      BY <1>9, <2>4, Zenon
    <3> HIDE DEF S, e
    <3>2. IsFiniteSet(S \cup {e}) /\ Cardinality(S \cup {e}) = Cardinality(S) + 1
      BY <3>1, FS_AddElement, Zenon
    <3> QED BY <2>3, <3>2, Zenon DEF S, e
  <2>6. peersLen' = Cardinality(Stored(peers')) /\ peersLen' <= MaxPeers
    BY <1>9, <2>1, <2>5, StoreAssumption
  <2>7. new \subseteq Announced
    BY <1>3, <1>11, Zenon
  <2>8. \A p, q \in new : p.addr = q.addr /\ p.port = q.port => p = q
    BY <1>3, <1>10, <2>2, Zenon
  <2>9. \A p \in new : p.by \in given /\ p.addr = p.by[2]
    BY <1>3, <1>6, <1>12
  <2> HIDE DEF new
  <2> QED BY <1>13, <2>1, <2>5, <2>6, <2>7, <2>8, <2>9, ZenonT(30)
<1>15. CASE same # {}
  <2> DEFINE new == (peers[hash] \ same) \cup {Fresh(p) : p \in same}
  <2>1. peersLen' = peersLen /\ peers' = [peers EXCEPT ![hash] = new]
    BY <1>5, <1>15, Zenon
  <2>2. PICK p0 : p0 \in same
    BY <1>15, Zenon
  <2>3. same = {p0} /\ p0 \in peers[hash] /\ p0 \in Announced
    BY <1>10, <1>11, <2>2, Zenon
  <2> DEFINE q0 == Fresh(p0)
  <2>4. /\ q0 \in Announced /\ q0.addr = p0.addr /\ q0.port = p0.port /\ q0.by = p0.by
        /\ new = (peers[hash] \ {p0}) \cup {q0}
    BY <1>4, <2>3, Zenon
  <2> HIDE DEF new, q0, same
  <2>5. q0 \notin peers[hash] \ {p0}
    BY <1>10, <2>3, <2>4, Zenon
  <2>6. Stored(peers') = (Stored(peers) \ {<<hash, p0>>}) \cup {<<hash, q0>>}
    <3>1. peers'[hash] = new /\ \A h \in Hashes \ {hash} : peers'[h] = peers[h]
      BY <1>2, <2>1, Zenon
    <3>2. peers'[hash] = (peers[hash] \ {p0}) \cup {q0}
      BY <2>4, <3>1, Zenon
    <3>3. ASSUME NEW x
          PROVE  x \in Stored(peers') <=> x \in (Stored(peers) \ {<<hash, p0>>}) \cup {<<hash, q0>>}
      BY <3>1, <3>2, StoredEntries
    <3> QED BY <3>3, Zenon
  <2>7. <<hash, p0>> \in Stored(peers) /\ <<hash, q0>> \notin Stored(peers) \ {<<hash, p0>>}
    <3>1. <<hash, p0>> \in Stored(peers)
      BY <2>3, StoredEntries, Zenon
    <3>2. <<hash, q0>> \in Stored(peers) => q0 \in peers[hash]
      BY StoredEntries
    <3>3. <<hash, q0>> = <<hash, p0>> <=> q0 = p0
      BY Zenon
    <3> QED
      BY <2>5, <3>1, <3>2, <3>3, ZenonT(30)
  <2>8. /\ IsFiniteSet(Stored(peers) \ {<<hash, p0>>})
        /\ Cardinality(Stored(peers) \ {<<hash, p0>>}) = Cardinality(Stored(peers)) - 1
    BY <1>9, <2>7, FS_RemoveElement, Zenon
  <2>9. IsFiniteSet(Stored(peers')) /\ Cardinality(Stored(peers')) = Cardinality(Stored(peers)) - 1 + 1
    <3> DEFINE S == Stored(peers) \ {<<hash, p0>>}
               e == <<hash, q0>>
    <3>1. IsFiniteSet(S) /\ e \notin S /\ Cardinality(S) = Cardinality(Stored(peers)) - 1
      BY <2>7, <2>8, Zenon
    <3>2. Stored(peers') = S \cup {e}
      BY <2>6, Zenon
    <3> HIDE DEF S, e
    <3>3. IsFiniteSet(S \cup {e}) /\ Cardinality(S \cup {e}) = Cardinality(S) + 1
      BY <3>1, FS_AddElement, Zenon
    <3> QED BY <3>1, <3>2, <3>3, Zenon
  <2>10. peersLen' = Cardinality(Stored(peers')) /\ peersLen' <= MaxPeers
    BY <1>9, <2>1, <2>9
  <2>11. new \subseteq Announced
    BY <1>11, <2>4, Zenon
  <2>12. \A p, q \in new : p.addr = q.addr /\ p.port = q.port => p = q
    BY <1>10, <2>3, <2>4
  <2>13. \A p \in new : p.by \in given /\ p.addr = p.by[2]
    BY <1>12, <2>3, <2>4, Zenon
  <2> QED BY <1>13, <2>1, <2>9, <2>10, <2>11, <2>12, <2>13, ZenonT(30)
<1> QED BY <1>14, <1>15, Zenon

\* The store of announced peers keeps to its limits and to the tokens it gave, for any number of
\* nodes, hashes, announces, collections and restarts: the counter that limits it is exact, a
\* stored peer was announced by a node that had asked for a token from its address, and once the
\* collector has run after a start no token is left that is older than TOKEN_TTL and one run of
\* the collector.  It says nothing of how long the process was down: until that first run the
\* tokens of the dump are accepted whatever their age.
THEOREM StoreStaysSound == StoreSpec => []PeerStoreIsSound
<1>1. StoreInit => StoreInv
  <2> SUFFICES ASSUME StoreInit PROVE StoreInv
    BY Zenon
  <2>1. Stored(peers) = {}
    BY StoredEntries DEF StoreInit
  <2>2. PeersLenIsExact /\ IsFiniteSet(Stored(peers))
    <3>1. IsFiniteSet(Stored(peers)) /\ Cardinality(Stored(peers)) = 0
      BY <2>1, FS_EmptySet, Zenon
    <3> QED BY <3>1, StoreAssumption DEF StoreInit, PeersLenIsExact
  <2>3. StoreTypes
    BY DEF StoreInit, StoreTypes
  <2>4. TokensAreGiven /\ OldestIsFirst /\ OneEntryEach /\ StoredAskedFirst
    BY DEF StoreInit, TokensAreGiven, OldestIsFirst, OneEntryEach, StoredAskedFirst
  <2>5. TokensExpire
    BY DEF StoreInit, TokensExpire
  <2> QED BY <2>2, <2>3, <2>4, <2>5, Zenon DEF StoreInv, PeerStoreIsSound
<1>2. StoreInv /\ [StoreNext]_storeVars => StoreInv'
  <2> SUFFICES ASSUME StoreInv, [StoreNext]_storeVars PROVE StoreInv'
    BY Zenon
  <2>1. ASSUME NEW id \in Ids, NEW addr \in StoreAddrs, GenTokenFor(id, addr) PROVE StoreInv'
    BY <2>1, GenTokenKeeps, Zenon
  <2>2. ASSUME NEW id \in Ids, NEW addr \in StoreAddrs, NEW port \in Ports, NEW hash \in Hashes,
               NEW k \in DOMAIN storeTokens, StorePeer(id, addr, port, hash, k)
        PROVE  StoreInv'
    BY <2>2, StorePeerKeeps, Zenon
  <2>3. CASE GarbageCollectPeers
    BY <2>3, CollectorKeeps, Zenon
  <2>4. CASE StoreTick
    BY <2>4, StoreTickKeeps, Zenon
  <2>5. ASSUME NEW down \in 0..MaxDown, Reload(down) PROVE StoreInv'
    <3>1. down \in Nat
      OBVIOUS
    <3> QED BY <2>5, <3>1, ReloadKeeps, Zenon
  <2>6. CASE UNCHANGED storeVars
    <3>1. StoreTypes' /\ TokensAreGiven' /\ TokensExpire' /\ OldestIsFirst'
      BY <2>6 DEF storeVars, StoreInv, StoreTypes, TokensAreGiven, PeerStoreIsSound, TokensExpire,
         OldestIsFirst, OldestKept
    <3> QED BY <2>6, <3>1, TokenStep, Zenon DEF storeVars
  <2> QED BY <2>1, <2>2, <2>3, <2>4, <2>5, <2>6, Zenon DEF StoreNext
<1>3. StoreInv => PeerStoreIsSound
  BY Zenon DEF StoreInv
<1> QED BY <1>1, <1>2, <1>3, PTL DEF StoreSpec

-----------------------------------------------------------------------------
(* Transaction numbers. *)

Numbers == {r.nth : r \in waiting}
InProgress == Burst + Refill * Timeout

TypeOK ==
    /\ clock \in Nat /\ tokens \in Nat /\ next \in Nat /\ made \in Nat
    /\ tokens <= Burst
    /\ waiting \subseteq [nth : Nat, seq : Nat, addr : Addrs, sent : Nat]
    /\ inflight \subseteq [tid : Int, addr : Addrs, for : Nat]
    /\ replies \subseteq [tid : Int, addr : Addrs, for : Nat, sent : Nat]
    /\ misled \in BOOLEAN

\* Requests in progress are recent, numbered apart, and few.
Recent ==
    /\ \A r \in waiting : /\ r.nth < made /\ r.seq < next
                          /\ r.sent <= clock /\ clock <= r.sent + Timeout
                          /\ made - r.nth + tokens <= Burst + Refill * (clock - r.sent)
    /\ \A r, q \in waiting : r.nth = q.nth \/ r.seq = q.seq => r = q

\* The numbers used since a moment, and those that can still be used without a refill.
Spent(seq, sent) ==
    next - seq + 2 * tokens + Cardinality(Numbers)
        <= 2 * Burst + InProgress + 2 * (Refill * (clock - sent))

Window ==
    /\ \A r \in waiting : Spent(r.seq, r.sent)
    /\ \A m \in replies : /\ Spent(m.for, m.sent)
                          /\ m.for < next /\ m.tid = Tid(m.for)
                          /\ m.sent <= clock /\ clock <= m.sent + NetLife

Tracked == WaitingIsTracked /\ \A e \in inflight : e.tid = Tid(e.for)

IInv == TypeOK /\ Recent /\ Window /\ Tracked /\ AnswerReachesItsRequest

----------------------------------------------------------------------------
\* Two numbers less than the number space apart are told apart by the transaction number.
LEMMA TidsDiffer ==
  ASSUME NEW a \in Nat, NEW b \in Nat, TidSpace \in Nat, TidSpace > 0,
         a - b < TidSpace, b - a < TidSpace, Tid(a) = Tid(b)
  PROVE  a = b
<1> DEFINE qa == a \div TidSpace
           qb == b \div TidSpace
<1>1. qa \in Int /\ qb \in Int /\ a = TidSpace * qa + (a % TidSpace) /\ b = TidSpace * qb + (b % TidSpace)
  BY SMTT(30)
<1>2. a - b = TidSpace * (qa - qb)
  BY <1>1, SMTT(30) DEF Tid
<1>3. \A d \in Int : d >= 1 => TidSpace * d >= TidSpace
  BY SMTT(30)
<1>4. \A d \in Int : d <= -1 => TidSpace * d <= -TidSpace
  BY SMTT(30)
<1>5. qa - qb \in Int
  BY <1>1
<1>6. ~(qa - qb >= 1)
  <2> HIDE DEF qa, qb
  <2> QED BY <1>2, <1>3, <1>5, SMTT(30)
<1>7. ~(qa - qb <= -1)
  <2> HIDE DEF qa, qb
  <2> QED BY <1>2, <1>4, <1>5, SMTT(30)
<1>8. qa - qb = 0
  <2> HIDE DEF qa, qb
  <2> QED BY <1>5, <1>6, <1>7
<1> HIDE DEF qa, qb
<1> QED BY <1>2, <1>8, <1>5, SMTT(30)

\* A product grows with its second factor, and by one factor at a time.
LEMMA Products ==
  ASSUME NEW n \in Nat
  PROVE  /\ \A x, y \in Int : x <= y => n * x <= n * y
         /\ \A x \in Int : n * (x + 1) = n * x + n
         /\ \A x \in Int : n * x \in Int
         /\ n * 0 = 0
BY SMTT(30)

\* The requests in progress are no more than permits of a timeout.
LEMMA FewInProgress ==
  ASSUME TypeOK, Recent
  PROVE  /\ IsFiniteSet(Numbers) /\ Cardinality(Numbers) \in Nat
         /\ Cardinality(Numbers) <= InProgress
         /\ InProgress \in Nat
<1>1. InProgress \in Nat
  BY DhtAssumption, Products, SMTT(30) DEF InProgress
<1>2. ASSUME NEW r \in waiting PROVE r.nth \in (made - InProgress)..(made - 1)
  <2>1. clock - r.sent <= Timeout /\ clock - r.sent \in Int /\ Timeout \in Int /\ Refill \in Nat
    BY DhtAssumption DEF TypeOK, Recent
  <2>2. Refill * (clock - r.sent) <= Refill * Timeout
    BY <2>1, Products, Zenon
  <2>3. Refill * (clock - r.sent) \in Int /\ Refill * Timeout \in Int
    BY <2>1, Products, Zenon
  <2> QED BY <1>1, <2>2, <2>3, DhtAssumption DEF TypeOK, Recent, InProgress
<1>3. Numbers \subseteq (made - InProgress)..(made - 1)
  BY <1>2, Zenon DEF Numbers
<1>4. made - InProgress \in Int /\ made - 1 \in Int
  BY <1>1 DEF TypeOK
<1>5. /\ IsFiniteSet((made - InProgress)..(made - 1))
      /\ Cardinality((made - InProgress)..(made - 1)) <= InProgress
  <2>1. Cardinality((made - InProgress)..(made - 1))
          = IF made - InProgress > made - 1 THEN 0 ELSE (made - 1) - (made - InProgress) + 1
    BY <1>4, FS_Interval, Zenon
  <2>2. IsFiniteSet((made - InProgress)..(made - 1))
    BY <1>4, FS_Interval, Zenon
  <2> QED BY <2>1, <2>2, <1>1 DEF TypeOK
<1>6. IsFiniteSet(Numbers) /\ Cardinality(Numbers) <= Cardinality((made - InProgress)..(made - 1))
  BY <1>3, <1>5, FS_Subset, Zenon
<1>7. Cardinality(Numbers) \in Nat /\ Cardinality((made - InProgress)..(made - 1)) \in Nat
  BY <1>5, <1>6, FS_CardinalityType, Zenon
<1> QED BY <1>1, <1>5, <1>6, <1>7

\* What is awaited or under way lies less than the number space back.
LEMMA NearNumbers ==
  ASSUME TypeOK, Recent, NEW seq \in Nat, NEW sent \in Nat,
         Spent(seq, sent), sent <= clock, clock <= sent + NetLife
  PROVE  next - seq < TidSpace
<1>1. Cardinality(Numbers) \in Nat /\ InProgress \in Nat
  BY FewInProgress, Zenon
<1>2. Refill * (clock - sent) <= Refill * NetLife
  <2>1. clock - sent <= NetLife /\ clock - sent \in Int /\ NetLife \in Int /\ Refill \in Nat
    BY DhtAssumption DEF TypeOK
  <2> QED BY <2>1, Products, Zenon
<1>3. Refill * (clock - sent) \in Int /\ Refill * NetLife \in Int
  BY DhtAssumption, Products DEF TypeOK
<1>4. TidSpace > 2 * (Burst + Refill * NetLife) + InProgress + 1
  BY DhtAssumption, Zenon DEF InProgress
<1> QED BY <1>1, <1>2, <1>3, <1>4, DhtAssumption DEF TypeOK, Spent

\* A waiting request and a waiting request or an answer with the same number are the same.
LEMMA SameTid ==
  ASSUME TypeOK, Recent, Window, NEW r \in waiting
  PROVE  /\ next - r.seq < TidSpace
         /\ \A q \in waiting : Tid(q.seq) = Tid(r.seq) => q = r
         /\ \A m \in replies : Tid(m.for) = Tid(r.seq) => m.for = r.seq
         /\ Tid(next) # Tid(r.seq)
<1>1. TidSpace \in Nat /\ TidSpace > 0 /\ Timeout <= NetLife /\ Timeout \in Nat /\ NetLife \in Nat
  <2>1. /\ Refill * NetLife \in Int /\ Refill * Timeout \in Int
        /\ Refill * NetLife >= 0 /\ Refill * Timeout >= 0
    BY DhtAssumption, SMTT(30)
  <2> QED BY <2>1, DhtAssumption
<1>2. ASSUME NEW q \in waiting PROVE next - q.seq < TidSpace /\ q.seq < next /\ q.seq \in Nat
  <2>1. q.seq \in Nat /\ q.sent \in Nat /\ q.sent <= clock /\ clock <= q.sent + NetLife /\ q.seq < next
    BY <1>1 DEF TypeOK, Recent
  <2>2. Spent(q.seq, q.sent)
    BY Zenon DEF Window
  <2> QED BY <2>1, <2>2, NearNumbers, Zenon
<1>3. ASSUME NEW m \in replies PROVE next - m.for < TidSpace /\ m.for < next /\ m.for \in Nat
  <2>1. m.for \in Nat /\ m.sent \in Nat /\ m.sent <= clock /\ clock <= m.sent + NetLife /\ m.for < next
    BY Zenon DEF TypeOK, Window
  <2>2. Spent(m.for, m.sent)
    BY Zenon DEF Window
  <2> QED BY <2>1, <2>2, NearNumbers, Zenon
<1>4. ASSUME NEW a \in Nat, next - a < TidSpace, a < next, Tid(a) = Tid(r.seq) PROVE a = r.seq
  <2>1. a - r.seq < TidSpace /\ r.seq - a < TidSpace /\ r.seq \in Nat
    BY <1>1, <1>2, <1>4 DEF TypeOK
  <2> QED BY <1>1, <1>4, <2>1, TidsDiffer, Zenon
<1>5. \A q \in waiting : Tid(q.seq) = Tid(r.seq) => q = r
  BY <1>2, <1>4, Zenon DEF Recent
<1>6. \A m \in replies : Tid(m.for) = Tid(r.seq) => m.for = r.seq
  BY <1>3, <1>4, Zenon
<1>7. Tid(next) # Tid(r.seq)
  <2> SUFFICES ASSUME Tid(next) = Tid(r.seq) PROVE FALSE
    BY Zenon
  <2>1. next - r.seq < TidSpace /\ r.seq - next < TidSpace /\ r.seq \in Nat /\ next \in Nat /\ r.seq # next
    BY <1>1, <1>2 DEF TypeOK
  <2> QED BY <1>1, <2>1, TidsDiffer, Zenon
<1> QED BY <1>2, <1>5, <1>6, <1>7, Zenon

----------------------------------------------------------------------------
\* A new request: one permit less, one number and one request in progress more.
LEMMA RequestStep ==
  ASSUME IInv, NEW addr \in Addrs, Request(addr)
  PROVE  IInv'
<1> DEFINE new == [nth |-> made, seq |-> next, addr |-> addr, sent |-> clock]
<1> USE DEF IInv
<1>1. /\ clock' = clock /\ tokens' = tokens - 1 /\ made' = made + 1 /\ next' = next + 1
      /\ tokens > 0 /\ waiting' = waiting \cup {new} /\ misled' = misled
      /\ replies \subseteq replies' /\ replies' \subseteq replies \cup {Reply(addr)}
      /\ inflight' = Without(Tid(next), addr) \cup {[tid |-> Tid(next), addr |-> addr, for |-> next]}
  BY Zenon DEF Request, Without
<1>2. TidSpace \in Nat /\ TidSpace > 0 /\ Tid(next) \in Int
  <2>1. /\ Refill * NetLife >= 0 /\ Refill * NetLife \in Int
        /\ Refill * Timeout >= 0 /\ Refill * Timeout \in Int
    BY DhtAssumption, SMTT(30)
  <2>2. TidSpace \in Nat /\ TidSpace > 0
    BY <2>1, DhtAssumption
  <2> QED BY <2>2, SMTT(30) DEF Tid, TypeOK
<1>3. TypeOK'
  <2>1. new \in [nth : Nat, seq : Nat, addr : Addrs, sent : Nat]
    BY Zenon DEF TypeOK
  <2>2. Reply(addr) \in [tid : Int, addr : Addrs, for : Nat, sent : Nat]
    BY <1>2, Zenon DEF TypeOK, Reply
  <2>3. inflight' \subseteq [tid : Int, addr : Addrs, for : Nat]
    BY <1>1, <1>2 DEF TypeOK, Without
  <2>4. clock' \in Nat /\ tokens' \in Nat /\ next' \in Nat /\ made' \in Nat /\ tokens' <= Burst
    BY <1>1, DhtAssumption DEF TypeOK
  <2> HIDE DEF new
  <2> QED BY <1>1, <2>1, <2>2, <2>3, <2>4, Zenon DEF TypeOK
<1>4. Refill * (clock - clock) = 0 /\ Refill \in Nat
  BY DhtAssumption, Products DEF TypeOK
<1>5. Recent'
  <2>1. ASSUME NEW r \in waiting
        PROVE  /\ r.nth < made' /\ r.seq < next'
               /\ r.sent <= clock' /\ clock' <= r.sent + Timeout
               /\ made' - r.nth + tokens' <= Burst + Refill * (clock' - r.sent)
    <3>1. Refill * (clock - r.sent) \in Int /\ Burst \in Nat
      BY DhtAssumption, Products DEF TypeOK
    <3> QED BY <1>1, <3>1 DEF TypeOK, Recent
  <2>2. /\ new.nth < made' /\ new.seq < next'
        /\ new.sent <= clock' /\ clock' <= new.sent + Timeout
        /\ made' - new.nth + tokens' <= Burst + Refill * (clock' - new.sent)
    BY <1>1, <1>4, DhtAssumption DEF TypeOK
  <2>3. \A r \in waiting : r.nth # new.nth /\ r.seq # new.seq
    BY DEF Recent, TypeOK
  <2> HIDE DEF new
  <2> QED BY <1>1, <2>1, <2>2, <2>3, ZenonT(30) DEF Recent
<1>6. Cardinality(Numbers') = Cardinality(Numbers) + 1 /\ Cardinality(Numbers) \in Nat
  <2>1. Numbers' = Numbers \cup {made}
    <3>1. new.nth = made
      BY Zenon
    <3> HIDE DEF new
    <3> QED BY <1>1, <3>1, Zenon DEF Numbers
  <2>2. made \notin Numbers
    BY DEF Numbers, Recent, TypeOK
  <2> QED BY <2>1, <2>2, FewInProgress, FS_AddElement, Zenon
<1>7. (Cardinality(Numbers) <= InProgress)' /\ InProgress \in Nat
  BY <1>3, <1>5, FewInProgress, PTL
<1>8. ASSUME NEW seq \in Nat, NEW sent \in Nat, Spent(seq, sent) PROVE Spent(seq, sent)'
  <2>1. Refill * (clock - sent) \in Int /\ Burst \in Nat
    BY DhtAssumption, Products DEF TypeOK
  <2> QED BY <1>1, <1>6, <1>7, <1>8, <2>1 DEF Spent, TypeOK
<1>9. ASSUME NEW seq \in Nat, NEW sent \in Nat, seq = next, sent = clock PROVE Spent(seq, sent)'
  <2>1. next' - seq = 1 /\ 2 * tokens' <= 2 * Burst - 2 /\ Refill * (clock' - sent) = 0
    BY <1>1, <1>4, <1>9, DhtAssumption DEF TypeOK
  <2> QED BY <1>1, <1>6, <1>7, <2>1, DhtAssumption DEF TypeOK, Spent
<1>10. Window'
  <2>1. ASSUME NEW r \in waiting' PROVE Spent(r.seq, r.sent)'
    <3>1. CASE r \in waiting
      BY <1>8, <3>1, Zenon DEF Window, TypeOK
    <3>2. CASE r = new
      <4>1. r.seq \in Nat /\ r.sent \in Nat /\ r.seq = next /\ r.sent = clock
        BY <3>2, Zenon DEF TypeOK
      <4> QED BY <1>9, <4>1, Zenon
    <3> QED BY <1>1, <3>1, <3>2, Zenon
  <2>2. ASSUME NEW m \in replies'
        PROVE  /\ Spent(m.for, m.sent)'
               /\ m.for < next' /\ m.tid = Tid(m.for)
               /\ m.sent <= clock' /\ clock' <= m.sent + NetLife
    <3>1. CASE m \in replies
      BY <1>1, <1>8, <3>1 DEF Window, TypeOK
    <3>2. CASE m = Reply(addr)
      <4>1. m.for \in Nat /\ m.sent \in Nat /\ m.for = next /\ m.sent = clock /\ m.tid = Tid(next)
        BY <3>2, Zenon DEF TypeOK, Reply
      <4>2. Spent(m.for, m.sent)'
        BY <1>9, <4>1, Zenon
      <4> QED BY <1>1, <4>1, <4>2, DhtAssumption DEF TypeOK
    <3> QED BY <1>1, <3>1, <3>2, Zenon
  <2> QED BY <2>1, <2>2, Zenon DEF Window, Tid
<1>11. Tracked'
  BY <1>1, SameTid DEF Tracked, WaitingIsTracked, Without, TypeOK
<1> QED BY <1>1, <1>3, <1>5, <1>10, <1>11, Zenon DEF AnswerReachesItsRequest

\* A request that ends is one in progress less.
LEMMA OneLess ==
  ASSUME IInv, NEW r \in waiting, waiting' = waiting \ {r}
  PROVE  /\ Cardinality(Numbers') = Cardinality(Numbers) - 1
         /\ Cardinality(Numbers) \in Nat /\ Cardinality(Numbers) <= InProgress /\ InProgress \in Nat
<1>1. Numbers' = Numbers \ {r.nth}
  BY Zenon DEF Numbers, IInv, Recent
<1>2. r.nth \in Numbers
  BY Zenon DEF Numbers
<1> QED BY <1>1, <1>2, FewInProgress, FS_RemoveElement, Zenon DEF IInv

\* What a request that ends leaves as it is, with or without an announce that takes a number.
LEMMA EndFrame ==
  ASSUME IInv, NEW r \in waiting, waiting' = waiting \ {r},
         UNCHANGED <<clock, tokens, made>>, next' \in {next, next + 1}
  PROVE  /\ Recent'
         /\ \A q \in waiting' : Spent(q.seq, q.sent)'
         /\ \A m \in replies : Spent(m.for, m.sent)' /\ m.for < next'
<1> USE DEF IInv
<1>1. Recent'
  BY DEF Recent, TypeOK
<1>2. ASSUME NEW seq \in Nat, NEW sent \in Nat, Spent(seq, sent) PROVE Spent(seq, sent)'
  <2>1. Refill * (clock - sent) \in Int /\ Burst \in Nat
    BY DhtAssumption, Products DEF TypeOK
  <2> QED BY <1>2, <2>1, OneLess DEF Spent, TypeOK
<1>3. ASSUME NEW q \in waiting PROVE Spent(q.seq, q.sent)'
  BY <1>2, Zenon DEF Window, TypeOK
<1>4. ASSUME NEW m \in replies PROVE Spent(m.for, m.sent)' /\ m.for < next'
  BY <1>2 DEF Window, TypeOK
<1> QED BY <1>1, <1>3, <1>4, Zenon

\* A timeout, a send error and an abort end a request without an announce.
LEMMA EndStep ==
  ASSUME IInv, NEW r \in waiting, GiveUp(r) \/ Abort(r)
  PROVE  IInv'
<1> USE DEF IInv
<1>1. /\ waiting' = waiting \ {r} /\ UNCHANGED <<clock, tokens, next, made, replies, misled>>
      /\ inflight' \subseteq inflight
      /\ \A e \in inflight : e \in inflight' \/ (e.tid = Tid(r.seq) /\ e.addr = r.addr)
  BY Zenon DEF GiveUp, Abort, Without
<1>2. TypeOK'
  BY <1>1, Zenon DEF TypeOK
<1>3. Recent' /\ (\A q \in waiting' : Spent(q.seq, q.sent)') /\ \A m \in replies : Spent(m.for, m.sent)'
  BY <1>1, EndFrame, Zenon
<1>4. Window'
  BY <1>1, <1>3, Zenon DEF Window
<1>5. Tracked'
  <2>1. \A q \in waiting : q # r => Tid(q.seq) # Tid(r.seq)
    BY SameTid, Zenon
  <2>2. ASSUME NEW q \in waiting, q # r
        PROVE  [tid |-> Tid(q.seq), addr |-> q.addr, for |-> q.seq] \in inflight'
    BY <1>1, <2>1, <2>2, Zenon DEF Tracked, WaitingIsTracked
  <2> QED BY <1>1, <2>2, Zenon DEF Tracked, WaitingIsTracked
<1> QED BY <1>1, <1>2, <1>3, <1>4, <1>5, Zenon DEF AnswerReachesItsRequest

\* An answer that finds no task, or no entry, changes nothing that matters.
LEMMA IdleStep ==
  ASSUME IInv, UNCHANGED <<clock, tokens, next, made, waiting, misled>>,
         replies' \subseteq replies, inflight' \subseteq inflight,
         \A r \in waiting : [tid |-> Tid(r.seq), addr |-> r.addr, for |-> r.seq] \in inflight'
  PROVE  IInv'
<1> USE DEF IInv
<1>1. TypeOK' /\ Recent'
  BY Zenon DEF TypeOK, Recent
<1>2. Numbers' = Numbers
  BY Zenon DEF Numbers
<1>3. Window'
  BY <1>2, Zenon DEF Window, Spent
<1>4. Tracked'
  BY Zenon DEF Tracked, WaitingIsTracked
<1> QED BY <1>1, <1>3, <1>4, Zenon DEF AnswerReachesItsRequest

\* An answer and, maybe, the announce it leads to.
LEMMA ReceiveStep ==
  ASSUME IInv, NEW m \in replies, Receive(m)
  PROVE  IInv'
<1> USE DEF IInv
<1>1. PICK e \in inflight, rest \in {replies, replies \ {m}} :
         /\ e.tid = m.tid /\ e.addr = m.addr
         /\ IF \E r \in waiting : r.seq = e.for
            THEN /\ waiting' = {r \in waiting : r.seq # e.for}
                 /\ misled' = (misled \/ e.for # m.for)
                 /\ Announce(m.addr, rest, inflight \ {e})
            ELSE /\ replies' = rest /\ inflight' = inflight \ {e}
                 /\ UNCHANGED <<next, waiting, misled>>
  BY ZenonT(30) DEF Receive, Answers
<1>2. UNCHANGED <<clock, tokens, made>>
  BY Zenon DEF Receive
<1>3. CASE ~\E r \in waiting : r.seq = e.for
  <2>1. \A r \in waiting : [tid |-> Tid(r.seq), addr |-> r.addr, for |-> r.seq] \in inflight \ {e}
    BY <1>3 DEF Tracked, WaitingIsTracked
  <2>2. replies' \subseteq replies /\ inflight' = inflight \ {e} /\ UNCHANGED <<next, waiting, misled>>
    BY <1>1, <1>3, Zenon
  <2> QED BY <1>2, <2>1, <2>2, IdleStep, Zenon
<1>4. CASE \E r \in waiting : r.seq = e.for
  <2>1. PICK r \in waiting : r.seq = e.for
    BY <1>4, Zenon
  <2>2. /\ waiting' = waiting \ {r} /\ misled' = (misled \/ e.for # m.for)
        /\ Announce(m.addr, rest, inflight \ {e})
    BY <1>1, <1>4, <2>1, Zenon DEF Recent
  <2>3. e.for = m.for
    <3>1. Tid(m.for) = Tid(r.seq)
      BY <1>1, <2>1, Zenon DEF Tracked, Window
    <3> QED BY <2>1, <3>1, SameTid, Zenon
  <2>4. /\ next' \in {next, next + 1} /\ inflight' \subseteq inflight
        /\ replies' \subseteq replies \cup {Reply(m.addr)}
        /\ Reply(m.addr) \in replies' /\ Reply(m.addr) \notin replies => next' = next + 1
        /\ \A f \in inflight : f = e \/ f \in inflight' \/ f.tid = Tid(next)
    BY <2>2, Zenon DEF Announce, Without
  <2>5. TypeOK'
    <3>1. Tid(next) \in Int
      <4>1. /\ Refill * NetLife >= 0 /\ Refill * NetLife \in Int
            /\ Refill * Timeout >= 0 /\ Refill * Timeout \in Int
        BY DhtAssumption, SMTT(30)
      <4>2. TidSpace \in Nat /\ TidSpace > 0
        BY <4>1, DhtAssumption
      <4> QED BY <4>2, SMTT(30) DEF Tid, TypeOK
    <3>2. Reply(m.addr) \in [tid : Int, addr : Addrs, for : Nat, sent : Nat]
      BY <3>1, Zenon DEF TypeOK, Reply
    <3> QED BY <1>2, <2>2, <2>4, <3>2 DEF TypeOK
  <2>6. /\ Recent' /\ (\A q \in waiting' : Spent(q.seq, q.sent)')
        /\ \A n \in replies : Spent(n.for, n.sent)' /\ n.for < next'
    BY <1>2, <2>2, <2>4, EndFrame, Zenon
  <2>7. ASSUME NEW seq \in Nat, NEW sent \in Nat, seq = next, sent = clock, next' = next + 1
        PROVE  Spent(seq, sent)'
    <3>1. Refill * (clock' - sent) = 0 /\ next' - seq = 1
      BY <1>2, <2>7, DhtAssumption, Products DEF TypeOK
    <3> QED BY <1>2, <2>2, <3>1, OneLess, DhtAssumption DEF Spent, TypeOK
  <2>8. ASSUME NEW n \in replies'
        PROVE  /\ Spent(n.for, n.sent)' /\ n.for < next' /\ n.tid = Tid(n.for)
               /\ n.sent <= clock' /\ clock' <= n.sent + NetLife
    <3>1. CASE n \in replies
      BY <1>2, <2>6, <3>1, Zenon DEF Window, TypeOK
    <3>2. CASE n = Reply(m.addr) /\ n \notin replies
      <4>1. n.for \in Nat /\ n.sent \in Nat /\ n.for = next /\ n.sent = clock /\ n.tid = Tid(next)
        BY <3>2, Zenon DEF TypeOK, Reply
      <4>2. next' = next + 1
        BY <2>4, <3>2, Zenon
      <4>3. Spent(n.for, n.sent)'
        BY <2>7, <4>1, <4>2, Zenon
      <4>4. next < next + 1 /\ clock <= clock /\ clock <= clock + NetLife
        BY DhtAssumption DEF TypeOK
      <4> QED BY <1>2, <4>1, <4>2, <4>3, <4>4, Zenon
    <3> QED BY <2>4, <3>1, <3>2, Zenon
  <2>9. Window'
    BY <2>6, <2>8, Zenon DEF Window, Tid
  <2>10. Tracked'
    <3>1. \A q \in waiting : Tid(next) # Tid(q.seq)
      BY SameTid, Zenon
    <3>2. ASSUME NEW q \in waiting, q # r
          PROVE  [tid |-> Tid(q.seq), addr |-> q.addr, for |-> q.seq] \in inflight'
      <4> DEFINE f == [tid |-> Tid(q.seq), addr |-> q.addr, for |-> q.seq]
      <4>1. f \in inflight
        BY Zenon DEF Tracked, WaitingIsTracked
      <4>2. f # e
        BY <2>1, <3>2 DEF Recent
      <4>3. f.tid # Tid(next)
        BY <3>1, Zenon
      <4> HIDE DEF f
      <4>4. f \in inflight'
        BY <2>4, <4>1, <4>2, <4>3, Zenon
      <4> QED BY <4>4, Zenon DEF f
    <3>3. \A f \in inflight' : f.tid = Tid(f.for)
      BY <2>4, Zenon DEF Tracked
    <3>4. WaitingIsTracked'
      BY <2>2, <3>2, Zenon DEF WaitingIsTracked, Tid
    <3> QED BY <3>3, <3>4, Zenon DEF Tracked, Tid
  <2> QED BY <2>2, <2>3, <2>5, <2>6, <2>9, <2>10, Zenon DEF AnswerReachesItsRequest
<1> QED BY <1>3, <1>4, Zenon

\* A refill gives as much as the passing of time allows.
LEMMA TickStep ==
  ASSUME IInv, Tick
  PROVE  IInv'
<1> USE DEF IInv
<1>1. /\ clock' = clock + 1 /\ UNCHANGED <<next, made, waiting, inflight, misled>>
      /\ tokens' \in Nat /\ tokens' <= Burst /\ tokens' <= tokens + Refill
      /\ replies' \subseteq replies /\ \A m \in replies' : clock < m.sent + NetLife
      /\ \A r \in waiting : clock < r.sent + Timeout
  BY DhtAssumption DEF Tick, TypeOK
<1>2. TypeOK'
  BY <1>1 DEF TypeOK
<1>3. ASSUME NEW sent \in Nat
      PROVE  Refill * (clock' - sent) = Refill * (clock - sent) + Refill /\ Refill * (clock - sent) \in Int
  <2>1. clock' - sent = (clock - sent) + 1 /\ clock - sent \in Int /\ Refill \in Nat
    BY <1>1, DhtAssumption DEF TypeOK
  <2> QED BY <2>1, Products, Zenon
<1>4. ASSUME NEW r \in waiting
      PROVE  /\ r.sent <= clock' /\ clock' <= r.sent + Timeout
             /\ made' - r.nth + tokens' <= Burst + Refill * (clock' - r.sent)
  BY <1>1, <1>3, DhtAssumption DEF TypeOK, Recent
<1>5. Recent'
  BY <1>1, <1>4, Zenon DEF Recent
<1>6. Numbers' = Numbers /\ Cardinality(Numbers) \in Nat /\ InProgress \in Nat
  BY <1>1, FewInProgress, Zenon DEF Numbers
<1>7. ASSUME NEW seq \in Nat, NEW sent \in Nat, Spent(seq, sent) PROVE Spent(seq, sent)'
  BY <1>1, <1>3, <1>6, <1>7, DhtAssumption DEF Spent, TypeOK
<1>8. ASSUME NEW m \in replies'
      PROVE  /\ Spent(m.for, m.sent)' /\ m.for < next' /\ m.tid = Tid(m.for)
             /\ m.sent <= clock' /\ clock' <= m.sent + NetLife
  <2>1. m \in replies /\ m.for \in Nat /\ m.sent \in Nat
    BY <1>1, Zenon DEF TypeOK
  <2>2. Spent(m.for, m.sent)'
    BY <1>7, <2>1, Zenon DEF Window
  <2> QED BY <1>1, <2>1, <2>2, DhtAssumption DEF Window, TypeOK
<1>9. ASSUME NEW r \in waiting PROVE Spent(r.seq, r.sent)'
  BY <1>7, Zenon DEF Window, TypeOK
<1>10. Window'
  BY <1>1, <1>8, <1>9, Zenon DEF Window, Tid
<1> QED BY <1>1, <1>2, <1>5, <1>10, Zenon DEF Tracked, WaitingIsTracked, AnswerReachesItsRequest

----------------------------------------------------------------------------
\* An answer reaches the request whose query it answers, and whoever waits has its entry, for
\* every rate limit, timeout and lifetime of datagrams that leave room among the transaction
\* numbers (request and on_received_message, dht.rs:652-685 and 797-845).
THEOREM AnswersFindTheirRequest ==
  Spec => [](AnswerReachesItsRequest /\ WaitingIsTracked)
<1>1. Init => IInv
  <2> SUFFICES ASSUME Init PROVE IInv
    BY Zenon
  <2>1. TypeOK
    <3>1. clock = 0 /\ tokens = Burst /\ next = 0 /\ made = 0 /\ Burst \in Nat
      BY DhtAssumption, Zenon DEF Init
    <3>2. clock \in Nat /\ tokens \in Nat /\ next \in Nat /\ made \in Nat /\ tokens <= Burst
      BY <3>1
    <3> QED BY <3>2, Zenon DEF Init, TypeOK
  <2>2. Recent /\ Window /\ Tracked
    BY Zenon DEF Init, Recent, Window, Tracked, WaitingIsTracked
  <2> QED BY <2>1, <2>2, Zenon DEF Init, IInv, AnswerReachesItsRequest
<1>2. IInv /\ [Next]_vars => IInv'
  <2> SUFFICES ASSUME IInv, [Next]_vars PROVE IInv'
    BY Zenon
  <2>1. ASSUME NEW addr \in Addrs, Request(addr) PROVE IInv'
    BY <2>1, RequestStep, Zenon
  <2>2. ASSUME NEW m \in replies, Receive(m) PROVE IInv'
    BY <2>2, ReceiveStep, Zenon
  <2>3. ASSUME NEW m \in replies, ReceiveUnknown(m) PROVE IInv'
    <3>1. UNCHANGED <<clock, tokens, next, made, waiting, inflight, misled>> /\ replies' \subseteq replies
      BY <2>3, Zenon DEF ReceiveUnknown
    <3> QED BY <3>1, IdleStep, Zenon DEF IInv, Tracked, WaitingIsTracked
  <2>4. ASSUME NEW r \in waiting, TimesOut(r) \/ SendFails(r) \/ Abort(r) PROVE IInv'
    BY <2>4, EndStep, Zenon DEF TimesOut, SendFails
  <2>5. CASE Tick
    BY <2>5, TickStep, Zenon
  <2>6. CASE UNCHANGED vars
    <3>1. UNCHANGED <<clock, tokens, next, made, waiting, inflight, misled, replies>>
      BY <2>6, Zenon DEF vars
    <3> QED BY <3>1, IdleStep, Zenon DEF IInv, Tracked, WaitingIsTracked
  <2> QED BY <2>1, <2>2, <2>3, <2>4, <2>5, <2>6, Zenon DEF Next
<1>3. IInv => AnswerReachesItsRequest /\ WaitingIsTracked
  BY Zenon DEF IInv, Tracked
<1> QED BY <1>1, <1>2, <1>3, PTL DEF Spec

=============================================================================
