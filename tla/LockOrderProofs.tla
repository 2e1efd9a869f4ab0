--------------------------- MODULE LockOrderProofs ---------------------------
(***************************************************************************)
(* No set of threads waits for itself, for any threads and any number of   *)
(* shards, as long as the selection of a live torrent is not changed       *)
(* (UpdateOnlyFiles takes a shard under the lock of the live state).       *)
(*                                                                         *)
(* The locks have ranks: the session's database, the torrent, the shards   *)
(* in the order of the map, the live state, the streams.  In every handler *)
(* a guard is dropped, and between its lock and its drop only locks of a   *)
(* greater rank are asked for.  This passes to what is left of a handler,  *)
(* and to what is left while a lock is held, which is the inductive        *)
(* invariant.  In a set of threads that wait for each other, the one that  *)
(* asks for the lock of the greatest rank would wait for a thread that     *)
(* holds this lock and asks for one of a greater rank.                     *)
(***************************************************************************)
EXTENDS LockOrder, SequenceTheorems, WellFoundedInduction, TLAPS

N == Len(Shards)

Rank(l) ==
  CASE l = "db" -> 0
    [] l = "torrent" -> 1
    [] l = "state" -> N + 2
    [] l = "streams" -> N + 3
    [] OTHER -> 1 + (CHOOSE i \in 1 .. N : Shards[i] = l)

LockOp == [op : {"read", "write", "drop"}, lock : Lock]

\* Acquisitions at positions i to j of s are of rank k or more.
From(s, i, j, k) == \A p \in i .. j : s[p].op # "drop" => Rank(s[p].lock) >= k

\* The guard of l is dropped at or after position i of s, and until then only
\* locks of greater rank are asked for.
Released(s, i, l) ==
  \E d \in i .. Len(s) : s[d] = Op("drop", l) /\ From(s, i, d - 1, Rank(l) + 1)

Nested(s) ==
  \A i \in 1 .. Len(s) : s[i].op # "drop" => Released(s, i + 1, s[i].lock)

\* A part of a handler that takes locks of rank k or more.
Ordered(s, k) == s \in Seq(LockOp) /\ Nested(s) /\ From(s, 1, Len(s), k)

-----------------------------------------------------------------------------
(* The ranks of the locks are different, and bounded.                      *)
LEMMA Ranks ==
  /\ N \in Nat \ {0}
  /\ Rank("db") = 0 /\ Rank("torrent") = 1
  /\ Rank("state") = N + 2 /\ Rank("streams") = N + 3
  /\ \A i \in 1 .. N : Shards[i] \in Shard /\ Rank(Shards[i]) = 1 + i
  /\ \A l \in Lock : Rank(l) \in 0 .. N + 3
  /\ \A s \in Shard : Rank(s) \in 2 .. N + 1 /\ s \in Lock
<1>1. /\ Shards \in Seq(STRING) /\ N \in Nat \ {0} /\ DOMAIN Shards = 1 .. N
      /\ \A i, j \in 1 .. N : Shards[i] = Shards[j] => i = j
      /\ Shard = {Shards[i] : i \in 1 .. N}
      /\ \A s \in Shard : s \notin {"db", "torrent", "state", "streams"}
  <2>1. Shards \in Seq(STRING) /\ N \in Nat \ {0} /\ DOMAIN Shards = 1 .. N
    BY ShardsAssumption, LenProperties, EmptySeq, Zenon DEF N
  <2>2. \A i, j \in 1 .. N : Shards[i] = Shards[j] => i = j
    BY <2>1, ShardsAssumption, Zenon DEF IsInjective
  <2>3. Shard = {Shards[i] : i \in 1 .. N}
    BY <2>1, Zenon DEF Shard, Range
  <2>4. \A s \in Shard : s \notin {"db", "torrent", "state", "streams"}
    BY ShardsAssumption, Zenon DEF Shard
  <2>. QED
    BY <2>1, <2>2, <2>3, <2>4, Zenon
<1>2. ASSUME NEW i \in 1 .. N PROVE Shards[i] \in Shard /\ Rank(Shards[i]) = 1 + i
  <2>1. Shards[i] \in Shard
    BY <1>1, Zenon
  <2>2. (CHOOSE j \in 1 .. N : Shards[j] = Shards[i]) = i
    BY <1>1, Zenon
  <2>. QED
    BY <1>1, <2>1, <2>2, Zenon DEF Rank
<1>3. ASSUME NEW s \in Shard PROVE Rank(s) \in 2 .. N + 1 /\ s \in Lock
  <2>1. PICK i \in 1 .. N : s = Shards[i]
    BY <1>1, Zenon
  <2>. QED
    BY <1>1, <1>2, <2>1 DEF Lock
<1>4. /\ Rank("db") = 0 /\ Rank("torrent") = 1
      /\ Rank("state") = N + 2 /\ Rank("streams") = N + 3
  BY Zenon DEF Rank
<1>. QED
  BY <1>1, <1>2, <1>3, <1>4 DEF Lock

LEMMA OpFields ==
  ASSUME NEW op, NEW l
  PROVE  Op(op, l).op = op /\ Op(op, l).lock = l
BY Zenon DEF Op

(* What is ordered from k on is ordered from a smaller rank on.            *)
LEMMA OrderedWeaker ==
  ASSUME NEW s, NEW k \in Nat, NEW m \in Nat, m <= k, Ordered(s, k)
  PROVE  Ordered(s, m)
<1>1. ASSUME NEW p \in 1 .. Len(s), s[p].op # "drop"
      PROVE  Rank(s[p].lock) >= m
  <2>1. s[p] \in LockOp /\ Rank(s[p].lock) >= k
    BY <1>1, ElementOfSeq, Zenon DEF Ordered, From
  <2>2. Rank(s[p].lock) \in Nat
    BY <2>1, Ranks DEF LockOp
  <2>. QED
    BY <2>1, <2>2
<1>. QED
  BY <1>1, Zenon DEF Ordered, From

LEMMA OrderedEmpty ==
  ASSUME NEW k \in Nat
  PROVE  Ordered(<<>>, k)
BY DEF Ordered, Nested, From

(* A part of a sequence that begins after its first m elements.            *)
LEMMA FromShifted ==
  ASSUME NEW s, NEW b, NEW m \in Nat, NEW lo \in Nat, NEW hi \in Int, NEW k,
         \A q \in lo .. hi : s[m + q] = b[q], From(b, lo, hi, k)
  PROVE  From(s, m + lo, m + hi, k)
<1>. SUFFICES ASSUME NEW p \in m + lo .. m + hi, s[p].op # "drop"
              PROVE  Rank(s[p].lock) >= k
  BY Zenon DEF From
<1>1. p - m \in lo .. hi /\ m + (p - m) = p
  OBVIOUS
<1>2. s[p] = b[p - m]
  BY <1>1, Zenon
<1>. QED
  BY <1>1, <1>2, Zenon DEF From

LEMMA Positions ==
  ASSUME NEW m \in Nat, NEW n \in Nat, NEW j \in 1 .. n, NEW d \in j + 1 .. n
  PROVE  /\ j + 1 \in Nat /\ d - 1 \in Int
         /\ m + (j + 1) = (m + j) + 1 /\ m + (d - 1) = (m + d) - 1
         /\ \A q \in j + 1 .. d - 1 : q \in 1 .. n
OBVIOUS

(* Two parts of a handler, one after the other.                            *)
LEMMA OrderedConcat ==
  ASSUME NEW k \in Nat, NEW a, NEW b, Ordered(a, k), Ordered(b, k)
  PROVE  Ordered(a \o b, k)
<1>. DEFINE s == a \o b
<1>1. /\ a \in Seq(LockOp) /\ b \in Seq(LockOp)
      /\ s \in Seq(LockOp) /\ Len(s) = Len(a) + Len(b)
      /\ Len(a) \in Nat /\ Len(b) \in Nat
      /\ \A i \in 1 .. Len(a) : s[i] = a[i]
      /\ \A i \in 1 .. Len(b) : s[Len(a) + i] = b[i]
  BY ConcatProperties, LenProperties DEF Ordered
<1>. HIDE DEF s
<1>2. ASSUME NEW i \in 1 .. Len(s), i > Len(a)
      PROVE  \E j \in 1 .. Len(b) : i = Len(a) + j /\ s[i] = b[j]
  <2>1. i - Len(a) \in 1 .. Len(b) /\ i = Len(a) + (i - Len(a))
    BY <1>1, <1>2
  <2>. QED
    BY <1>1, <2>1, Zenon
<1>3. From(s, 1, Len(s), k)
  <2>. SUFFICES ASSUME NEW p \in 1 .. Len(s), s[p].op # "drop"
                PROVE  Rank(s[p].lock) >= k
    BY Zenon DEF From
  <2>1. CASE p <= Len(a)
    BY <1>1, <2>1 DEF Ordered, From
  <2>2. CASE p > Len(a)
    BY <1>2, <2>2, Zenon DEF Ordered, From
  <2>. QED
    BY <1>1, <2>1, <2>2
<1>4. Nested(s)
  <2>. SUFFICES ASSUME NEW i \in 1 .. Len(s), s[i].op # "drop"
                PROVE  Released(s, i + 1, s[i].lock)
    BY Zenon DEF Nested
  <2>1. CASE i <= Len(a)
    <3>1. i \in 1 .. Len(a) /\ s[i] = a[i]
      BY <1>1, <2>1
    <3>2. PICK d \in i + 1 .. Len(a) : /\ a[d] = Op("drop", a[i].lock)
                                       /\ From(a, i + 1, d - 1, Rank(a[i].lock) + 1)
      BY <3>1 DEF Ordered, Nested, Released
    <3>3. d \in i + 1 .. Len(s) /\ s[d] = Op("drop", s[i].lock)
      BY <1>1, <3>1, <3>2
    <3>4. ASSUME NEW p \in i + 1 .. d - 1, s[p].op # "drop"
          PROVE  Rank(s[p].lock) >= Rank(s[i].lock) + 1
      <4>1. p \in 1 .. Len(a)
        BY <1>1, <3>2
      <4>2. s[p] = a[p]
        BY <1>1, <4>1, Zenon
      <4>. QED
        BY <3>1, <3>2, <3>4, <4>2, Zenon DEF From
    <3>. QED
      BY <3>3, <3>4, Zenon DEF Released, From
  <2>2. CASE i > Len(a)
    <3>1. PICK j \in 1 .. Len(b) : i = Len(a) + j /\ s[i] = b[j]
      BY <1>2, <2>2, Zenon
    <3>2. PICK d \in j + 1 .. Len(b) : /\ b[d] = Op("drop", b[j].lock)
                                       /\ From(b, j + 1, d - 1, Rank(b[j].lock) + 1)
      BY <3>1, Zenon DEF Ordered, Nested, Released
    <3>3. Len(a) + d \in i + 1 .. Len(s) /\ s[Len(a) + d] = Op("drop", s[i].lock)
      <4>1. d \in 1 .. Len(b)
        BY <3>1, <3>2
      <4>. QED
        BY <1>1, <3>1, <3>2, <4>1
    <3>4. /\ j + 1 \in Nat /\ d - 1 \in Int
          /\ Len(a) + (j + 1) = i + 1 /\ Len(a) + (d - 1) = (Len(a) + d) - 1
          /\ \A q \in j + 1 .. d - 1 : q \in 1 .. Len(b)
      BY <1>1, <3>1, Positions, ZenonT(30)
    <3>5. From(s, Len(a) + (j + 1), Len(a) + (d - 1), Rank(s[i].lock) + 1)
      BY <1>1, <3>1, <3>2, <3>4, FromShifted, ZenonT(30)
    <3>. QED
      BY <3>3, <3>4, <3>5, Zenon DEF Released
  <2>. QED
    BY <1>1, <2>1, <2>2
<1>. QED
  BY <1>1, <1>3, <1>4, Zenon DEF Ordered, s

(* A guard around a part that takes locks of a greater rank.               *)
LEMMA OrderedGuard ==
  ASSUME NEW l \in Lock, NEW op \in {"read", "write"}, NEW body,
         Ordered(body, Rank(l) + 1)
  PROVE  Ordered(<<Op(op, l)>> \o body \o <<Op("drop", l)>>, Rank(l))
<1>. DEFINE s == <<Op(op, l)>> \o body \o <<Op("drop", l)>>
            n == Len(body)
<1>0. Rank(l) \in Nat /\ body \in Seq(LockOp) /\ n \in Nat
      /\ Op(op, l) \in LockOp /\ Op("drop", l) \in LockOp
  BY Ranks, LenProperties DEF Ordered, LockOp, Op
<1>1. /\ s \in Seq(LockOp) /\ Len(s) = n + 2
      /\ s[1] = Op(op, l) /\ s[n + 2] = Op("drop", l)
      /\ \A i \in 1 .. n : s[i + 1] = body[i]
  BY <1>0
<1>. HIDE DEF s
<1>2. ASSUME NEW i \in 2 .. n + 1
      PROVE  i - 1 \in 1 .. n /\ s[i] = body[i - 1]
  BY <1>0, <1>1
<1>3. From(s, 2, n + 1, Rank(l) + 1)
  BY <1>0, <1>2, Zenon DEF From, Ordered
<1>4. From(s, 1, Len(s), Rank(l))
  <2>. SUFFICES ASSUME NEW p \in 1 .. Len(s), s[p].op # "drop"
                PROVE  Rank(s[p].lock) >= Rank(l)
    BY Zenon DEF From
  <2>1. CASE p = 1
    BY <1>0, <1>1, <2>1, OpFields
  <2>2. CASE p \in 2 .. n + 1
    <3>1. s[p] \in LockOp
      BY <1>1, ElementOfSeq, Zenon
    <3>2. Rank(s[p].lock) \in Nat
      BY <3>1, Ranks DEF LockOp
    <3>. QED
      BY <1>0, <1>3, <2>2, <3>2 DEF From
  <2>3. CASE p = n + 2
    BY <1>1, <2>3, OpFields
  <2>. QED
    BY <1>0, <1>1, <2>1, <2>2, <2>3
<1>5. Nested(s)
  <2>. SUFFICES ASSUME NEW i \in 1 .. Len(s), s[i].op # "drop"
                PROVE  Released(s, i + 1, s[i].lock)
    BY Zenon DEF Nested
  <2>1. CASE i = 1
    <3>1. s[i].lock = l /\ n + 2 \in i + 1 .. Len(s) /\ (n + 2) - 1 = n + 1 /\ i + 1 = 2
      BY <1>0, <1>1, <2>1, OpFields
    <3>. QED
      BY <1>1, <1>3, <3>1, Zenon DEF Released
  <2>2. CASE i \in 2 .. n + 1
    <3>1. i - 1 \in 1 .. n /\ s[i] = body[i - 1]
      BY <1>2, <2>2, Zenon
    <3>2. PICK d \in (i - 1) + 1 .. n :
             /\ body[d] = Op("drop", s[i].lock)
             /\ From(body, (i - 1) + 1, d - 1, Rank(s[i].lock) + 1)
      BY <3>1 DEF Ordered, Nested, Released
    <3>3. d + 1 \in i + 1 .. Len(s) /\ s[d + 1] = Op("drop", s[i].lock)
      BY <1>0, <1>1, <3>1, <3>2
    <3>4. /\ (i - 1) + 1 \in Nat /\ d - 1 \in Int
          /\ 1 + ((i - 1) + 1) = i + 1 /\ 1 + (d - 1) = (d + 1) - 1
          /\ \A q \in (i - 1) + 1 .. d - 1 : q \in 1 .. n
      BY <1>0, <3>1
    <3>5. \A q \in (i - 1) + 1 .. d - 1 : s[1 + q] = body[q]
      BY <1>1, <3>4
    <3>6. From(s, 1 + ((i - 1) + 1), 1 + (d - 1), Rank(s[i].lock) + 1)
      BY <3>2, <3>4, <3>5, FromShifted, ZenonT(30)
    <3>. QED
      BY <3>3, <3>4, <3>6, Zenon DEF Released
  <2>3. CASE i = n + 2
    BY <1>1, <2>3, OpFields
  <2>. QED
    BY <1>0, <1>1, <2>1, <2>2, <2>3
<1>. QED
  BY <1>1, <1>4, <1>5, Zenon DEF Ordered, s

(* An iteration over the map of peers.  Shard j is locked at position      *)
(* Locks(j), and dropped at Drops(j), when the next one has been locked.   *)
Locks(j) == IF j = 1 THEN 1 ELSE 2 * j - 2
Drops(j) == IF j = N THEN 2 * N ELSE 2 * j + 1

LEMMA IterateShape ==
  ASSUME NEW op \in {"read", "write"}
  PROVE  /\ Iterate(op) \in Seq(LockOp) /\ Len(Iterate(op)) = 2 * N
         /\ \A j \in 1 .. N : /\ Drops(j) \in Locks(j) + 1 .. 2 * N
                              /\ Iterate(op)[Drops(j)] = Op("drop", Shards[j])
         /\ \A k \in 1 .. 2 * N : Iterate(op)[k].op # "drop" =>
              \E j \in 1 .. N : k = Locks(j) /\ Iterate(op)[k] = Op(op, Shards[j])
<1>. DEFINE s == Iterate(op)
<1>0. N \in Nat /\ N > 0
  BY Ranks
<1>1. \A k \in 1 .. 2 * N :
        s[k] = IF k = 1 THEN Op(op, Shards[1])
               ELSE IF k = 2 * N THEN Op("drop", Shards[N])
               ELSE IF k % 2 = 0 THEN Op(op, Shards[(k \div 2) + 1])
               ELSE Op("drop", Shards[k \div 2])
  BY <1>0, Zenon DEF Iterate, N
<1>2. ASSUME NEW k \in 1 .. 2 * N PROVE s[k] \in LockOp
  <2>1. \A j \in 1 .. N : Op(op, Shards[j]) \in LockOp /\ Op("drop", Shards[j]) \in LockOp
    BY Ranks, Zenon DEF LockOp, Op
  <2>2. CASE k = 1
    BY <1>0, <1>1, <2>1, <2>2
  <2>3. CASE k = 2 * N
    BY <1>0, <1>1, <2>1, <2>3
  <2>4. CASE k \in 2 .. 2 * N - 1
    <3>1. k \div 2 \in 1 .. N - 1
      BY <1>0, <2>4
    <3>. QED
      BY <1>0, <1>1, <2>1, <2>4, <3>1
  <2>. QED
    BY <1>0, <2>2, <2>3, <2>4
<1>3. s \in Seq(LockOp) /\ Len(s) = 2 * N
  <2>1. s = [k \in 1 .. 2 * N |-> s[k]] /\ 2 * N \in Nat
    BY <1>0 DEF Iterate, N
  <2>2. s \in [1 .. 2 * N -> LockOp]
    BY <1>2, <2>1, Zenon
  <2>. HIDE DEF s
  <2>. QED
    BY <2>1, <2>2
<1>. HIDE DEF s
<1>4. ASSUME NEW j \in 1 .. N
      PROVE  Drops(j) \in Locks(j) + 1 .. 2 * N /\ s[Drops(j)] = Op("drop", Shards[j])
  <2>1. CASE j = N
    BY <1>0, <1>1, <2>1 DEF Drops, Locks
  <2>2. CASE j # N
    <3>1. /\ Drops(j) = 2 * j + 1 /\ 2 * j + 1 \in Locks(j) + 1 .. 2 * N
          /\ 2 * j + 1 # 1 /\ 2 * j + 1 # 2 * N
      BY <1>0, <2>2 DEF Drops, Locks
    <3>2. (2 * j + 1) % 2 # 0 /\ (2 * j + 1) \div 2 = j
      OBVIOUS
    <3>3. 2 * j + 1 \in 1 .. 2 * N
      BY <1>0, <2>2
    <3>. QED
      BY <1>1, <3>1, <3>2, <3>3, Zenon
  <2>. QED
    BY <2>1, <2>2, Zenon
<1>5. ASSUME NEW k \in 1 .. 2 * N, s[k].op # "drop"
      PROVE  \E j \in 1 .. N : k = Locks(j) /\ s[k] = Op(op, Shards[j])
  <2>1. CASE k = 1
    BY <1>0, <1>1, <2>1 DEF Locks
  <2>2. CASE k # 1
    <3>1. k # 2 * N
      BY <1>0, <1>1, <1>5, <2>2, OpFields
    <3>2. k % 2 = 0
      BY <1>0, <1>1, <1>5, <2>2, <3>1, OpFields
    <3>3. /\ (k \div 2) + 1 \in 1 .. N /\ (k \div 2) + 1 # 1
          /\ k = 2 * ((k \div 2) + 1) - 2
      BY <1>0, <2>2, <3>1, <3>2
    <3>4. s[k] = Op(op, Shards[(k \div 2) + 1])
      BY <1>1, <2>2, <3>1, <3>2, Zenon
    <3>. QED
      BY <3>3, <3>4, Zenon DEF Locks
  <2>. QED
    BY <2>1, <2>2, Zenon
<1>. QED
  BY <1>3, <1>4, <1>5, Zenon DEF s

LEMMA OrderedIterate ==
  ASSUME NEW op \in {"read", "write"}
  PROVE  Ordered(Iterate(op), 2)
<1>. DEFINE s == Iterate(op)
<1>1. /\ s \in Seq(LockOp) /\ Len(s) = 2 * N /\ N \in Nat
      /\ \A j \in 1 .. N : /\ Drops(j) \in Locks(j) + 1 .. 2 * N
                           /\ s[Drops(j)] = Op("drop", Shards[j])
  BY IterateShape, Ranks, Zenon
<1>2. ASSUME NEW k \in 1 .. 2 * N, s[k].op # "drop"
      PROVE  \E j \in 1 .. N : k = Locks(j) /\ s[k].lock = Shards[j] /\ Rank(s[k].lock) = 1 + j
  <2>1. PICK j \in 1 .. N : k = Locks(j) /\ s[k] = Op(op, Shards[j])
    BY <1>2, IterateShape, Zenon
  <2>. QED
    BY <2>1, Ranks, OpFields
<1>. HIDE DEF s
<1>3. From(s, 1, Len(s), 2)
  BY <1>1, <1>2 DEF From
<1>4. Nested(s)
  <2>. SUFFICES ASSUME NEW i \in 1 .. Len(s), s[i].op # "drop"
                PROVE  Released(s, i + 1, s[i].lock)
    BY Zenon DEF Nested
  <2>1. PICK j \in 1 .. N : i = Locks(j) /\ s[i].lock = Shards[j] /\ Rank(s[i].lock) = 1 + j
    BY <1>1, <1>2, Zenon
  <2>2. ASSUME NEW p \in i + 1 .. Drops(j) - 1, s[p].op # "drop"
        PROVE  Rank(s[p].lock) >= Rank(s[i].lock) + 1
    <3>0. i \in Nat /\ Drops(j) \in 1 .. 2 * N
      BY <1>1, <2>1
    <3>1. p \in 1 .. 2 * N
      BY <1>1, <3>0
    <3>2. PICK m \in 1 .. N : p = Locks(m) /\ Rank(s[p].lock) = 1 + m
      BY <1>2, <2>2, <3>1, Zenon
    <3>3. m > j
      BY <2>1, <3>0, <3>2, <1>1 DEF Locks
    <3>. QED
      BY <1>1, <2>1, <3>2, <3>3
  <2>. QED
    BY <1>1, <2>1, <2>2, Zenon DEF Released, From
<1>. QED
  BY <1>1, <1>3, <1>4, Zenon DEF Ordered, s

-----------------------------------------------------------------------------
(* The handlers.  Every guard below is around locks of a greater rank.     *)

LEMMA OrderedReading ==
  ASSUME NEW l \in Lock, NEW body, Ordered(body, Rank(l) + 1)
  PROVE  Ordered(Reading(l, body), Rank(l)) /\ Ordered(Reading(l, body), 0)
<1>1. Rank(l) \in Nat
  BY Ranks
<1>2. Ordered(Reading(l, body), Rank(l))
  BY OrderedGuard, Zenon DEF Reading
<1>. QED
  BY <1>1, <1>2, OrderedWeaker

LEMMA OrderedWriting ==
  ASSUME NEW l \in Lock, NEW body, Ordered(body, Rank(l) + 1)
  PROVE  Ordered(Writing(l, body), Rank(l)) /\ Ordered(Writing(l, body), 0)
<1>1. Rank(l) \in Nat
  BY Ranks
<1>2. Ordered(Writing(l, body), Rank(l))
  BY OrderedGuard, Zenon DEF Writing
<1>. QED
  BY <1>1, <1>2, OrderedWeaker

LEMMA OrderedReadWrite ==
  ASSUME NEW l \in Lock, NEW k \in Nat, k <= Rank(l)
  PROVE  Ordered(Read(l), k) /\ Ordered(Write(l), k)
<1>1. Rank(l) \in Nat /\ Ordered(<<>>, Rank(l) + 1)
  BY Ranks, OrderedEmpty
<1>2. Ordered(Read(l), Rank(l)) /\ Ordered(Write(l), Rank(l))
  BY <1>1, OrderedReading, OrderedWriting, Zenon DEF Read, Write
<1>. QED
  BY <1>1, <1>2, OrderedWeaker, Zenon

(* Without a change of the selection, every handler takes its locks in the *)
(* order of their ranks.                                                   *)
LEMMA CallsAreOrdered ==
  ASSUME ~Reselects, NEW c \in Calls
  PROVE  Ordered(c, 0)
<1>0. /\ "db" \in Lock /\ "torrent" \in Lock /\ "state" \in Lock /\ "streams" \in Lock
      /\ Shard \subseteq Lock
      /\ N \in Nat
  BY Ranks, Zenon DEF Lock
<1>1. \A l \in Lock : Ordered(Read(l), 0) /\ Ordered(Write(l), 0)
  BY OrderedReadWrite, Ranks
<1>2. /\ Ordered(Read("streams"), N + 3) /\ Ordered(Write("streams"), N + 3)
      /\ Ordered(Read("state"), N + 2) /\ Ordered(Write("state"), N + 2)
      /\ Ordered(Read("state"), 2) /\ Ordered(Write("state"), 2)
      /\ Ordered(Read("torrent"), 1)
  BY <1>0, OrderedReadWrite, Ranks
<1>3. /\ Ordered(Reading("state", Read("streams")), N + 2)
      /\ Ordered(Writing("state", Read("streams")), N + 2)
      /\ Ordered(Reading("state", Write("streams")), N + 2)
      /\ Ordered(Writing("state", Write("streams")), 0)
      /\ Ordered(Reading("state", Read("streams")), 0)
  BY <1>0, <1>2, OrderedReading, OrderedWriting, Ranks
<1>4. Ordered(Writing("state", Write("streams") \o Read("streams")), 0)
  BY <1>0, <1>2, OrderedConcat, OrderedWriting, Ranks
<1>5. ASSUME NEW s \in Shard, NEW body, Ordered(body, N + 2)
      PROVE  Ordered(Writing(s, body), 0)
  BY <1>0, <1>5, OrderedWeaker, OrderedWriting, Ranks
<1>6. ASSUME NEW body, Ordered(body, 2)
      PROVE  /\ Ordered(Reading("torrent", body), 1) /\ Ordered(Reading("torrent", body), 0)
             /\ Ordered(Writing("torrent", body), 0)
  BY <1>0, <1>6, OrderedReading, OrderedWriting, Ranks
<1>7. Ordered(Iter, 2) /\ Ordered(IterMut, 2) /\ Ordered(Iter, 0) /\ Ordered(IterMut, 0)
  BY OrderedIterate, OrderedWeaker DEF Iter, IterMut
<1>8. ASSUME NEW s \in Shard, NEW o \in Shard, c \in AcquireNextPiece(s, o)
      PROVE  Ordered(c, 0)
  BY <1>0, <1>1, <1>3, <1>5, <1>8, Zenon DEF AcquireNextPiece, OnSteal
<1>9. ASSUME NEW s \in Shard, c \in OnPeerDied(s) PROVE Ordered(c, 0)
  <2>1. \A d \in {<<>>, Write("state")} : Ordered(d, N + 2)
    BY <1>0, <1>2, OrderedEmpty
  <2>2. Ordered(IsFinishedAndNoActiveStreams, N + 2)
    BY <1>0, <1>2, <1>3, OrderedConcat DEF IsFinishedAndNoActiveStreams
  <2>3. \A d \in {<<>>, Write("state")} : Ordered(d \o IsFinishedAndNoActiveStreams, N + 2)
    BY <1>0, <2>1, <2>2, OrderedConcat
  <2>4. PICK d \in {<<>>, Write("state")} :
          c = Writing(s, d) \/ c = Writing(s, d \o IsFinishedAndNoActiveStreams)
    BY <1>9, Zenon DEF OnPeerDied
  <2>. QED
    BY <1>5, <2>1, <2>3, <2>4, Zenon
<1>10. ASSUME NEW s \in Shard, c \in WriteToDisk(s) \cup ShortHandlers(s) PROVE Ordered(c, 0)
  BY <1>0, <1>1, <1>3, <1>4, <1>7, <1>10, Zenon DEF WriteToDisk, ShortHandlers, OnPieceCompleted
<1>11. ASSUME c \in PauseTorrent PROVE Ordered(c, 0)
  BY <1>0, <1>1, <1>2, <1>6, <1>11, Zenon DEF PauseTorrent
<1>12. ASSUME c \in TorrentStats PROVE Ordered(c, 0)
  <2>. DEFINE stats == Reading("torrent", Iter \o Read("state") \o Read("state"))
  <2>1. Ordered(Iter \o Read("state") \o Read("state"), 2)
    BY <1>2, <1>7, OrderedConcat, Zenon
  <2>2. Ordered(stats, 1) /\ Ordered(stats, 0)
    BY <1>6, <2>1, Zenon
  <2>3. c = stats \/ c = Reading("db", stats) \/ c = Reading("db", Read("torrent"))
    BY <1>12, Zenon DEF TorrentStats
  <2>. HIDE DEF stats
  <2>4. Ordered(Reading("db", stats), 0) /\ Ordered(Reading("db", Read("torrent")), 0)
    BY <1>0, <1>2, <2>2, OrderedReading, Ranks
  <2>. QED
    BY <2>2, <2>3, <2>4, Zenon
<1>13. ASSUME c \in PollRead PROVE Ordered(c, 0)
  <2>1. Ordered(Reading("state", Write("streams")), 2)
    BY <1>0, <1>3, OrderedWeaker
  <2>. QED
    BY <1>0, <1>1, <1>2, <1>6, <1>13, <2>1, Zenon DEF PollRead
<1>14. ASSUME c \in OpenStream PROVE Ordered(c, 0)
  BY <1>0, <1>1, <1>2, <1>6, <1>7, <1>14, Zenon DEF OpenStream
<1>15. ASSUME c \in PeriodicTasks \cup AddOrRemoveTorrent PROVE Ordered(c, 0)
  BY <1>0, <1>1, <1>3, <1>7, <1>15, Zenon DEF PeriodicTasks, AddOrRemoveTorrent
<1>16. \/ \E s, o \in Shard : c \in AcquireNextPiece(s, o)
       \/ \E s \in Shard : c \in OnPeerDied(s)
       \/ \E s \in Shard : c \in WriteToDisk(s) \cup ShortHandlers(s)
       \/ c \in PauseTorrent \cup TorrentStats \cup AddOrRemoveTorrent
       \/ c \in PollRead \cup OpenStream \cup PeriodicTasks
  <2>1. (IF Reselects THEN UpdateOnlyFiles ELSE {}) = {}
    BY Zenon
  <2>2. \/ c \in UNION {AcquireNextPiece(s, o) : s \in Shard, o \in Shard}
        \/ c \in UNION {OnPeerDied(s) \cup WriteToDisk(s) \cup ShortHandlers(s) : s \in Shard}
        \/ c \in PauseTorrent \cup TorrentStats \cup AddOrRemoveTorrent
        \/ c \in PollRead \cup OpenStream \cup PeriodicTasks
    BY <2>1 DEF Calls
  <2>3. ASSUME c \in UNION {AcquireNextPiece(s, o) : s \in Shard, o \in Shard}
        PROVE  \E s, o \in Shard : c \in AcquireNextPiece(s, o)
    BY <2>3
  <2>4. ASSUME c \in UNION {OnPeerDied(s) \cup WriteToDisk(s) \cup ShortHandlers(s) : s \in Shard}
        PROVE  \E s \in Shard : c \in OnPeerDied(s) \cup WriteToDisk(s) \cup ShortHandlers(s)
    BY <2>4, Zenon
  <2>. QED
    BY <2>2, <2>3, <2>4
<1>. QED
  BY <1>8, <1>9, <1>10, <1>11, <1>12, <1>13, <1>14, <1>15, <1>16, Zenon

-----------------------------------------------------------------------------
(* The inductive invariant.  What is left of a handler is nested, and so   *)
(* is what is left under each lock that its thread holds.                  *)

TypeOK ==
  /\ todo \in [Thread -> Seq(LockOp)]
  /\ readers \in [Lock -> SUBSET Thread]
  /\ writer \in [Lock -> SUBSET Thread]
  /\ parked \in SUBSET Thread

Holds(t, l) == t \in readers[l] \cup writer[l]

OrderInv ==
  /\ TypeOK
  /\ \A t \in Thread : Nested(todo[t])
  /\ \A t \in Thread, l \in Lock : Holds(t, l) => Released(todo[t], 1, l)

(* What holds of a sequence holds of its tail.                             *)
LEMMA NestedTail ==
  ASSUME NEW s \in Seq(LockOp), s # <<>>, Nested(s)
  PROVE  /\ Tail(s) \in Seq(LockOp) /\ Nested(Tail(s))
         /\ Head(s) = s[1] /\ Head(s) \in LockOp
         /\ \A l \in Lock : Released(s, 2, l) => Released(Tail(s), 1, l)
<1>. DEFINE u == Tail(s)
<1>1. /\ u \in Seq(LockOp) /\ Len(s) \in Nat /\ Len(s) >= 1 /\ Len(u) = Len(s) - 1
      /\ \A i \in 1 .. Len(u) : u[i] = s[i + 1]
      /\ Head(s) = s[1] /\ Head(s) \in LockOp
  BY HeadTailProperties, EmptySeq
<1>. HIDE DEF u
<1>2. ASSUME NEW i \in 1 .. Len(s), NEW l, Released(s, i + 1, l)
      PROVE  Released(u, i, l)
  <2>1. PICK d \in i + 1 .. Len(s) : s[d] = Op("drop", l) /\ From(s, i + 1, d - 1, Rank(l) + 1)
    BY <1>2, Zenon DEF Released
  <2>2. d - 1 \in i .. Len(u) /\ d - 1 \in 1 .. Len(u) /\ (d - 1) + 1 = d
    BY <1>1
  <2>3. u[d - 1] = Op("drop", l)
    BY <1>1, <2>1, <2>2, Zenon
  <2>4. ASSUME NEW p \in i .. (d - 1) - 1, u[p].op # "drop"
        PROVE  Rank(u[p].lock) >= Rank(l) + 1
    <3>1. p \in 1 .. Len(u) /\ p + 1 \in i + 1 .. d - 1
      BY <1>1, <2>2
    <3>2. u[p] = s[p + 1]
      BY <1>1, <3>1, Zenon
    <3>. QED
      BY <2>1, <2>4, <3>1, <3>2, Zenon DEF From
  <2>. QED
    BY <2>2, <2>3, <2>4, Zenon DEF Released, From
<1>3. Nested(u)
  <2>. SUFFICES ASSUME NEW i \in 1 .. Len(u), u[i].op # "drop"
                PROVE  Released(u, i + 1, u[i].lock)
    BY Zenon DEF Nested
  <2>1. i + 1 \in 1 .. Len(s) /\ u[i] = s[i + 1]
    BY <1>1
  <2>2. Released(s, (i + 1) + 1, u[i].lock)
    BY <2>1, Zenon DEF Nested
  <2>. QED
    BY <1>2, <2>1, <2>2, Zenon
<1>4. ASSUME NEW l \in Lock, Released(s, 2, l) PROVE Released(u, 1, l)
  <2>1. 1 \in 1 .. Len(s) /\ 1 + 1 = 2
    BY <1>1
  <2>. QED
    BY <1>2, <1>4, <2>1, Zenon
<1>. QED
  BY <1>1, <1>3, <1>4, Zenon DEF u

(* A held lock stays released later, unless the step is its drop.          *)
LEMMA ReleasedTail ==
  ASSUME NEW s \in Seq(LockOp), s # <<>>, NEW l \in Lock,
         Released(s, 1, l), s[1] # Op("drop", l)
  PROVE  Released(s, 2, l)
<1>1. PICK d \in 1 .. Len(s) : s[d] = Op("drop", l) /\ From(s, 1, d - 1, Rank(l) + 1)
  BY Zenon DEF Released
<1>2. Len(s) \in Nat /\ d # 1
  BY <1>1, LenProperties, Zenon
<1>3. d \in 2 .. Len(s)
  BY <1>2
<1>4. From(s, 2, d - 1, Rank(l) + 1)
  BY <1>1, <1>3 DEF From
<1>. QED
  BY <1>1, <1>3, <1>4, Zenon DEF Released

(* Without a change of the selection, every step keeps the invariant.      *)
LEMMA OrderInvKept ==
  ASSUME ~Reselects, OrderInv, [Next]_vars
  PROVE  OrderInv'
<1>1. ASSUME NEW t \in Thread, Call(t) PROVE OrderInv'
  <2>1. PICK c \in Calls : todo' = [todo EXCEPT ![t] = c]
    BY <1>1, Zenon DEF Call
  <2>2. c \in Seq(LockOp) /\ Nested(c)
    BY CallsAreOrdered, Zenon DEF Ordered
  <2>3. TypeOK' /\ readers' = readers /\ writer' = writer
    BY <1>1, <2>1, <2>2, Zenon DEF Call, OrderInv, TypeOK
  <2>4. ASSUME NEW u \in Thread PROVE Nested(todo'[u])
    BY <2>1, <2>2, Zenon DEF OrderInv, TypeOK
  <2>5. \A l \in Lock : ~Holds(t, l)
    <3>1. todo[t] = <<>>
      BY <1>1, Zenon DEF Call
    <3>2. \A l \in Lock : ~Released(todo[t], 1, l)
      BY <3>1 DEF Released
    <3>. QED
      BY <3>2, Zenon DEF OrderInv
  <2>6. ASSUME NEW u \in Thread, NEW l \in Lock, Holds(u, l)'
        PROVE  Released(todo'[u], 1, l)
    <3>1. Holds(u, l) /\ u # t
      BY <2>3, <2>5, <2>6, Zenon DEF Holds
    <3>2. todo'[u] = todo[u]
      BY <2>1, <3>1, Zenon DEF OrderInv, TypeOK
    <3>. QED
      BY <3>1, <3>2, Zenon DEF OrderInv
  <2>. QED
    BY <2>3, <2>4, <2>6, Zenon DEF OrderInv
<1>2. ASSUME NEW t \in Thread, Park(t) PROVE OrderInv'
  BY <1>2, Zenon DEF Park, OrderInv, TypeOK, Holds
<1>3. ASSUME NEW t \in Thread, Take(t) PROVE OrderInv'
  <2>. DEFINE l0 == Head(todo[t]).lock
  <2>0. todo[t] \in Seq(LockOp) /\ todo[t] # <<>> /\ Nested(todo[t])
    BY <1>3, Zenon DEF Take, OrderInv, TypeOK
  <2>1. /\ Tail(todo[t]) \in Seq(LockOp) /\ Nested(Tail(todo[t]))
        /\ Head(todo[t]) = todo[t][1] /\ Head(todo[t]) \in LockOp
        /\ \A l \in Lock : Released(todo[t], 2, l) => Released(Tail(todo[t]), 1, l)
    BY <2>0, NestedTail, Zenon
  <2>2. l0 \in Lock /\ todo[t][1].op # "drop"
    BY <1>3, <2>1, Zenon DEF LockOp, Take
  <2>3. Released(Tail(todo[t]), 1, l0)
    <3>1. 1 \in 1 .. Len(todo[t]) /\ 1 + 1 = 2
      BY <2>0, EmptySeq
    <3>2. Released(todo[t], 2, l0)
      BY <2>0, <2>1, <2>2, <3>1, Zenon DEF Nested
    <3>. QED
      BY <2>1, <2>2, <3>2, Zenon
  <2>4. ASSUME NEW l \in Lock, Holds(t, l) PROVE Released(Tail(todo[t]), 1, l)
    <3>1. todo[t][1] # Op("drop", l)
      BY <2>2, OpFields
    <3>2. Released(todo[t], 1, l)
      BY <2>4, Zenon DEF OrderInv
    <3>. QED
      BY <2>0, <2>1, <3>1, <3>2, ReleasedTail, Zenon
  <2>5. todo' = [todo EXCEPT ![t] = Tail(todo[t])]
    BY <1>3, Zenon DEF Take
  <2>6. /\ readers' \in [Lock -> SUBSET Thread] /\ writer' \in [Lock -> SUBSET Thread]
        /\ \A u \in Thread, l \in Lock : Holds(u, l)' => Holds(u, l) \/ (u = t /\ l = l0)
    <3>1. CASE Head(todo[t]).op = "read"
      <4>1. readers' = [readers EXCEPT ![l0] = @ \cup {t}] /\ writer' = writer
        BY <1>3, <3>1, Zenon DEF Take
      <4>. HIDE DEF l0
      <4>. QED
        BY <2>2, <4>1, Zenon DEF OrderInv, TypeOK, Holds
    <3>2. CASE Head(todo[t]).op # "read"
      <4>1. writer' = [writer EXCEPT ![l0] = {t}] /\ readers' = readers
        BY <1>3, <3>2, Zenon DEF Take
      <4>. HIDE DEF l0
      <4>. QED
        BY <2>2, <4>1, Zenon DEF OrderInv, TypeOK, Holds
    <3>. QED
      BY <3>1, <3>2, Zenon
  <2>. HIDE DEF l0
  <2>7. TypeOK'
    BY <1>3, <2>1, <2>5, <2>6, ZenonT(30) DEF Take, OrderInv, TypeOK
  <2>8. ASSUME NEW u \in Thread PROVE Nested(todo'[u])
    BY <2>1, <2>5, Zenon DEF OrderInv, TypeOK
  <2>9. ASSUME NEW u \in Thread, NEW l \in Lock, Holds(u, l)'
        PROVE  Released(todo'[u], 1, l)
    <3>1. CASE u = t
      <4>1. todo'[u] = Tail(todo[t])
        BY <2>5, <3>1, Zenon DEF OrderInv, TypeOK
      <4>. QED
        BY <2>3, <2>4, <2>6, <2>9, <3>1, <4>1, Zenon
    <3>2. CASE u # t
      <4>1. todo'[u] = todo[u]
        BY <2>5, <3>2, Zenon DEF OrderInv, TypeOK
      <4>. QED
        BY <2>6, <2>9, <3>2, <4>1, Zenon DEF OrderInv
    <3>. QED
      BY <3>1, <3>2, Zenon
  <2>. QED
    BY <2>7, <2>8, <2>9, Zenon DEF OrderInv
<1>4. ASSUME NEW t \in Thread, Drop(t) PROVE OrderInv'
  <2>. DEFINE l0 == Head(todo[t]).lock
  <2>0. todo[t] \in Seq(LockOp) /\ todo[t] # <<>> /\ Nested(todo[t])
    BY <1>4, Zenon DEF Drop, OrderInv, TypeOK
  <2>1. /\ Tail(todo[t]) \in Seq(LockOp) /\ Nested(Tail(todo[t]))
        /\ Head(todo[t]) = todo[t][1] /\ Head(todo[t]) \in LockOp
        /\ \A l \in Lock : Released(todo[t], 2, l) => Released(Tail(todo[t]), 1, l)
    BY <2>0, NestedTail, Zenon
  <2>2. l0 \in Lock
    BY <2>1, Zenon DEF LockOp
  <2>3. /\ todo' = [todo EXCEPT ![t] = Tail(todo[t])] /\ parked' = parked
        /\ readers' = [readers EXCEPT ![l0] = @ \ {t}]
        /\ writer' = [writer EXCEPT ![l0] = @ \ {t}]
    BY <1>4, Zenon DEF Drop
  <2>4. ASSUME NEW l \in Lock, Holds(t, l), l # l0
        PROVE  Released(Tail(todo[t]), 1, l)
    <3>1. todo[t][1] # Op("drop", l)
      BY <2>1, <2>4, OpFields
    <3>2. Released(todo[t], 1, l)
      BY <2>4, Zenon DEF OrderInv
    <3>. QED
      BY <2>0, <2>1, <3>1, <3>2, ReleasedTail, Zenon
  <2>. HIDE DEF l0
  <2>6. /\ readers' \in [Lock -> SUBSET Thread] /\ writer' \in [Lock -> SUBSET Thread]
        /\ \A u \in Thread, l \in Lock : Holds(u, l)' => Holds(u, l) /\ (u = t => l # l0)
    BY <2>2, <2>3, Zenon DEF OrderInv, TypeOK, Holds
  <2>7. TypeOK'
    BY <2>1, <2>3, <2>6, Zenon DEF OrderInv, TypeOK
  <2>8. ASSUME NEW u \in Thread PROVE Nested(todo'[u])
    BY <2>1, <2>3, Zenon DEF OrderInv, TypeOK
  <2>9. ASSUME NEW u \in Thread, NEW l \in Lock, Holds(u, l)'
        PROVE  Released(todo'[u], 1, l)
    <3>1. CASE u = t
      <4>1. todo'[u] = Tail(todo[t])
        BY <2>3, <3>1, Zenon DEF OrderInv, TypeOK
      <4>. QED
        BY <2>4, <2>6, <2>9, <3>1, <4>1, Zenon
    <3>2. CASE u # t
      <4>1. todo'[u] = todo[u]
        BY <2>3, <3>2, Zenon DEF OrderInv, TypeOK
      <4>. QED
        BY <2>6, <2>9, <3>2, <4>1, Zenon DEF OrderInv
    <3>. QED
      BY <3>1, <3>2, Zenon
  <2>. QED
    BY <2>7, <2>8, <2>9, Zenon DEF OrderInv
<1>5. CASE UNCHANGED vars
  BY <1>5, Zenon DEF vars, OrderInv, TypeOK, Holds
<1>. QED
  BY <1>1, <1>2, <1>3, <1>4, <1>5, Zenon DEF Next

-----------------------------------------------------------------------------
(* Of finitely many ranks, one is the greatest.                            *)
LEMMA Greatest ==
  ASSUME NEW b \in Nat, NEW R, R \subseteq 0 .. b, R # {}
  PROVE  \E m \in R : \A r \in R : r <= m
<1>. DEFINE T == {b - r : r \in R}
<1>1. T \subseteq Nat /\ T # {}
  <2>1. \A r \in R : b - r \in Nat
    OBVIOUS
  <2>. QED
    BY <2>1, Zenon
<1>2. PICK x \in T : \A y \in T : <<y, x>> \notin OpToRel(<, Nat)
  BY <1>1, WFMin, NatLessThanWellFounded, Zenon
<1>3. \A y \in T : ~(y < x)
  BY <1>1, <1>2, Zenon DEF OpToRel
<1>4. PICK m \in R : x = b - m
  BY Zenon
<1>5. ASSUME NEW r \in R PROVE r <= m
  <2>1. b - r \in T /\ r \in 0 .. b /\ m \in 0 .. b
    BY Zenon
  <2>2. ~(b - r < b - m)
    BY <1>3, <1>4, <2>1, Zenon
  <2>. QED
    BY <2>1, <2>2
<1>. QED
  BY <1>5, Zenon

Waits(t) == todo[t] # <<>> /\ Head(todo[t]).op # "drop"
Wanted(t) == Head(todo[t]).lock

(* A thread asks for a lock of a greater rank than those it holds.         *)
LEMMA AsksForGreater ==
  ASSUME OrderInv, NEW t \in Thread, Waits(t), NEW l \in Lock, Holds(t, l)
  PROVE  Rank(Wanted(t)) > Rank(l)
<1>. DEFINE s == todo[t]
<1>1. s \in Seq(LockOp) /\ s # <<>> /\ Nested(s) /\ Released(s, 1, l)
  BY Zenon DEF OrderInv, TypeOK, Waits
<1>2. Head(s) = s[1] /\ s[1] \in LockOp /\ s[1].op # "drop"
  BY <1>1, NestedTail, Zenon DEF Waits
<1>. HIDE DEF s
<1>3. PICK d \in 1 .. Len(s) : s[d] = Op("drop", l) /\ From(s, 1, d - 1, Rank(l) + 1)
  BY <1>1, Zenon DEF Released
<1>4. Len(s) \in Nat /\ d # 1
  BY <1>1, <1>2, <1>3, LenProperties, OpFields
<1>5. 1 \in 1 .. d - 1
  BY <1>4
<1>6. Rank(s[1].lock) >= Rank(l) + 1
  BY <1>2, <1>3, <1>5, Zenon DEF From
<1>7. Rank(s[1].lock) \in Nat /\ Rank(l) \in Nat
  BY <1>2, Ranks DEF LockOp
<1>. QED
  BY <1>2, <1>6, <1>7 DEF Wanted, s

(* A thread waits for holders of the lock it asks for, and for parked      *)
(* threads that ask for the same lock as writers.                          *)
LEMMA WaitsForWhom ==
  ASSUME OrderInv, NEW t \in Thread, NEW u \in WaitsFor(t)
  PROVE  /\ Waits(t) /\ Wanted(t) \in Lock /\ u \in Thread
         /\ \/ Holds(u, Wanted(t))
            \/ Waits(u) /\ Wanted(u) = Wanted(t) /\ Head(todo[u]).op = "write"
               /\ Head(todo[t]).op # "write"
<1>1. Waits(t)
  BY Zenon DEF WaitsFor, Waits
<1>2. Head(todo[t]) \in LockOp
  BY <1>1, NestedTail, Zenon DEF OrderInv, TypeOK, Waits
<1>3. Wanted(t) \in Lock
  BY <1>2, Zenon DEF LockOp, Wanted
<1>4. CASE u \in writer[Wanted(t)] \cup readers[Wanted(t)]
  BY <1>1, <1>3, <1>4, Zenon DEF Holds, OrderInv, TypeOK
<1>5. CASE u \notin writer[Wanted(t)] \cup readers[Wanted(t)]
  <2>1. Head(todo[t]).op # "write" /\ u \in parked /\ Asks(u, Wanted(t), "write")
    BY <1>1, <1>5, Zenon DEF WaitsFor, Wanted, Waits
  <2>2. todo[u] # <<>> /\ Head(todo[u]) = Op("write", Wanted(t)) /\ u \in Thread
    BY <2>1, Zenon DEF Asks, OrderInv, TypeOK
  <2>3. Head(todo[u]).op = "write" /\ Head(todo[u]).lock = Wanted(t)
    BY <2>2, OpFields
  <2>. QED
    BY <1>1, <1>3, <2>1, <2>2, <2>3, Zenon DEF Waits, Wanted
<1>. QED
  BY <1>4, <1>5, Zenon

(* The order of the ranks rules out a circle.                              *)
LEMMA OrderedNeverCircular ==
  ASSUME OrderInv
  PROVE  NoCircularWait
<1>. SUFFICES ASSUME NEW D \in SUBSET Thread, D # {},
                     \A t \in D : WaitsFor(t) \cap D # {}
              PROVE  FALSE
  BY Zenon DEF NoCircularWait
<1>. DEFINE R == {Rank(Wanted(t)) : t \in D}
<1>1. ASSUME NEW t \in D PROVE Waits(t) /\ Wanted(t) \in Lock
  <2>1. PICK u \in WaitsFor(t) : u \in D
    BY Zenon
  <2>. QED
    BY WaitsForWhom, Zenon
<1>2. R \subseteq 0 .. N + 3 /\ N + 3 \in Nat /\ R # {}
  BY <1>1, Ranks
<1>3. PICK m \in R : \A r \in R : r <= m
  BY <1>2, Greatest, Zenon
<1>4. PICK t \in D : Rank(Wanted(t)) = m
  BY <1>3, Zenon
<1>5. \A u \in D : Rank(Wanted(u)) <= Rank(Wanted(t)) /\ Rank(Wanted(u)) \in Nat
  BY <1>1, <1>3, <1>4, Ranks
<1>6. ASSUME NEW u \in D, Holds(u, Wanted(t)) PROVE FALSE
  <2>1. Rank(Wanted(u)) > Rank(Wanted(t))
    BY <1>1, <1>6, AsksForGreater, Zenon
  <2>. QED
    BY <1>5, <2>1
<1>7. PICK u \in D : u \in WaitsFor(t)
  BY Zenon
<1>8. Wanted(u) = Wanted(t) /\ Head(todo[u]).op = "write"
  BY <1>6, <1>7, WaitsForWhom, Zenon
<1>9. PICK v \in D : v \in WaitsFor(u)
  BY Zenon
<1>10. Holds(v, Wanted(t))
  BY <1>8, <1>9, WaitsForWhom, Zenon
<1>. QED
  BY <1>6, <1>10, Zenon

(* The invariant holds in every state of every run in which the selection  *)
(* of a live torrent is not changed.                                       *)
THEOREM LocksAreTakenInOrder ==
  ASSUME ~Reselects
  PROVE  Spec => []OrderInv
<1>1. Init => OrderInv
  <2>. SUFFICES ASSUME Init PROVE OrderInv
    BY Zenon
  <2>1. TypeOK
    BY EmptySeq, Zenon DEF Init, TypeOK
  <2>2. ASSUME NEW t \in Thread PROVE Nested(todo[t])
    BY EmptySeq DEF Init, Nested
  <2>3. ASSUME NEW t \in Thread, NEW l \in Lock PROVE ~Holds(t, l)
    BY Zenon DEF Init, Holds
  <2>. QED
    BY <2>1, <2>2, <2>3, Zenon DEF OrderInv
<1>2. OrderInv /\ [Next]_vars => OrderInv'
  BY OrderInvKept, Zenon
<1>. QED
  BY <1>1, <1>2, PTL DEF Spec

(* No set of threads waits for itself, for any number of threads and of    *)
(* shards: the guards that on_steal, on_peer_died and on_piece_completed   *)
(* drop early are enough, as long as nobody calls update_only_files.       *)
THEOREM LocksNeverDeadlock ==
  ASSUME ~Reselects
  PROVE  Spec => []NoCircularWait
<1>1. OrderInv => NoCircularWait
  BY OrderedNeverCircular, Zenon
<1>. QED
  BY <1>1, LocksAreTakenInOrder, PTL

==============================================================================
