------------------------------- MODULE Bencode -------------------------------
(* The bencode codec: the serializer as a recursive definition over values,    *)
(* the deserializer as the machine its recursive descent is, one step per      *)
(* token, with the error context it keeps of the keys it is inside of.         *)
(* Bytes are their ASCII codes; numbers have at most two digits here.           *)
EXTENDS Integers, Sequences, SequencesExt, FiniteSets

CONSTANTS Values,      \* the values that are encoded
          Kinds,       \* the types that are asked for at the top
          Info,        \* the key whose value is read as WithRawBytes
          CtxCap,      \* the keys the error context has room for (4)
          CtxMax       \* where the counter of the others saturates (255)

VARIABLES kind, val,   \* what is read, and what was written
          input, buf,  \* the bytes given, and those not read yet
          stack,       \* the open maps and sequences, innermost last
          ctx, unfit,
          raw,         \* the bytes under Info, as they were consumed
          out, verdict

vars == <<kind, val, input, buf, stack, ctx, unfit, raw, out, verdict>>

(* A value: every kind has every field, so that any two can be compared.       *)
Val(t, n, b, k, l) == [t |-> t, n |-> n, b |-> b, k |-> k, l |-> l]
Number(n) == Val("int", n, <<>>, <<>>, <<>>)
Bytes(b) == Val("bytes", 0, b, <<>>, <<>>)
List(l) == Val("list", 0, <<>>, <<>>, l)
Dict(k, l) == Val("dict", 0, <<>>, k, l)   \* k: the keys, l: their values
None == Val("none", 0, <<>>, <<>>, <<>>)
Decimal(n) == IF n < 10 THEN <<48 + n>> ELSE <<48 + n \div 10, 48 + (n % 10)>>
IsDigit(c) == c \in 48 .. 57

------------------------------------------------------------------------------
(* The serializer.                                                             *)

Before(a, b) == \E i \in 0 .. Len(a) :
    /\ i <= Len(b) /\ SubSeq(a, 1, i) = SubSeq(b, 1, i)
    /\ \/ i = Len(a) /\ i < Len(b)
       \/ i < Len(a) /\ i < Len(b) /\ a[i + 1] < b[i + 1]

WriteNumber(n) == <<105>> \o (IF n < 0 THEN <<45>> \o Decimal(-n) ELSE Decimal(n)) \o <<101>>

WriteBytes(b) == Decimal(Len(b)) \o <<58>> \o b

(* The fields go through a BTreeMap: they are written in the order of the keys. *)
SortedIndices(k) == SetToSortSeq(DOMAIN k, LAMBDA i, j : Before(k[i], k[j]))

RECURSIVE Serialize(_)
SerializeElements(l) == FoldLeft(LAMBDA s, v : s \o Serialize(v), <<>>, l)
SerializeMapAsGiven(v) == <<100>> \o FoldLeft(LAMBDA s, i : s \o WriteBytes(v.k[i]) \o Serialize(v.l[i]),
                                              <<>>, [i \in DOMAIN v.k |-> i]) \o <<101>>
SerializeMap(v) == LET order == SortedIndices(v.k)
                   IN  <<100>> \o FoldLeft(LAMBDA s, i : s \o WriteBytes(v.k[i]) \o Serialize(v.l[i]), <<>>, order) \o <<101>>
Serialize(v) == CASE v.t = "int" -> WriteNumber(v.n)
                  [] v.t = "bytes" -> WriteBytes(v.b)
                  [] v.t = "raw" -> v.b                 \* RawValue: the hack without a prefix
                  [] v.t = "list" -> <<108>> \o SerializeElements(v.l) \o <<101>>
                  [] v.t = "dict" -> SerializeMap(v)

------------------------------------------------------------------------------
(* The deserializer.                                                           *)

Drop(n) == SubSeq(buf, n + 1, Len(buf))
First == IF buf = <<>> THEN 0 ELSE Head(buf)
Starts(c) == First = c

(* from_radix_10: the digits at a place of the buffer, and what they say.      *)
DigitsAt(at) == SubSeq(buf, at, Max({at - 1} \union {n \in at .. Len(buf) : \A i \in at .. n : IsDigit(buf[i])}))
ValueOf(digits) == FoldLeft(LAMBDA v, c : 10 * v + c - 48, 0, digits)
ByteAt(i) == IF i <= Len(buf) THEN buf[i] ELSE 0

(* parse_integer: `i`, a sign if the type has one, digits, `e`.                *)
IntegerAt(signed) ==
    LET neg == signed /\ Len(buf) > 1 /\ buf[2] = 45
        digits == DigitsAt(IF neg THEN 3 ELSE 2)
        end == Len(digits) + IF neg THEN 3 ELSE 2
    IN  IF Starts(105) /\ digits # <<>> /\ ByteAt(end) = 101
        THEN [ok |-> TRUE, v |-> IF neg THEN -ValueOf(digits) ELSE ValueOf(digits), n |-> end]
        ELSE [ok |-> FALSE, v |-> 0, n |-> 0]

(* parse_bytes: the length, `:`, that many bytes.                              *)
BytesAt == LET digits == DigitsAt(1)
               from == Len(digits) + 1
               to == from + ValueOf(digits)
           IN  IF digits # <<>> /\ ByteAt(from) = 58 /\ to <= Len(buf)
               THEN [ok |-> TRUE, b |-> SubSeq(buf, from + 1, to), n |-> to]
               ELSE [ok |-> FALSE, b |-> <<>>, n |-> 0]

Truncations(s) == {SubSeq(s, 1, n) : n \in 0 .. Len(s) - 1}

Init == /\ val \in Values /\ kind \in (IF val.t \in {"int", "bytes"} THEN Kinds ELSE {"any"})
        /\ input \in {Serialize(val)} \union Truncations(Serialize(val)) \union {Append(Serialize(val), 101)}
        /\ buf = input
        /\ stack = <<>> /\ ctx = <<>> /\ unfit = 0
        /\ raw = {} /\ out = None /\ verdict = "run"

Top == stack[Len(stack)]
Open(t) == [t |-> t, k |-> <<>>, l |-> <<>>, from |-> buf]
ExpectsKey == stack # <<>> /\ Top.t = "map" /\ Len(Top.k) = Len(Top.l)

Err == /\ verdict' = "err"
       /\ UNCHANGED <<kind, val, input, buf, stack, ctx, unfit, raw, out>>

(* A value is complete: it becomes the result, an element, or the value of the *)
(* key that is open, which then leaves the context.                            *)
PutDict(f, v) == [f EXCEPT !.l = Append(@, v)]
PopKeyAlways == /\ ctx' = IF ctx = <<>> THEN ctx ELSE SubSeq(ctx, 1, Len(ctx) - 1)
                /\ UNCHANGED unfit
PopKey == IF unfit > 0 THEN unfit' = unfit - 1 /\ UNCHANGED ctx
          ELSE ctx' = SubSeq(ctx, 1, Len(ctx) - 1) /\ UNCHANGED unfit
Deliver(s, v, rest, from) ==
    /\ buf' = rest
    /\ IF s = <<>> THEN /\ out' = v /\ stack' = s
                        /\ verdict' = IF rest = <<>> THEN "ok" ELSE "err"
                        /\ UNCHANGED <<ctx, unfit, raw>>
       ELSE LET f == s[Len(s)]
            IN  /\ stack' = [s EXCEPT ![Len(s)] = PutDict(f, v)]
                /\ raw' = IF f.t = "map" /\ Len(s) = 1 /\ f.k[Len(f.k)] = Info
                          THEN {SubSeq(from, 1, Len(from) - Len(rest))} ELSE raw
                /\ IF f.t = "map" THEN PopKey ELSE UNCHANGED <<ctx, unfit>>
                /\ UNCHANGED <<out, verdict>>
    /\ UNCHANGED <<kind, val, input>>

Running == verdict = "run"
AtValue == Running /\ ~ExpectsKey

(* What the type asked for makes of an integer.                                *)
Want == IF stack = <<>> THEN kind ELSE "any"
AcceptsInteger(n) == CASE Want \in {"any", "i64"} -> TRUE
                       [] Want = "u64" -> n >= 0
                       [] Want = "bool" -> n \in {0, 1}
                       [] OTHER -> FALSE
ReadInteger == /\ AtValue /\ Starts(105) /\ Want \in {"any", "i64", "u64", "bool"}
               /\ LET r == IntegerAt(Want \in {"any", "i64"})
                  IN  IF r.ok /\ AcceptsInteger(r.v) THEN Deliver(stack, Number(r.v), Drop(r.n), buf)
                      ELSE Err

ReadBytes == /\ AtValue /\ Want \in {"any", "bytes"}
             /\ buf # <<>> /\ First \notin {100, 105, 108, 101}
             /\ IF BytesAt.ok THEN Deliver(stack, Bytes(BytesAt.b), Drop(BytesAt.n), buf) ELSE Err

(* Anything else where a value should be: the end of the input, an `e` that    *)
(* closes nothing, a byte the type does not begin with, a type bencode has not. *)
Mismatch == \/ buf = <<>>
            \/ Want = "f64"
            \/ First = 101 /\ (stack = <<>> \/ Top.t = "map")
            \/ Want \in {"i64", "u64", "bool"} /\ First # 105
            \/ Want = "bytes" /\ First \in {100, 105, 108}
ReadMismatch == AtValue /\ Mismatch /\ Err

OpenSeq == /\ AtValue /\ Starts(108) /\ Want = "any"
           /\ stack' = Append(stack, Open("seq")) /\ buf' = Drop(1)
           /\ UNCHANGED <<kind, val, input, ctx, unfit, raw, out, verdict>>

OpenMap == /\ AtValue /\ Starts(100) /\ Want = "any"
           /\ stack' = Append(stack, Open("map")) /\ buf' = Drop(1)
           /\ UNCHANGED <<kind, val, input, ctx, unfit, raw, out, verdict>>

(* next_key_seed: the key enters the context, or is counted there.             *)
NextKey == /\ Running /\ ExpectsKey /\ ~Starts(101)
           /\ IF BytesAt.ok
              THEN /\ buf' = Drop(BytesAt.n)
                   /\ stack' = [stack EXCEPT ![Len(stack)].k = Append(@, BytesAt.b)]
                   /\ IF Len(ctx) < CtxCap THEN ctx' = Append(ctx, BytesAt.b) /\ UNCHANGED unfit
                      ELSE /\ unfit' = IF unfit < CtxMax THEN unfit + 1 ELSE unfit
                           /\ UNCHANGED ctx
                   /\ UNCHANGED <<kind, val, input, raw, out, verdict>>
              ELSE Err

(* The end of a map or a sequence. A later value of a key replaces an earlier. *)
LastOf(k) == SetToSortSeq({i \in DOMAIN k : \A j \in DOMAIN k : j > i => k[j] # k[i]},
                          LAMBDA i, j : Before(k[i], k[j]))
Close == /\ Running /\ stack # <<>> /\ Starts(101) /\ (Top.t = "map" => ExpectsKey)
         /\ LET f == Top
                order == LastOf(f.k)
                v == IF f.t = "seq" THEN List(f.l)
                     ELSE Dict([i \in DOMAIN order |-> f.k[order[i]]], [i \in DOMAIN order |-> f.l[order[i]]])
            IN  Deliver(SubSeq(stack, 1, Len(stack) - 1), v, Drop(1), f.from)

Next == ReadInteger \/ ReadBytes \/ ReadMismatch \/ OpenSeq \/ OpenMap \/ NextKey \/ Close

Spec == Init /\ [][Next]_vars

------------------------------------------------------------------------------
(* What a value is once the order of its keys is forgotten.                    *)
RECURSIVE Canon(_)
Canon(v) == CASE v.t = "raw" -> Canon(v.l[1])
              [] v.t = "list" -> List([i \in DOMAIN v.l |-> Canon(v.l[i])])
              [] v.t = "dict" -> LET order == SortedIndices(v.k)
                                 IN  Dict([i \in DOMAIN order |-> v.k[order[i]]],
                                          [i \in DOMAIN order |-> Canon(v.l[order[i]])])
              [] OTHER -> v

SameDict(v, w) == /\ v.t = "dict" /\ Range(v.k) = Range(w.k)
                  /\ \A i \in DOMAIN v.k, j \in DOMAIN w.k : v.k[i] = w.k[j] => v.l[i] = w.l[j]

(* The keys the deserializer is inside of, outermost first.                    *)
Path == LET maps == SelectSeq(stack, LAMBDA f : f.t = "map" /\ Len(f.k) > Len(f.l))
        IN  [i \in DOMAIN maps |-> maps[i].k[Len(maps[i].k)]]

\* What was written is read back as the same value, whatever bytes its strings
\* hold; no shorter or longer input is taken for a value; equal dictionaries
\* are written alike, and the bytes kept under Info are those that were given
\* for it, in the order they were given (they are what the info hash is
\* computed from). An error names the keys that lead to it: the context holds
\* the first CtxCap of them and counts the others.
BencodeRoundTrips ==
    /\ verdict = "ok" => input = Serialize(val) /\ out = Canon(val)
    /\ kind = "any" /\ input = Serialize(val) => verdict # "err"
    /\ \A r \in raw : \E i \in DOMAIN val.k : val.k[i] = Info /\ r = Serialize(val.l[i])
    /\ buf = Serialize(val) /\ val.t = "dict" =>
          \A w \in Values : SameDict(w, val) => Serialize(w) = Serialize(val)
    /\ ctx = SubSeq(Path, 1, IF Len(Path) < CtxCap THEN Len(Path) ELSE CtxCap)
    /\ unfit = Len(Path) - Len(ctx)
=============================================================================
