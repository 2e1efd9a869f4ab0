------------------------------ MODULE Wire ------------------------------
(***************************************************************************)
(* Reading messages off a connection: the ring buffer of ReadBuf, the      *)
(* pair of slices a message is parsed from (DoubleBufHelper), and          *)
(* Message::deserialize, which asks for more bytes or for a contiguous     *)
(* buffer.  A byte is modelled by its place: <<i, j>> is byte j of message *)
(* i, message 0 being the handshake; a number is read correctly exactly    *)
(* when its bytes are the right ones in order.  The lengths are small, but *)
(* an integer still has two bytes, so that every split can occur.          *)
(***************************************************************************)
EXTENDS Naturals, Sequences, SequencesExt

CONSTANTS BufLen,       \* BUFLEN
          MsgCount         \* messages sent after the handshake

VARIABLES kinds,        \* what the peer sends, in order
          pos,          \* bytes of it that were read from the socket
          buf, start, len,   \* ReadBuf
          need,         \* need_additional_bytes
          stage,        \* "handshake", "parse", "read" or the error
          out           \* what read_message returned: <<message, bytes of its body>>

vars == <<kinds, pos, buf, start, len, need, stage, out>>

IntegerLen == 2
Preamble == IntegerLen + 1
HandshakeLen == 3

\* Bytes of the body after the message id.
Kinds == {"keep_alive", "choke", "have", "bitfield", "piece", "extended", "ut_metadata", "oversized"}
Body(k) == CASE k = "choke" -> 0 [] k = "have" -> IntegerLen
             [] k = "bitfield" -> 2      \* one contiguous slice
             [] k = "piece" -> IntegerLen + 2   \* an integer, then two slices
             [] k = "extended" -> 3      \* the id, then contiguous bencode
             [] k = "ut_metadata" -> 4   \* the id, two bytes of bencode, one of data
             [] k = "oversized" -> BufLen
LenPrefix(i) == IF kinds[i] = "keep_alive" THEN 0 ELSE 1 + Body(kinds[i])

\* Message::serialize and Handshake::serialize_unchecked_len
Serialize(i) == [j \in 1..IntegerLen + LenPrefix(i) |-> <<i, j>>]
Sent == FoldLeft(LAMBDA s, i : s \o Serialize(i), [j \in 1..HandshakeLen |-> <<0, j>>],
                 [i \in 1..MsgCount |-> i])

Init ==
    /\ kinds \in [1..MsgCount -> Kinds]
    /\ pos = 0 /\ buf = [k \in 0..BufLen - 1 |-> <<>>] /\ start = 0 /\ len = 0
    /\ need = 0 /\ stage = "handshake" /\ out = <<>>

-----------------------------------------------------------------------------
(* DoubleBufHelper: a pair of slices read as one                           *)

Lesser(a, b) == IF a < b THEN a ELSE b
Size(d) == Len(d[1]) + Len(d[2])
Take(s, n) == SubSeq(s, 1, n)
Skip(s, n) == SubSeq(s, n + 1, Len(s))

Advance(d, n) ==
    LET a == Lesser(Len(d[1]), n) IN <<Skip(d[1], a), Skip(d[2], Lesser(n - a, Len(d[2])))>>

WithMaxLen(d, n) ==
    LET a == Lesser(Len(d[1]), n) IN <<Take(d[1], a), Take(d[2], Lesser(n - a, Len(d[2])))>>

\* consume, consume_variable, read_u32_be and read_u8: the first n bytes.
Consume(d, n) == LET w == WithMaxLen(d, n) IN w[1] \o w[2]

HasContiguous(d, n) == Len(d[1]) >= n \/ (Len(d[1]) = 0 /\ Len(d[2]) >= n)

-----------------------------------------------------------------------------
(* Message::deserialize                                                    *)

Ok(i, body, total) == [is |-> "ok", msg |-> i, body |-> body, n |-> total]
NotEnoughData(n) == [is |-> "not enough", msg |-> 0, body |-> <<>>, n |-> n]
NeedContiguous == [is |-> "need contiguous", msg |-> 0, body |-> <<>>, n |-> 0]
Garbled == [is |-> "garbled", msg |-> 0, body |-> <<>>, n |-> 0]

\* The message whose length prefix these bytes are, or 0.
PrefixOf(bytes) ==
    IF \E i \in 1..MsgCount : bytes = Take(Serialize(i), IntegerLen)
    THEN CHOOSE i \in 1..MsgCount : bytes = Take(Serialize(i), IntegerLen) ELSE 0

\* UtMetadata::deserialize: the dictionary must lie in one slice, the data need
\* not; ExtendedMessage::deserialize: everything must.
ParsesExtended(i, rest) ==
    LET d == Advance(rest, 1) IN      \* the extended id
    IF kinds[i] = "extended" THEN HasContiguous(d, Size(d))
    ELSE HasContiguous(d, Size(d)) \/ Len(d[1]) >= 2

Deserialize(d) ==
    IF Size(d) < IntegerLen THEN NotEnoughData(IntegerLen - Size(d))
    ELSE LET i == PrefixOf(Consume(d, IntegerLen))
             rest == Advance(d, IntegerLen)
         IN IF i = 0 THEN Garbled
            ELSE IF LenPrefix(i) = 0 THEN Ok(i, <<>>, IntegerLen)
            ELSE IF Size(rest) = 0 THEN NotEnoughData(LenPrefix(i))
            ELSE LET msgLen == LenPrefix(i) - 1
                     body == Advance(rest, 1)
                 IN IF Size(body) < msgLen THEN NotEnoughData(msgLen - Size(body))
                    ELSE IF \/ kinds[i] = "bitfield" /\ ~HasContiguous(body, msgLen)
                            \/ /\ kinds[i] \in {"extended", "ut_metadata"}
                               /\ ~ParsesExtended(i, WithMaxLen(body, msgLen))
                         THEN NeedContiguous
                    ELSE Ok(i, Consume(body, msgLen), Preamble + msgLen)

-----------------------------------------------------------------------------
(* ReadBuf                                                                 *)

\* as_slice_ranges
AsSlices ==
    LET first == Lesser(len, BufLen - start) IN
    <<[k \in 1..first |-> buf[start + k - 1]], [k \in 1..len - first |-> buf[k - 1]]>>

IsContiguous == start + len = (start + len) % BufLen

AdvanceBuf(n) == len' = (IF n > len THEN 0 ELSE len - n) /\ start' = (start + n) % BufLen

\* A second slice that is filled from the start of the read instead of from
\* where the first slice ended.
FillTwice(n) ==
    LET at == (start + len) % BufLen IN
    /\ buf' = [k \in 0..BufLen - 1 |->
                 IF k >= at /\ k - at < n THEN Sent[pos + k - at + 1]
                 ELSE IF k < at /\ BufLen - at + k < n THEN Sent[pos + k + 1] ELSE buf[k]]
    /\ len' = len + n /\ pos' = pos + n

\* unfilled_ioslices: n bytes are read into the space after the data.
Fill(n) ==
    LET at == (start + len) % BufLen IN
    /\ buf' = [k \in 0..BufLen - 1 |->
                 LET off == IF k >= at THEN k - at ELSE BufLen - at + k IN
                 IF off < n THEN Sent[pos + off + 1] ELSE buf[k]]
    /\ len' = len + n /\ pos' = pos + n

\* read_handshake: a single read into the empty buffer must bring all of it.
ReadHandshake(n) ==
    /\ stage = "handshake" /\ n <= Lesser(BufLen, Len(Sent) - pos)
    /\ buf' = [k \in 0..BufLen - 1 |-> IF k < n THEN Sent[k + 1] ELSE buf[k]] /\ pos' = n
    /\ IF n < HandshakeLen
       THEN stage' = "handshake refused" /\ len' = n /\ UNCHANGED start
       ELSE stage' = "parse" /\ len' = n - HandshakeLen /\ start' = HandshakeLen % BufLen
    /\ UNCHANGED <<kinds, need, out>>

\* make_contiguous, refused as a bug when the data is contiguous already.
MakeContiguous ==
    IF IsContiguous THEN stage' = "make_contiguous refused" /\ UNCHANGED <<buf, start>>
    ELSE /\ buf' = LET all == AsSlices[1] \o AsSlices[2] IN
                   [k \in 0..BufLen - 1 |-> IF k < len THEN all[k + 1] ELSE <<>>]
         /\ start' = 0 /\ UNCHANGED stage

\* read_message tries to parse what is there.
Parse ==
    /\ stage = "parse"
    /\ LET r == Deserialize(AsSlices) IN
       \/ /\ r.is = "ok" /\ AdvanceBuf(r.n) /\ out' = Append(out, <<r.msg, r.body>>)
          /\ UNCHANGED <<buf, need, stage>>
       \/ /\ r.is = "not enough" /\ need' = r.n /\ stage' = "read"
          /\ UNCHANGED <<buf, start, len, out>>
       \/ r.is = "need contiguous" /\ MakeContiguous /\ UNCHANGED <<len, need, out>>
       \/ r.is = "garbled" /\ stage' = "garbled" /\ UNCHANGED <<buf, start, len, need, out>>
    /\ UNCHANGED <<kinds, pos>>

\* ... and reads on until the missing bytes are there.
ReadMore(n) ==
    /\ stage = "read" /\ len < BufLen
    /\ n <= Lesser(BufLen - len, Len(Sent) - pos)
    /\ Fill(n) /\ need' = (IF n > need THEN 0 ELSE need - n)
    /\ stage' = (IF need' = 0 THEN "parse" ELSE "read")
    /\ UNCHANGED <<kinds, start, out>>

ReadBufFull ==
    /\ stage = "read" /\ len = BufLen /\ stage' = "buffer full"
    /\ UNCHANGED <<kinds, pos, buf, start, len, need, out>>

Next == Parse \/ ReadBufFull \/ \E n \in 1..BufLen : ReadHandshake(n) \/ ReadMore(n)

Spec == Init /\ [][Next]_vars

-----------------------------------------------------------------------------

\* However the bytes are cut into reads and wherever they wrap around, every
\* message comes out once, in order and byte for byte, with no error but that
\* of a handshake cut in two (read_buf.rs:52) or of a message that does not fit
\* the buffer; and the reader never waits for bytes it already has.
MessagesArriveIntact ==
    /\ Len(out) <= MsgCount
    /\ \A k \in 1..Len(out) : out[k] = <<k, Skip(Serialize(k), Preamble)>>
    /\ stage \in {"handshake", "handshake refused", "parse", "read", "buffer full"}
    /\ stage = "buffer full" =>
           Len(out) < MsgCount /\ Len(Serialize(Len(out) + 1)) > BufLen
    /\ stage = "read" /\ pos = Len(Sent) => Len(out) = MsgCount
=============================================================================
