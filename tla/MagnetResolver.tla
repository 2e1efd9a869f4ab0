------------------------- MODULE MagnetResolver -------------------------
(***************************************************************************)
(* Resolving a magnet link (session add_torrent_internal, resolve_magnet,  *)
(* read_metainfo_from_peer_receiver and the handler of peer_info_reader):  *)
(* the addresses of a stream are asked for the info dictionary, so many at *)
(* a time, each over a connection of its own; the first answer whose hash  *)
(* is right wins, and every address consumed so far goes back into the     *)
(* stream of the torrent's peers.                                          *)
(***************************************************************************)
EXTENDS Naturals, FiniteSets

CONSTANTS Addrs,        \* addresses the stream may yield
          Honest,       \* those whose peers serve the info dictionary
          InfoLen,      \* its length
          ChunkSize,
          MaxSize,      \* the largest metadata_size that is accepted
          Limit,        \* permits for reading at the same time (128)
          HasTimeout    \* magnet_resolution_timeout_secs # 0

VARIABLES toCome,       \* addresses the stream has not yielded yet
          streamEnded,  \* addrs_completed
          seen,
          reader,       \* address -> state of read_info_guarded
          size,         \* metadata_size of HandlerLocked, or None
          got,          \* pieces recorded: "none", "right" or "wrong" bytes
          asked,        \* requests the peer has not answered
          outcome,      \* of the resolution
          answer,       \* what the torrent will be made of
          handed        \* addresses the torrent's stream starts with

vars == <<toCome, streamEnded, seen, reader, size, got, asked, outcome, answer, handed>>

None == MaxSize + 2
DivCeil(n, d) == (n + d - 1) \div d
MaxPieces == DivCeil(MaxSize, ChunkSize)
Lesser(a, b) == IF a < b THEN a ELSE b
NoPieces == [i \in 0..MaxPieces - 1 |-> "none"]
Reading == {a \in Addrs : reader[a] \in {"connecting", "reading", "sent"}}

\* last_element_size: the size of the last piece of a whole.
LastElementSize(total, each) == IF total % each = 0 THEN each ELSE total % each

\* HandlerLocked::piece_size
PieceSize(total, i) ==
    IF i = DivCeil(total, ChunkSize) - 1 THEN LastElementSize(total, ChunkSize) ELSE ChunkSize

Init ==
    /\ toCome \in SUBSET Addrs /\ streamEnded = FALSE /\ seen = {}
    /\ reader = [a \in Addrs |-> "none"] /\ size = [a \in Addrs |-> None]
    /\ got = [a \in Addrs |-> NoPieces] /\ asked = [a \in Addrs |-> {}]
    /\ outcome = "resolving" /\ answer = "none" /\ handed = {}

Running == outcome = "resolving"

\* The stream yields an address; one it yielded before is skipped.
NextAddr(a) ==
    /\ Running /\ a \in toCome /\ toCome' = toCome \ {a}
    /\ seen' = seen \cup {a} /\ reader' = [reader EXCEPT ![a] = "queued"]
    /\ UNCHANGED <<streamEnded, size, got, asked, outcome, answer, handed>>

StreamEnds ==
    /\ Running /\ toCome = {} /\ streamEnded' = TRUE
    /\ UNCHANGED <<toCome, seen, reader, size, got, asked, outcome, answer, handed>>

Connect(a) ==
    /\ Running /\ reader[a] = "queued" /\ Cardinality(Reading) < Limit
    /\ reader' = [reader EXCEPT ![a] = "connecting"]
    /\ UNCHANGED <<toCome, streamEnded, seen, size, got, asked, outcome, answer, handed>>

\* The connection of a reader ends, in an error or in a timeout.
Drop(a) ==
    /\ reader' = [reader EXCEPT ![a] = "failed"]
    /\ size' = [size EXCEPT ![a] = None] /\ got' = [got EXCEPT ![a] = NoPieces]
    /\ asked' = [asked EXCEPT ![a] = {}]
    /\ UNCHANGED <<toCome, streamEnded, seen, outcome, answer, handed>>

\* A reader that has sent the dictionary may still end so: the connection is polled beside
\* the receiver, and what it received may not be a dictionary of a torrent.
ReaderFails(a) == Running /\ reader[a] \in {"connecting", "reading", "sent"} /\ Drop(a)

\* on_extended_handshake: the size is refused when it is missing or too large,
\* otherwise all pieces are requested and the state is made anew, for a second
\* handshake too.
OnExtendedHandshake(a, total) ==
    /\ Running /\ reader[a] \in {"connecting", "reading"}
    /\ a \in Honest => reader[a] = "connecting" /\ total = InfoLen
    /\ \/ total > MaxSize /\ Drop(a)
       \/ /\ total <= MaxSize
          /\ reader' = [reader EXCEPT ![a] = "reading"]
          /\ size' = [size EXCEPT ![a] = total] /\ got' = [got EXCEPT ![a] = NoPieces]
          /\ asked' = [asked EXCEPT ![a] = 0..DivCeil(total, ChunkSize) - 1]
          /\ UNCHANGED <<toCome, streamEnded, seen, outcome, answer, handed>>

\* PeerHandler::send_metadata_piece of the peer: the length of the slice it
\* sends for a piece.
SendMetadataPiece(i) == Lesser(i * ChunkSize + ChunkSize, InfoLen) - i * ChunkSize

\* UtMetadataData::validate: the message agrees with the total it carries.
Validate(i, len, total) ==
    /\ total # 0 /\ len <= ChunkSize /\ i < DivCeil(total, ChunkSize)
    /\ len = Lesser(total - i * ChunkSize, ChunkSize)

\* HandlerLocked::record_piece accepts piece i of that length.
Records(a, i, len) ==
    i < DivCeil(size[a], ChunkSize) /\ len = PieceSize(size[a], i) /\ got[a][i] = "none"

\* A mutant: a checksum over the pieces alone, whatever the size they were promised in.
ChecksumOfPieces(a, pieces) ==
    \A i \in 0..DivCeil(size[a], ChunkSize) - 1 : pieces[i] = "right"

\* The hash over the buffer is the info hash.
ChecksumValid(a, pieces) ==
    size[a] = InfoLen /\ \A i \in 0..DivCeil(InfoLen, ChunkSize) - 1 : pieces[i] = "right"

\* The dictionary is sent to whoever waits for the reader; the connection is
\* still polled until that one looks.
Sends(a, pieces) ==
    /\ reader' = [reader EXCEPT ![a] = "sent"] /\ got' = [got EXCEPT ![a] = pieces]
    /\ asked' = [asked EXCEPT ![a] = {}]
    /\ UNCHANGED <<toCome, streamEnded, seen, size, outcome, answer, handed>>

\* Found: the future of every other reader is dropped, and the addresses seen
\* are merged back into what is left of the stream.
Found(a) ==
    /\ Running /\ reader[a] = "sent"
    /\ outcome' = "found" /\ handed' = seen \cup toCome
    /\ answer' = IF size[a] = InfoLen /\ \A i \in 0..DivCeil(InfoLen, ChunkSize) - 1 : got[a][i] = "right"
                 THEN "genuine" ELSE "forged"
    /\ UNCHANGED <<toCome, streamEnded, seen, reader, size, got, asked>>

\* A metadata message when there is no HandlerLocked, before the extended
\* handshake or after the last piece, panics the task that resolves.
OnDataOutside(a) ==
    /\ Running /\ reader[a] \in {"connecting", "sent"} /\ a \notin Honest
    /\ outcome' = "panicked"
    /\ UNCHANGED <<toCome, streamEnded, seen, reader, size, got, asked, answer, handed>>

\* A metadata message arrives, asked for or not; an honest peer answers what
\* was asked.  Anything wrong with it ends the connection.
OnData(a, i, len, total, bytes) ==
    /\ Running /\ reader[a] = "reading"
    /\ a \in Honest => i \in asked[a] /\ len = SendMetadataPiece(i) /\ total = InfoLen /\ bytes = "right"
    /\ LET pieces == [got[a] EXCEPT ![i] = bytes]
           complete == \A j \in 0..DivCeil(size[a], ChunkSize) - 1 : pieces[j] # "none" IN
       \/ (~Validate(i, len, total) \/ ~Records(a, i, len)) /\ Drop(a)
       \/ /\ Validate(i, len, total) /\ Records(a, i, len) /\ ~complete
          /\ got' = [got EXCEPT ![a] = pieces] /\ asked' = [asked EXCEPT ![a] = @ \ {i}]
          /\ UNCHANGED <<toCome, streamEnded, seen, reader, size, outcome, answer, handed>>
       \/ /\ Validate(i, len, total) /\ Records(a, i, len) /\ complete
          /\ \/ ChecksumValid(a, pieces) /\ Sends(a, pieces)
             \/ ~ChecksumValid(a, pieces) /\ Drop(a)

\* A loop that stops with the stream, whatever readers are still at work.
ExhaustedEarly ==
    /\ Running /\ streamEnded
    /\ outcome' = "exhausted"
    /\ UNCHANGED <<toCome, streamEnded, seen, reader, size, got, asked, answer, handed>>

\* ChannelClosed: no address is left and no reader is.
Exhausted ==
    /\ Running /\ streamEnded /\ \A a \in seen : reader[a] = "failed"
    /\ outcome' = "exhausted"
    /\ UNCHANGED <<toCome, streamEnded, seen, reader, size, got, asked, answer, handed>>

TimesOut ==
    /\ Running /\ HasTimeout /\ outcome' = "timed out"
    /\ UNCHANGED <<toCome, streamEnded, seen, reader, size, got, asked, answer, handed>>

Handshakes == \E a \in Addrs, total \in 0..MaxSize + 1 : OnExtendedHandshake(a, total)
Messages ==
    \E a \in Addrs, i \in 0..MaxPieces - 1, len \in 0..ChunkSize, total \in 0..MaxSize,
       bytes \in {"right", "wrong"} : OnData(a, i, len, total, bytes)

Next ==
    \/ \E a \in Addrs : NextAddr(a) \/ Connect(a) \/ ReaderFails(a) \/ Found(a) \/ OnDataOutside(a)
    \/ StreamEnds \/ Handshakes \/ Messages \/ Exhausted \/ TimesOut

\* What an honest peer does with the reader that asks it.
Served(a) ==
    \/ OnExtendedHandshake(a, InfoLen)
    \/ \E i \in 0..MaxPieces - 1 : i \in asked[a] /\ OnData(a, i, SendMetadataPiece(i), InfoLen, "right")
Strangers == \E a \in Addrs \ Honest : reader[a] # "sent" /\ ReaderFails(a)
Streaming == (\E a \in Addrs : NextAddr(a)) \/ StreamEnds
Connecting == \E a \in Addrs : Connect(a)
HonestServe == \E a \in Honest : Served(a)
Returns == (\E a \in Addrs : Found(a)) \/ Exhausted
Spec == Init /\ [][Next]_vars
        /\ WF_vars(Streaming) /\ WF_vars(Connecting) /\ WF_vars(Strangers) /\ WF_vars(HonestServe)
        /\ WF_vars(Returns)

-----------------------------------------------------------------------------

\* Only the info dictionary the magnet link names is accepted, whatever sizes,
\* pieces and bytes peers send and in whatever order; and no address the
\* resolution consumed is lost to the torrent (session/mod.rs:847).
FoundIsGenuine ==
    /\ answer # "forged"
    /\ outcome = "found" => seen \cup toCome \subseteq handed

\* A resolution ends, and one peer that serves the dictionary is enough: it is
\* not exhausted while such a peer has not failed it, and readers of silent
\* peers, which time out, only delay the one that will succeed.
MagnetResolves ==
    \A a \in Honest : (Running /\ a \in toCome \cup seen /\ reader[a] # "failed")
        ~> (outcome \in {"found", "timed out", "panicked"} \/ reader[a] = "failed")
=============================================================================
