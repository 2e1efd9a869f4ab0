------------------------- MODULE PeerConnection -------------------------
(***************************************************************************)
(* The connections of one live torrent (PeerConnection, StreamConnector    *)
(* and PeerHandler): dialling over TCP and uTP at once, the handshakes,    *)
(* the writer with its queue, its subscription to completed pieces and     *)
(* its wait for one of the torrent's upload slots, and the reader.  A      *)
(* connection ends with whichever of reader and writer ends first, and     *)
(* everything it owned is dropped at that moment.                          *)
(***************************************************************************)
EXTENDS Naturals, Sequences, FiniteSets, SequencesExt

CONSTANTS Conns,        \* connections of the torrent
          Incoming,     \* those of them that peers opened
          Pieces,
          Slots,        \* permits of upload_slot_semaphore (4)
          Transports,   \* enabled: a subset of {"tcp", "utp"}
          Uploads,      \* ~disable_upload
          Backlog,      \* capacity of the broadcast of completed pieces (128)
          MaxQueue      \* bound on the requests waiting for a writer

VARIABLES stage,        \* how far the connection's task has come
          legs,         \* transport -> how its attempt stands
          queue,        \* outgoing_chan
          ids,          \* the peer's extended handshake has been stored
          line,         \* writers waiting for a slot, in order
          have,         \* finished pieces
          counted,      \* some of them counts in have_bytes
          unsent,       \* finished pieces not yet broadcast
          news,         \* have_broadcast of each connection
          field,        \* the peer's bitfield, as a set of pieces
          allocated,    \* ... which stays empty until the peer speaks of pieces
          told, lagged, withheld
            \* pieces the peer was told of; missed by lag; kept from the peer
            \* because its bitfield is not allocated

vars == <<stage, legs, queue, ids, line, have, counted, unsent, news, field, allocated,
          told, lagged, withheld>>

Requests == {"message", "chunk", "extended", "disconnect"}
Ended(c) == stage[c] \in {"idle", "ended"}
Holders == {c \in Conns : stage[c] \in {"unchoking", "open"}}
Idle == [t \in {"tcp", "utp"} |-> "off"]

Init ==
    /\ stage = [c \in Conns |-> "idle"] /\ legs = [c \in Conns |-> Idle]
    /\ queue = [c \in Conns |-> <<>>] /\ ids = [c \in Conns |-> FALSE] /\ line = <<>>
    /\ have = {} /\ counted = FALSE /\ unsent = {}
    /\ news = [c \in Conns |-> <<>>] /\ field = [c \in Conns |-> {}]
    /\ allocated = [c \in Conns |-> FALSE] /\ told = [c \in Conns |-> {}]
    /\ lagged = [c \in Conns |-> {}] /\ withheld = [c \in Conns |-> {}]

\* A dropped connection whose place in the line of writers is not given up.
EndKeepsPlace(c) ==
    /\ stage' = [stage EXCEPT ![c] = "ended"]
    /\ legs' = [legs EXCEPT ![c] = Idle]
    /\ queue' = [queue EXCEPT ![c] = <<>>] /\ news' = [news EXCEPT ![c] = <<>>]
    /\ UNCHANGED <<ids, line, have, counted, unsent, field, allocated, told, lagged, withheld>>

\* The task of the connection is over: its futures are dropped, and with them
\* the slot it holds or its place among those that wait for one.
End(c) ==
    /\ stage' = [stage EXCEPT ![c] = "ended"]
    /\ legs' = [legs EXCEPT ![c] = Idle]
    /\ queue' = [queue EXCEPT ![c] = <<>>] /\ news' = [news EXCEPT ![c] = <<>>]
    /\ line' = SelectSeq(line, LAMBDA d : d # c)
    /\ UNCHANGED <<ids, have, counted, unsent, field, allocated, told, lagged, withheld>>

Moves(c, from, to) ==
    /\ stage[c] = from /\ stage' = [stage EXCEPT ![c] = to]
    /\ UNCHANGED <<queue, ids, line, have, counted, unsent, news, field, allocated, told,
                   lagged, withheld>>

-----------------------------------------------------------------------------
(* Dialling and handshakes                                                 *)

\* A connection is managed: the receiver of completed pieces is subscribed
\* before anything else happens.  uTP is held back while TCP is tried.
Start(c) ==
    /\ Moves(c, "idle", IF c \in Incoming THEN "hello" ELSE "dialing")
    /\ legs' = [legs EXCEPT ![c] = IF c \in Incoming THEN Idle ELSE
                 [t \in {"tcp", "utp"} |-> CASE t \notin Transports -> "failed"
                                             [] t = "utp" /\ "tcp" \in Transports -> "held"
                                             [] OTHER -> "trying"]]

\* One second has passed.
UtpReleased(c) ==
    /\ stage[c] = "dialing" /\ legs[c]["utp"] = "held"
    /\ legs' = [legs EXCEPT ![c]["utp"] = "trying"] /\ Moves(c, "dialing", "dialing")

\* An attempt fails.  notify_waiters reaches only a waiter that is already
\* registered, so uTP may go on waiting for its second.
LegFails(c, t) ==
    /\ stage[c] = "dialing" /\ legs[c][t] = "trying"
    /\ \E next \in IF t = "tcp" /\ legs[c]["utp"] = "held" THEN {"held", "trying"} ELSE {legs[c]["utp"]} :
          legs' = [legs EXCEPT ![c] = IF t = "utp" THEN [@ EXCEPT !["utp"] = "failed"]
                                      ELSE [tcp |-> "failed", utp |-> next]]
    /\ Moves(c, "dialing", "dialing")

ConnectFails(c) ==
    /\ stage[c] = "dialing" /\ \A t \in {"tcp", "utp"} : legs[c][t] = "failed"
    /\ End(c)

LegConnects(c, t) ==
    /\ stage[c] = "dialing" /\ legs[c][t] = "trying"
    /\ Moves(c, "dialing", "hello") /\ legs' = [legs EXCEPT ![c] = Idle]

\* Our handshake is written, the peer's was read; the peer's hash is ours and
\* its id is not.  on_handshake makes the peer live.
Shake(c) == Moves(c, "hello", "greeting") /\ UNCHANGED legs

\* The extended handshake and the DHT port, where the peer supports them.
Greet(c) == Moves(c, "greeting", "opening") /\ UNCHANGED legs

\* Any of these, or a write, read or connect that times out or fails.
Fails(c) == ~Ended(c) /\ End(c)

-----------------------------------------------------------------------------
(* The writer                                                              *)

\* A bitfield, when have_bytes says there is something to tell of, then Choke.
Open(c) ==
    /\ stage[c] = "opening" /\ stage' = [stage EXCEPT ![c] = "waiting"]
    /\ told' = [told EXCEPT ![c] = IF Uploads /\ counted THEN have ELSE {}]
    /\ line' = Append(line, c)
    /\ UNCHANGED <<legs, queue, ids, have, counted, unsent, news, field, allocated, lagged, withheld>>

\* Nothing of the queue is written before the slot is there.
Acquire(c) ==
    /\ stage[c] = "waiting" /\ line # <<>> /\ Head(line) = c /\ Cardinality(Holders) < Slots
    /\ stage' = [stage EXCEPT ![c] = "unchoking"] /\ line' = Tail(line)
    /\ UNCHANGED <<legs, queue, ids, have, counted, unsent, news, field, allocated, told, lagged, withheld>>

Unchoke(c) == Moves(c, "unchoking", "open") /\ UNCHANGED legs

\* PeerHandler::should_transmit_have: a bitfield without the piece's bit counts
\* as one that has it.
ShouldTransmitHave(c, p) == Uploads /\ allocated[c] /\ p \notin field[c]

\* A completed piece is received from the broadcast.
TakeNews(c) ==
    /\ stage[c] = "open" /\ news[c] # <<>>
    /\ LET p == Head(news[c]) IN
       /\ told' = IF ShouldTransmitHave(c, p) THEN [told EXCEPT ![c] = @ \cup {p}] ELSE told
       /\ withheld' = IF allocated[c] THEN withheld ELSE [withheld EXCEPT ![c] = @ \cup {p}]
    /\ news' = [news EXCEPT ![c] = Tail(@)]
    /\ UNCHANGED <<stage, legs, queue, ids, line, have, counted, unsent, field, allocated, lagged>>

\* A request is received from the queue.  A disconnect ends the writer, and so
\* does an extended message for a peer whose ids are not known.  (A keep-alive,
\* sent when nothing came for two minutes, changes nothing here.)
TakeRequest(c) ==
    /\ stage[c] = "open" /\ queue[c] # <<>>
    /\ \/ /\ Head(queue[c]) \in {"message", "chunk"} \/ (Head(queue[c]) = "extended" /\ ids[c])
          /\ queue' = [queue EXCEPT ![c] = Tail(@)]
          /\ UNCHANGED <<stage, legs, ids, line, have, counted, unsent, news, field, allocated,
                         told, lagged, withheld>>
       \/ /\ Head(queue[c]) = "disconnect" \/ (Head(queue[c]) = "extended" /\ ~ids[c])
          /\ End(c)

\* The torrent sends the connection a request.
Send(c, r) ==
    /\ ~Ended(c) /\ Len(queue[c]) < MaxQueue
    /\ queue' = [queue EXCEPT ![c] = Append(@, r)]
    /\ UNCHANGED <<stage, legs, ids, line, have, counted, unsent, news, field, allocated, told,
                   lagged, withheld>>

-----------------------------------------------------------------------------
(* The reader                                                              *)

Reading(c) == stage[c] \in {"opening", "waiting", "unchoking", "open"}

ReadExtendedHandshake(c) ==
    /\ Reading(c) /\ ids' = [ids EXCEPT ![c] = TRUE]
    /\ UNCHANGED <<stage, legs, queue, line, have, counted, unsent, news, field, allocated,
                   told, lagged, withheld>>

\* on_bitfield: Bitfield, HaveAll or HaveNone.
OnBitfield(c, pieces) ==
    /\ Reading(c) /\ ~allocated[c]
    /\ field' = [field EXCEPT ![c] = pieces] /\ allocated' = [allocated EXCEPT ![c] = TRUE]
    /\ UNCHANGED <<stage, legs, queue, ids, line, have, counted, unsent, news, told, lagged, withheld>>

\* on_have allocates the bitfield of a peer that sent none.
OnHave(c, p) ==
    /\ Reading(c) /\ p \notin field[c]
    /\ field' = [field EXCEPT ![c] = @ \cup {p}] /\ allocated' = [allocated EXCEPT ![c] = TRUE]
    /\ UNCHANGED <<stage, legs, queue, ids, line, have, counted, unsent, news, told, lagged, withheld>>

-----------------------------------------------------------------------------
(* The torrent finishes a piece: the chunk tracker, then have_bytes, then  *)
(* the broadcast                                                           *)

Finish(p) ==
    /\ p \notin have /\ have' = have \cup {p} /\ unsent' = unsent \cup {p}
    /\ UNCHANGED <<stage, legs, queue, ids, line, counted, news, field, allocated, told, lagged, withheld>>

Count ==
    /\ have # {} /\ counted' = TRUE
    /\ UNCHANGED <<stage, legs, queue, ids, line, have, unsent, news, field, allocated, told,
                   lagged, withheld>>

\* Only the connections whose writer has come to its loop receive the piece.
TransmitHavesToOpen(p) ==
    /\ p \in unsent /\ counted /\ unsent' = unsent \ {p}
    /\ news' = [c \in Conns |-> IF stage[c] = "open" THEN Append(news[c], p) ELSE news[c]]
    /\ UNCHANGED <<stage, legs, queue, ids, line, have, counted, field, allocated, told, lagged, withheld>>

\* A receiver more than the capacity behind loses its oldest entry.
TransmitHaves(p) ==
    /\ p \in unsent /\ counted /\ unsent' = unsent \ {p}
    /\ news' = [c \in Conns |-> IF Ended(c) THEN news[c]
                  ELSE IF Len(news[c]) = Backlog THEN Append(Tail(news[c]), p) ELSE Append(news[c], p)]
    /\ lagged' = [c \in Conns |-> IF ~Ended(c) /\ Len(news[c]) = Backlog
                                  THEN lagged[c] \cup {Head(news[c])} ELSE lagged[c]]
    /\ UNCHANGED <<stage, legs, queue, ids, line, have, counted, field, allocated, told, withheld>>

-----------------------------------------------------------------------------

\* What the task of a connection does by itself; every wait in it is bounded by
\* a timeout except the wait for a slot and the wait for something to write.
Progress(c) ==
    \/ UtpReleased(c) \/ ConnectFails(c) \/ (\E t \in {"tcp", "utp"} : LegFails(c, t) \/ LegConnects(c, t))
    \/ Shake(c) \/ Greet(c) \/ Open(c) \/ Acquire(c) \/ Unchoke(c)
    \/ stage[c] \in {"dialing", "hello", "greeting", "opening", "unchoking"} /\ Fails(c)

Next ==
    \/ \E c \in Conns :
         \/ Start(c) \/ Progress(c) \/ Fails(c) \/ TakeNews(c) \/ TakeRequest(c)
         \/ ReadExtendedHandshake(c)
         \/ \E r \in Requests : Send(c, r)
         \/ \E pieces \in SUBSET Pieces : OnBitfield(c, pieces)
         \/ \E p \in Pieces : OnHave(c, p)
    \/ \E p \in Pieces : Finish(p) \/ TransmitHaves(p)
    \/ Count

ConnsProgress == \A c \in Conns : WF_vars(Progress(c)) /\ WF_vars(TakeNews(c)) /\ WF_vars(TakeRequest(c))
Spec == Init /\ [][Next]_vars /\ ConnsProgress

-----------------------------------------------------------------------------

\* Whatever the interleaving of a new connection with the completion of a
\* piece, the peer hears of every finished piece: from the bitfield or from the
\* broadcast it was subscribed to before (tasks.rs:177).  Only a receiver that
\* lags, a peer that has the piece, and a peer whose bitfield is not allocated
\* are left out.
HaveReachesPeer ==
    \A c \in Conns : stage[c] \in {"waiting", "unchoking", "open"} =>
        have \ unsent \subseteq told[c] \cup Range(news[c]) \cup field[c] \cup lagged[c] \cup withheld[c]

\* A peer that sent no bitfield is treated as one that sent a bitfield of
\* zeroes: it too is told of every piece it lacks.
EmptyPeerIsTold ==
    \A c \in Conns : stage[c] \in {"waiting", "unchoking", "open"} =>
        have \ unsent \subseteq told[c] \cup Range(news[c]) \cup field[c] \cup lagged[c]

\* A request given to a connection is written, or the connection ends, as long
\* as no other connection keeps its upload slot for ever: the slot is the only
\* thing a writer waits for without a timeout (peer_connection.rs:366).
QueuedIsWritten ==
    \A c \in Conns :
        (\A d \in Conns \ {c} : []<>(stage[d] # "open"))
            => (queue[c] # <<>> ~> (queue[c] = <<>> \/ stage[c] = "ended"))
=============================================================================
