------------------------------ MODULE MCWire ------------------------------
(***************************************************************************)
(* The peers of a torrent and what passes between them, for TLC: the map   *)
(* of peers, the messages that are dispatched and exchanged,               *)
(* the haves, the stream of bytes, the accept loop and the UDP client of the*)
(* trackers.  The parts share no state their properties are about, so a    *)
(* behaviour moves one of them (`part').                                   *)
(***************************************************************************)
EXTENDS PeerLifecycle

CONSTANTS Peers, AddrOf, Requesters, Local, HasPex, HasPunch, HasMetadata, Pieces, Batch,
          MaxSent, Privacy, PexKinds, Octets4, Octets6, Base, MaxMsgs, MaxChanges,
          MaxQueue, DispatchPeers, DispatchAddrOf, DispatchRequesters, DispatchLocal,
          DispatchHasPex, DispatchHasPunch, DispatchHasMetadata, DispatchPieces,
          DispatchBatch, DispatchMaxSent, DispatchPrivacy, MessageKinds, DispatchOctets4,
          DispatchOctets6, DispatchBase, DispatchMaxMsgs, DispatchMaxChanges,
          DispatchMaxQueue, Conns, Incoming, HavesPieces, Slots, Transports, Uploads,
          Backlog, HavesMaxQueue, BufLen, MsgCount, AcceptConns, AcceptAddrOf, Top,
          AcceptBlocked, Allowed, MaxHandshakes, Calls, TrackerOf, Tids, Nothing,
          UdpMaxSent, MaxIds, MaxAge

VARIABLES part, private, live, outgoing, view, pexTx, known, field, first, choked, permits, req,
          said, told, stray, msgs, changes, dispatchPrivate, dispatchLive,
          dispatchOutgoing, dispatchView, dispatchTx, dispatchKnown, dispatchField,
          dispatchFirst, dispatchChoked, dispatchPermits, dispatchReq, dispatchSaid,
          dispatchTold, dispatchStray, dispatchMsgs, dispatchChanges, stage, legs, queue,
          ids, line, have, counted, unsent, news, havesField, allocated, havesTold, lagged,
          withheld, kinds, pos, buf, start, len, need, bytesStage, out, conn, polls,
          asleep, call, transactions, connections, issued, datagrams, sent, crossed

X == INSTANCE PeerExchange WITH Kinds <- PexKinds, tx <- pexTx
D == INSTANCE PeerExchange WITH Peers <- DispatchPeers, AddrOf <- DispatchAddrOf, Requesters <- DispatchRequesters,
       Local <- DispatchLocal, HasPex <- DispatchHasPex, HasPunch <- DispatchHasPunch,
       HasMetadata <- DispatchHasMetadata, Pieces <- DispatchPieces,
       Batch <- DispatchBatch, MaxSent <- DispatchMaxSent, Privacy <- DispatchPrivacy,
       Kinds <- MessageKinds, Octets4 <- DispatchOctets4, Octets6 <- DispatchOctets6,
       Base <- DispatchBase, MaxMsgs <- DispatchMaxMsgs, MaxChanges <- DispatchMaxChanges,
       MaxQueue <- DispatchMaxQueue, private <- dispatchPrivate, live <- dispatchLive,
       outgoing <- dispatchOutgoing, view <- dispatchView, tx <- dispatchTx,
       known <- dispatchKnown, field <- dispatchField, first <- dispatchFirst,
       choked <- dispatchChoked, permits <- dispatchPermits, req <- dispatchReq,
       said <- dispatchSaid, told <- dispatchTold, stray <- dispatchStray,
       msgs <- dispatchMsgs, changes <- dispatchChanges
H == INSTANCE PeerConnection WITH Pieces <- HavesPieces, MaxQueue <- HavesMaxQueue, field <- havesField,
       told <- havesTold
B == INSTANCE Wire WITH stage <- bytesStage
I == INSTANCE Listener WITH Conns <- AcceptConns, AddrOf <- AcceptAddrOf, Blocked <- AcceptBlocked
U == INSTANCE UdpTrackerClient WITH Addr <- TrackerOf, MaxSent <- UdpMaxSent

pexVars == <<private, live, outgoing, view, pexTx, known, field, first, choked, permits,
             req, said, told, stray, msgs, changes>>
dispatchVars == <<dispatchPrivate, dispatchLive, dispatchOutgoing, dispatchView,
                  dispatchTx, dispatchKnown, dispatchField, dispatchFirst, dispatchChoked,
                  dispatchPermits, dispatchReq, dispatchSaid, dispatchTold, dispatchStray,
                  dispatchMsgs, dispatchChanges>>
havesVars == <<stage, legs, queue, ids, line, have, counted, unsent, news, havesField,
               allocated, havesTold, lagged, withheld>>
bytesVars == <<kinds, pos, buf, start, len, need, bytesStage, out>>
acceptVars == <<conn, polls, asleep>>
udpVars == <<call, transactions, connections, issued, datagrams, sent, crossed>>
allVars == <<part, vars, pexVars, dispatchVars, havesVars, bytesVars, acceptVars, udpVars>>

A(v, i, p) == [v4 |-> v, ip |-> i, port |-> p]
PeerAddresses == [p \in {"a", "b", "c"} |-> CASE p = "a" -> A(TRUE, <<1>>, 2)
                                              [] p = "b" -> A(TRUE, <<0>>, 1)
                                              [] p = "c" -> A(FALSE, <<1, 0>>, 1)]
AllKinds == {"bitfield", "have_all", "have_none", "unreadable", "have", "choke", "unchoke",
             "other", "piece", "metadata", "pex", "punch"}
Addresses == [c \in 1..4 |-> c]
Block == {<<2, 3>>}
Allow == {<<1, 4>>}
TwoTrackers == [c \in Calls |-> IF c = CHOOSE d \in Calls : TRUE THEN "t1" ELSE "t2"]

\* The variables of a part that does not move.
pexOff == private = 0 /\ live = 0 /\ outgoing = 0 /\ view = 0 /\ pexTx = 0 /\ known = 0 /\ field = 0 /\
          first = 0 /\ choked = 0 /\ permits = 0 /\ req = 0 /\ said = 0 /\ told = 0 /\ stray = 0 /\
          msgs = 0 /\ changes = 0
dispatchOff == dispatchPrivate = 0 /\ dispatchLive = 0 /\ dispatchOutgoing = 0 /\
               dispatchView = 0 /\ dispatchTx = 0 /\ dispatchKnown = 0 /\ dispatchField = 0 /\
               dispatchFirst = 0 /\ dispatchChoked = 0 /\ dispatchPermits = 0 /\ dispatchReq = 0 /\
               dispatchSaid = 0 /\ dispatchTold = 0 /\ dispatchStray = 0 /\ dispatchMsgs = 0 /\
               dispatchChanges = 0
havesOff == stage = 0 /\ legs = 0 /\ queue = 0 /\ ids = 0 /\ line = 0 /\ have = 0 /\ counted = 0 /\
            unsent = 0 /\ news = 0 /\ havesField = 0 /\ allocated = 0 /\ havesTold = 0 /\ lagged = 0 /\
            withheld = 0
bytesOff == kinds = 0 /\ pos = 0 /\ buf = 0 /\ start = 0 /\ len = 0 /\ need = 0 /\ bytesStage = 0 /\
            out = 0
acceptOff == conn = 0 /\ polls = 0 /\ asleep = 0
udpOff == call = 0 /\ transactions = 0 /\ connections = 0 /\ issued = 0 /\ datagrams = 0 /\ sent = 0 /\
          crossed = 0

MCInit ==
    /\ part \in {"peers", "pex", "dispatch", "haves", "bytes", "accept", "udp"}
    /\ Init
    /\ IF part = "pex" THEN X!Init ELSE pexOff
    /\ IF part = "dispatch" THEN D!Init ELSE dispatchOff
    /\ IF part = "haves" THEN H!Init ELSE havesOff
    /\ IF part = "bytes" THEN B!Init ELSE bytesOff
    /\ IF part = "accept" THEN I!Init ELSE acceptOff
    /\ IF part = "udp" THEN U!Init ELSE udpOff
MCNext ==
    /\ UNCHANGED part
    /\ \/ part = "peers" /\ Next /\ UNCHANGED <<pexVars, dispatchVars, havesVars, bytesVars, acceptVars, udpVars>>
       \/ part = "pex" /\ X!Next /\ UNCHANGED <<vars, dispatchVars, havesVars, bytesVars, acceptVars, udpVars>>
       \/ part = "dispatch" /\ D!Next /\ UNCHANGED <<vars, pexVars, havesVars, bytesVars, acceptVars, udpVars>>
       \/ part = "haves" /\ H!Next /\ UNCHANGED <<vars, pexVars, dispatchVars, bytesVars, acceptVars, udpVars>>
       \/ part = "bytes" /\ B!Next /\ UNCHANGED <<vars, pexVars, dispatchVars, havesVars, acceptVars, udpVars>>
       \/ part = "accept" /\ I!Next /\ UNCHANGED <<vars, pexVars, dispatchVars, havesVars, bytesVars, udpVars>>
       \/ part = "udp" /\ U!Next /\ UNCHANGED <<vars, pexVars, dispatchVars, havesVars, bytesVars, acceptVars>>
MCSpec == MCInit /\ [][MCNext]_allVars

\* Messages do to both sides what they say: a permit wakes a requester that
\* waits, PEX tells a peer once of each address (peer_handler.rs, tasks.rs), a
\* verified piece is told to whom it was promised (peer_connection.rs), and a
\* message arrives whole however the bytes are cut (read_buf.rs).
MessagesAreHeeded ==
    /\ part = "pex" => X!ExchangeIsSound
    /\ part = "dispatch" => D!ExchangeIsSound
    /\ part = "haves" => H!HaveReachesPeer
    /\ part = "bytes" => B!MessagesArriveIntact

\* What comes from outside is taken for what it is: a connection is handed to a torrent only
\* from an address that the block and allow lists admit (network.rs, ip_ranges.rs), and an announce
\* to a UDP tracker returns the answer to itself (tracker_comms_udp.rs).
OutsideIsScreened ==
    /\ part = "accept" => I!IncomingIsScreened
    /\ part = "udp" => U!UdpAnswersMatch
=============================================================================
