----------------------------- MODULE MCNetwork -----------------------------
(***************************************************************************)
(* What must eventually happen between a torrent and the world, for TLC:   *)
(* trackers, sources of addresses, connections, magnet links, the gateway, and*)
(* the writer of a torrent whose files are being streamed.  The parts share*)
(* no state, so a behaviour moves one of them (`part').                    *)
(***************************************************************************)
EXTENDS TrackerComms, Integers

CONSTANTS UdpHttp, UdpUdp, UdpUnsupported, UdpBroken, UdpHasUdpClient, UdpCap,
          SourcesTrackers, SessionTrackers, SourcesBroken, HasDht, HasLsd, Private,
          DisableTrackers, Streams, Conns, Incoming, Shared, Slots, Transports, Uploads,
          Backlog, MaxQueue, Addrs, Honest, InfoLen, ChunkSize, MaxSize, Limit, HasTimeout,
          Readers, Files, Ranges, PieceLength, BufLen, Lookahead, Selected, Permits,
          MaxStarts, MaxChecks, Locations, GatewayBroken, UrlsOf, Ports, Nics, Dests

VARIABLES part, udpTorrent, udpStream, udpLoop, udpLeg, udpChan, udpStatus, udpTold, phase,
          trackers, streams, receivers, adder, permit, pending, cooled, low, finished,
          deaf, late, stage, legs, queue, ids, line, have, counted, unsent, news, field,
          allocated, connsTold, lagged, withheld, toCome, streamEnded, seen, reader, size,
          got, asked, outcome, answer, handed, streamTorrent, lives, registries,
          streamHave, disk, streamReader, waker, free, streamQueue, writer, watcher,
          completionOn, missed, streamLate, inbox, endpoints, gatewayDeaf, spawned, task,
          lease, trouble

U == INSTANCE TrackerComms WITH Http <- UdpHttp, Udp <- UdpUdp, Unsupported <- UdpUnsupported, Broken <- UdpBroken,
       HasUdpClient <- UdpHasUdpClient, Cap <- UdpCap, torrent <- udpTorrent,
       stream <- udpStream, loop <- udpLoop, leg <- udpLeg, chan <- udpChan,
       status <- udpStatus, told <- udpTold
S == INSTANCE PeerSources WITH Trackers <- SourcesTrackers, Broken <- SourcesBroken
P == INSTANCE PeerConnection WITH Pieces <- Shared, told <- connsTold
M == INSTANCE MagnetResolver
F == INSTANCE Streaming WITH torrent <- streamTorrent, have <- streamHave, reader <- streamReader,
       queue <- streamQueue, late <- streamLate
G == INSTANCE PortForwarder WITH Broken <- GatewayBroken, deaf <- gatewayDeaf

udpVars == <<udpTorrent, udpStream, udpLoop, udpLeg, udpChan, udpStatus, udpTold>>
sourcesVars == <<phase, trackers, streams, receivers, adder, permit, pending, cooled, low,
                 finished, deaf, late>>
connsVars == <<stage, legs, queue, ids, line, have, counted, unsent, news, field,
               allocated, connsTold, lagged, withheld>>
magnetVars == <<toCome, streamEnded, seen, reader, size, got, asked, outcome, answer, handed>>
streamVars == <<streamTorrent, lives, registries, streamHave, disk, streamReader, waker,
                free, streamQueue, writer, watcher, completionOn, missed, streamLate>>
gatewayVars == <<inbox, endpoints, gatewayDeaf, spawned, task, lease, trouble>>
allVars == <<part, vars, udpVars, sourcesVars, connsVars, magnetVars, streamVars, gatewayVars>>

TwoFiles == <<[off |-> 0, len |-> 3], [off |-> 3, len |-> 1]>>
TwoRanges == {<<1, 3>>, <<2, 4>>}

\* A gateway and a device that is none, and the interfaces of a host.
OneUrl == [l \in {"g", "x"} |-> IF l = "g" THEN {"u"} ELSE {}]
Ip(v, b, m, local) == [ip |-> [v4 |-> v, bits |-> b], mask |-> m, linkLocal |-> local]
Ips == {Ip(TRUE, 1, 1, FALSE), Ip(TRUE, 3, 2, FALSE), Ip(TRUE, 2, 0, FALSE),
        Ip(FALSE, 1, 1, FALSE), Ip(FALSE, 2, -1, FALSE), Ip(FALSE, 3, 1, TRUE)}
SomeNics == {<<[index |-> 1, addrs |-> <<i>>], [index |-> 2, addrs |-> <<j, k>>]>> : i \in Ips, j \in Ips, k \in Ips}
SomeDests == {[v4 |-> v, bits |-> n, scope |-> 0] : v \in BOOLEAN, n \in 0..3}
    \cup {[v4 |-> FALSE, bits |-> n, scope |-> s] : n \in 0..3, s \in 1..2}


MCInit ==
    /\ part \in {"http", "udp", "sources", "conns", "magnet", "stream", "gateway"}
    /\ Init
    /\ U!Init
    /\ S!Init
    /\ P!Init
    /\ M!Init
    /\ part # "magnet" => toCome = {}
    /\ F!Init
    /\ G!Init
MCNext ==
    /\ UNCHANGED part
    /\ \/ part = "http" /\ Next /\ UNCHANGED <<udpVars, sourcesVars, connsVars, magnetVars, streamVars, gatewayVars>>
       \/ part = "udp" /\ U!Next /\ UNCHANGED <<vars, sourcesVars, connsVars, magnetVars, streamVars, gatewayVars>>
       \/ part = "sources" /\ S!Next /\ UNCHANGED <<vars, udpVars, connsVars, magnetVars, streamVars, gatewayVars>>
       \/ part = "conns" /\ P!Next /\ UNCHANGED <<vars, udpVars, sourcesVars, magnetVars, streamVars, gatewayVars>>
       \/ part = "magnet" /\ M!Next /\ UNCHANGED <<vars, udpVars, sourcesVars, connsVars, streamVars, gatewayVars>>
       \/ part = "stream" /\ F!Next /\ UNCHANGED <<vars, udpVars, sourcesVars, connsVars, magnetVars, gatewayVars>>
       \/ part = "gateway" /\ G!Next /\ UNCHANGED <<vars, udpVars, sourcesVars, connsVars, magnetVars, streamVars>>
Fairness ==
    /\ WF_vars(part = "http" /\ Progress)
    /\ WF_vars(part = "http" /\ Yield)
    /\ SF_vars(part = "http" /\ HttpAnswers)
    /\ WF_udpVars(part = "udp" /\ U!Progress)
    /\ WF_udpVars(part = "udp" /\ U!Yield)
    /\ SF_udpVars(part = "udp" /\ U!UdpAnswers)
    /\ WF_sourcesVars(part = "sources" /\ S!CheckEnds)
    /\ WF_sourcesVars(part = "sources" /\ S!AnyDropped)
    /\ WF_sourcesVars(part = "sources" /\ S!StartAdded)
    /\ WF_sourcesVars(part = "sources" /\ S!Cools)
    /\ WF_sourcesVars(part = "sources" /\ S!HealthMonitor)
    /\ WF_sourcesVars(part = "sources" /\ S!Rediscover)
    /\ \A c \in Conns : WF_connsVars(part = "conns" /\ P!Progress(c))
    /\ \A c \in Conns : WF_connsVars(part = "conns" /\ P!TakeNews(c))
    /\ \A c \in Conns : WF_connsVars(part = "conns" /\ P!TakeRequest(c))
    /\ WF_magnetVars(part = "magnet" /\ M!Streaming)
    /\ WF_magnetVars(part = "magnet" /\ M!Connecting)
    /\ WF_magnetVars(part = "magnet" /\ M!Strangers)
    /\ WF_magnetVars(part = "magnet" /\ M!HonestServe)
    /\ WF_magnetVars(part = "magnet" /\ M!Returns)
    /\ WF_streamVars(part = "stream" /\ F!WriterStep)
    /\ WF_streamVars(part = "stream" /\ F!WatcherStep)
    /\ WF_streamVars(part = "stream" /\ F!AnyStream)
    /\ WF_gatewayVars(part = "gateway" /\ G!Recv)
    /\ WF_gatewayVars(part = "gateway" /\ G!Tick)
    /\ WF_gatewayVars(part = "gateway" /\ G!AnyAsk)
    /\ WF_gatewayVars(part = "gateway" /\ G!AnyReturn)
    /\ SF_gatewayVars(part = "gateway" /\ G!GatewayAnswers)
    /\ SF_gatewayVars(part = "gateway" /\ G!GatewayDescribes)
    /\ SF_gatewayVars(part = "gateway" /\ G!GatewayApplies)
MCSpec == MCInit /\ [][MCNext]_allVars /\ Fairness

\* A torrent that is short of peers and whose stream has run dry gets a new
\* stream, in spite of signals that are lost while nobody waits for them.
ShortageIsHeeded == part = "sources" => S!ShortageIsHeeded

\* A request given to a connection is written, or the connection ends, as long
\* as no other connection keeps its upload slot for ever: the slot is the only
\* thing a writer waits for without a timeout (peer_connection.rs:366).
QueuedIsWritten == part = "conns" => P!QueuedIsWritten

\* A piece that was received is written, unless streams hold every permit: a stream keeps
\* its permit until it is closed, however long it waits (streaming.rs:337).
WriteProceeds == part = "stream" => F!WriteProceeds

\* The sources a torrent has follow its state over pauses, checks and added
\* trackers (peer_sources.rs), a resolved magnet link is the one that was
\* asked for, whatever metadata strangers send (peer_info_reader), and a port that
\* is mapped on the gateway stays mapped, to an address it can reach
\* (librtbit-upnp).
SourcesAreGenuine ==
    S!SourcesFollowTorrent /\ M!FoundIsGenuine /\ (part = "gateway" => G!MappingsHold)

\* What is asked of the outside again and again is had in the end: the metadata of a
\* magnet link from an honest peer among others (peer_info_reader), and the
\* mapping of every port from a gateway that answers now and then
\* (librtbit-upnp).
OutsideIsReached ==
    /\ part = "magnet" => M!MagnetResolves
    /\ part = "gateway" => G!GatewayIsMapped

\* A tracker that is reached is told, some day, that the torrent is complete,
\* over HTTP and over UDP alike, whatever answers are lost in between.
CompletionIsAnnounced ==
    /\ part = "http" => CompletedIsAnnounced
    /\ part = "udp" => U!CompletedIsAnnounced
=============================================================================
