---------------------------- MODULE MCServices ----------------------------
(***************************************************************************)
(* What the session does around its torrents, for TLC: speed limits, the   *)
(* qBittorrent API, files and pieces on disk, codecs, streams, feeds, watched*)
(* folders and the media server.  The parts share no state their properties*)
(* are about, so a behaviour moves one of them (`part').                   *)
(***************************************************************************)
EXTENDS SpeedLimits, Integers, Sequences, FiniteSets, SequencesExt

CONSTANTS Hashes, Tags, Trackers, BadUrls, Files, Tasks, Clients, Ops, QbitMaxCalls, Cap,
          FilesFiles, Pads, Roots, Completed, DiskNames, NameOf, AllowOverwrite, MaxFaults,
          MaxJobs, MaxStrangers, Layouts, PieceSize, ReadOnly, MaxWrites, MaxLosses,
          Values, Kinds, InfoField, CtxCap, CtxMax, Base, Octets4, Octets6, IdLen, Tids,
          Nodes, Args, DhtValues, Trees, PieceLength, ReadSize, ChunkSize, Extra,
          Selections, Readers, StreamsFiles, Ranges, StreamsPieceLength, BufLen, Lookahead,
          Selected, Permits, MaxStarts, MaxChecks, FeedNames, Entries, HasUrl, Configs,
          RuleIds, RuleBodies, Limit, Torrents, Magnets, FeedsMaxCalls, NoFeeds,
          WatchEntries, WatchHasUrl, WatchConfigs, WatchRuleIds, WatchRuleBodies,
          WatchLimit, WatchTorrents, WatchMagnets, WatchMaxCalls, Library, IdBits, Sids,
          Directory, Timeouts, Channel, MaxUpdates, MaxRenewals

VARIABLES part, torrents, all, per, share, tasks, jobs, req, qbitCalls, stray, emptied,
          forgotten, asked, qbitCrossed, st, disk, dirs, handle, root, filesOverride,
          names, job, mover, faults, filesJobs, strangers, torn, moved, taken, lost, files,
          size, right, have, checked, writes, losses, kind, val, input, buf, stack, ctx,
          unfit, raw, out, verdict, sent, wire, dialect, got, tree, pc, file, pos,
          remaining, checksum, hashes, length, outFiles, info, infoVerdict, link,
          streamsTorrent, lives, registries, streamsHave, streamsDisk, reader, waker, free,
          queue, writer, watcher, completionOn, missed, late, feeds, items, rules,
          published, mon, manual, feedsFiles, thread, scanned, seenAtStart, events,
          channel, adder, auto, again, orphans, added, gap, offered, cut, held, dbErrors,
          feedsCalls, watchFeeds, watchItems, watchRules, watchPublished, watchMon,
          watchManual, watchFiles, watchThread, watchScanned, watchSeenAtStart,
          watchEvents, watchChannel, watchAdder, watchAuto, watchAgain, watchOrphans,
          watchAdded, watchGap, watchOffered, watchCut, watchHeld, watchDbErrors,
          watchCalls, subs, task, bus, peer, updateId, mediaSent, renewals, ssdp, known

QB == INSTANCE QbitApi WITH Requests <- Clients, MaxCalls <- QbitMaxCalls, calls <- qbitCalls,
       crossed <- qbitCrossed
ST == INSTANCE Storage WITH Files <- FilesFiles, Padding <- Pads, Names <- DiskNames, override <- filesOverride,
       jobs <- filesJobs
FO == INSTANCE FileOps WITH PieceLen <- PieceSize
BE == INSTANCE Bencode WITH Info <- InfoField
DM == INSTANCE DhtMessages WITH Values <- DhtValues
MI == INSTANCE Metainfo WITH verdict <- infoVerdict
SR == INSTANCE Streaming WITH Files <- StreamsFiles, PieceLength <- StreamsPieceLength, torrent <- streamsTorrent,
       have <- streamsHave, disk <- streamsDisk
FE == INSTANCE Feeds WITH Names <- FeedNames, MaxCalls <- FeedsMaxCalls, files <- feedsFiles,
       calls <- feedsCalls
WA == INSTANCE Feeds WITH Names <- NoFeeds, Entries <- WatchEntries, HasUrl <- WatchHasUrl,
       Configs <- WatchConfigs, RuleIds <- WatchRuleIds, RuleBodies <- WatchRuleBodies,
       Limit <- WatchLimit, Torrents <- WatchTorrents, Magnets <- WatchMagnets,
       MaxCalls <- WatchMaxCalls, feeds <- watchFeeds, items <- watchItems,
       rules <- watchRules, published <- watchPublished, mon <- watchMon,
       manual <- watchManual, files <- watchFiles, thread <- watchThread,
       scanned <- watchScanned, seenAtStart <- watchSeenAtStart, events <- watchEvents,
       channel <- watchChannel, adder <- watchAdder, auto <- watchAuto,
       again <- watchAgain, orphans <- watchOrphans, added <- watchAdded, gap <- watchGap,
       offered <- watchOffered, cut <- watchCut, held <- watchHeld,
       dbErrors <- watchDbErrors, calls <- watchCalls
ME == INSTANCE MediaServer WITH sent <- mediaSent

qbitVars == <<torrents, all, per, share, tasks, jobs, req, qbitCalls, stray, emptied,
              forgotten, asked, qbitCrossed>>
filesVars == <<st, disk, dirs, handle, root, filesOverride, names, job, mover, faults,
               filesJobs, strangers, torn, moved, taken, lost>>
piecesVars == <<files, size, right, have, checked, writes, losses>>
bencodeVars == <<kind, val, input, buf, stack, ctx, unfit, raw, out, verdict>>
dhtVars == <<sent, wire, dialect, got>>
infoVars == <<tree, pc, file, pos, remaining, checksum, hashes, length, outFiles, info,
              infoVerdict, link>>
streamsVars == <<streamsTorrent, lives, registries, streamsHave, streamsDisk, reader,
                 waker, free, queue, writer, watcher, completionOn, missed, late>>
feedsVars == <<feeds, items, rules, published, mon, manual, feedsFiles, thread, scanned,
               seenAtStart, events, channel, adder, auto, again, orphans, added, gap,
               offered, cut, held, dbErrors, feedsCalls>>
watchVars == <<watchFeeds, watchItems, watchRules, watchPublished, watchMon, watchManual,
               watchFiles, watchThread, watchScanned, watchSeenAtStart, watchEvents,
               watchChannel, watchAdder, watchAuto, watchAgain, watchOrphans, watchAdded,
               watchGap, watchOffered, watchCut, watchHeld, watchDbErrors, watchCalls>>
mediaVars == <<subs, task, bus, peer, updateId, mediaSent, renewals, ssdp, known>>
allVars == <<part, vars, qbitVars, filesVars, piecesVars, bencodeVars, dhtVars, infoVars, streamsVars, feedsVars, watchVars, mediaVars>>

Overnight == {<<1, 0>>}
Endpoints == {"addTags", "setTags", "removeTags", "createTags", "deleteTags", "delete", "add",
              "shareLimits", "editTracker", "addTrackers", "removeTrackers", "filePrio", "pause",
              "start", "recheck", "rename", "setLocation", "addTask", "deleteTask"}
FileNames == {<<"b", "c">>, <<"b", "d">>, <<"e", "c">>, <<"e", "d">>, <<"e">>}
FirstNames == [f \in {1, 2} |-> IF f = 1 THEN <<"b", "c">> ELSE <<"b", "d">>]

\* Layouts of three files, one of them possibly padding, over two pieces or more.
SizedFile == {[len |-> n, padding |-> FALSE] : n \in 0..2} \union {[len |-> 1, padding |-> TRUE]}
SmallLayouts == {l \in [1..3 -> SizedFile] : ~ l[1].padding /\ l[1].len + l[2].len + l[3].len > 2}

\* Bencoded values, nested up to three deep.
V(t, n, b, k, l) == [t |-> t, n |-> n, b |-> b, k |-> k, l |-> l]
N(n) == V("int", n, <<>>, <<>>, <<>>)
Leaves == {N(n) : n \in {-1, 0, 12}} \union {V("bytes", 0, b, <<>>, <<>>) : b \in {<<>>, <<101>>, <<49, 58>>}}
ListsOf(S) == {V("list", 0, <<>>, <<>>, l) : l \in {<<>>} \union {<<v>> : v \in S}}
DictsOf(S) == {V("dict", 0, <<>>, k, <<v>>) : v \in S, k \in {<<<<101>>>>, <<<<50>>>>}}
    \union {V("dict", 0, <<>>, k, <<v, w>>) : v \in S, w \in Leaves, k \in {<<<<101>>, <<>>>>, <<<<>>, <<101>>>>}}
Two == DictsOf({V("dict", 0, <<>>, <<<<100>>, <<50>>>>, <<N(n), N(1)>>) : n \in {-1, 1}})
RawInfo == V("raw", 0, <<100, 49, 58, 101, 105, 49, 101, 49, 58, 50, 105, 50, 101, 101>>, <<>>,
             <<V("dict", 0, <<>>, <<<<101>>, <<50>>>>, <<N(1), N(2)>>)>>)
SmallValues == Leaves \union ListsOf(Leaves) \union DictsOf(Leaves) \union DictsOf(ListsOf({N(1)}))
    \union Two \union DictsOf({RawInfo}) \union {v \in DictsOf(Two) : Len(v.k) = 1}
AllKinds == {"any", "i64", "u64", "bool", "bytes", "f64"}
InfoKey == <<101>>

\* Nodes and peers of the DHT, with addresses of one and of two octets.
Addr(v, i, p) == [v4 |-> v, ip |-> i, port |-> p]
Node(i, a) == [id |-> i, addr |-> a]
Four == {Addr(TRUE, <<1>>, 2), Addr(TRUE, <<0>>, 1)}
Six == {Addr(FALSE, <<1, 0>>, 3), Addr(FALSE, <<0, 1>>, 0)}
NodesOf(S) == {<<>>} \union {<<Node(<<i>>, a)>> : i \in 0..1, a \in S}
    \union {<<Node(<<1>>, a), Node(<<0>>, b)>> : a \in S, b \in S}
NodeLists == NodesOf(Four) \union NodesOf(Six)
PeerLists == {<<>>} \union {<<a>> : a \in Four \union Six} \union {<<a, b>> : a \in Four, b \in Six}
SmallTids == {<<1>>, <<0, 1>>, <<1, 0>>, <<1, 1, 1>>}

\* Directories to make a torrent of, and metainfo that others made.
Paths == <<<<"a">>, <<"b", "c">>, <<"b", "d">>>>
SmallTrees == {[i \in DOMAIN l |-> [path |-> Paths[i], len |-> l[i]]] : l \in UNION {[1..k -> 0..4] : k \in 1..3}}
    \union {<<[path |-> <<>>, len |-> n]>> : n \in 0..4}
Entry(p, n) == [path |-> p, len |-> n]
OddPaths == {<<"a">>, <<"a", ".">>, <<".", "a">>, <<"b", "..">>, <<"a/b">>, <<>>, <<"">>, <<"b">>, <<"", "b">>}
Strange == {[files |-> f, single |-> s, hashes |-> h] :
              f \in {{}, {<<>>}} \union {{<<Entry(p, m), Entry(q, 1)>>} : p \in OddPaths, q \in OddPaths, m \in 0..2},
              s \in {{}, {0}, {3}}, h \in {<<>>, << <<>> >>}}
SmallSelections == {<<>>, <<<<1>>>>, <<<<0, 2>>, <<5>>>>, <<<<2, 1>>, <<>>>>, <<<<>>, <<3, 3>>, <<3>>>>}

TwoFiles == <<[off |-> 0, len |-> 3], [off |-> 3, len |-> 1]>>
TwoRanges == {<<1, 3>>, <<2, 4>>}

\* Torrents to browse: of no files yet, of one, and of several in shared folders.
FilePaths == {<<"a">>, <<"a", "a">>, <<"a", "b">>, <<"b", "a", "a">>}
FileLists == {<<>>} \union {<<p>> : p \in FilePaths} \union {<<p, q>> : p \in FilePaths, q \in FilePaths}
    \union {<<p, q, r>> : p \in FilePaths, q \in FilePaths, r \in FilePaths}
Libraries == {[t \in {0, 2} |-> IF t = 0 THEN x ELSE y] : x \in {l \in FileLists : IsInjective(l)},
                                                          y \in {<<<<"a">>>>, <<<<"a", "b">>>>, <<>>}}
    \union {[t \in {1, 3} |-> <<<<"a">>, <<"b">>>>]}

Config(e, f) == [enabled |-> e, auto |-> TRUE, filter |-> f, broken |-> FALSE]
FeedConfigs == {Config(TRUE, {{"e1"}}), Config(FALSE, {})}
Bodies == {[feeds |-> {"n1", "n2"}, match |-> {"e1", "e2"}, enabled |-> TRUE]}

\* The variables of a part that does not move.
qbitOff == torrents = 0 /\ all = 0 /\ per = 0 /\ share = 0 /\ tasks = 0 /\ jobs = 0 /\ req = 0 /\
           qbitCalls = 0 /\ stray = 0 /\ emptied = 0 /\ forgotten = 0 /\ asked = 0 /\ qbitCrossed = 0
filesOff == st = 0 /\ disk = 0 /\ dirs = 0 /\ handle = 0 /\ root = 0 /\ filesOverride = 0 /\ names = 0 /\
            job = 0 /\ mover = 0 /\ faults = 0 /\ filesJobs = 0 /\ strangers = 0 /\ torn = 0 /\
            moved = 0 /\ taken = 0 /\ lost = 0
piecesOff == files = 0 /\ size = 0 /\ right = 0 /\ have = 0 /\ checked = 0 /\ writes = 0 /\ losses = 0
bencodeOff == kind = 0 /\ val = 0 /\ input = 0 /\ buf = 0 /\ stack = 0 /\ ctx = 0 /\ unfit = 0 /\
              raw = 0 /\ out = 0 /\ verdict = 0
dhtOff == sent = 0 /\ wire = 0 /\ dialect = 0 /\ got = 0
infoOff == tree = 0 /\ pc = 0 /\ file = 0 /\ pos = 0 /\ remaining = 0 /\ checksum = 0 /\ hashes = 0 /\
           length = 0 /\ outFiles = 0 /\ info = 0 /\ infoVerdict = 0 /\ link = 0
streamsOff == streamsTorrent = 0 /\ lives = 0 /\ registries = 0 /\ streamsHave = 0 /\
              streamsDisk = 0 /\ reader = 0 /\ waker = 0 /\ free = 0 /\ queue = 0 /\ writer = 0 /\
              watcher = 0 /\ completionOn = 0 /\ missed = 0 /\ late = 0
feedsOff == feeds = 0 /\ items = 0 /\ rules = 0 /\ published = 0 /\ mon = 0 /\ manual = 0 /\
            feedsFiles = 0 /\ thread = 0 /\ scanned = 0 /\ seenAtStart = 0 /\ events = 0 /\
            channel = 0 /\ adder = 0 /\ auto = 0 /\ again = 0 /\ orphans = 0 /\ added = 0 /\ gap = 0 /\
            offered = 0 /\ cut = 0 /\ held = 0 /\ dbErrors = 0 /\ feedsCalls = 0
watchOff == watchFeeds = 0 /\ watchItems = 0 /\ watchRules = 0 /\ watchPublished = 0 /\
            watchMon = 0 /\ watchManual = 0 /\ watchFiles = 0 /\ watchThread = 0 /\
            watchScanned = 0 /\ watchSeenAtStart = 0 /\ watchEvents = 0 /\ watchChannel = 0 /\
            watchAdder = 0 /\ watchAuto = 0 /\ watchAgain = 0 /\ watchOrphans = 0 /\
            watchAdded = 0 /\ watchGap = 0 /\ watchOffered = 0 /\ watchCut = 0 /\ watchHeld = 0 /\
            watchDbErrors = 0 /\ watchCalls = 0
mediaOff == subs = 0 /\ task = 0 /\ bus = 0 /\ peer = 0 /\ updateId = 0 /\ mediaSent = 0 /\
            renewals = 0 /\ ssdp = 0 /\ known = 0

MCInit ==
    /\ part \in {"limits", "qbit", "files", "pieces", "bencode", "dht", "info", "streams", "feeds", "watch", "media"}
    /\ Init
    /\ part # "limits" => lim = [down |-> 0, up |-> 0]
    /\ IF part = "qbit" THEN QB!Init ELSE qbitOff
    /\ IF part = "files" THEN ST!Init ELSE filesOff
    /\ IF part = "pieces" THEN FO!Init ELSE piecesOff
    /\ IF part = "bencode" THEN BE!Init ELSE bencodeOff
    /\ IF part = "dht" THEN DM!Init ELSE dhtOff
    /\ IF part = "info" THEN MI!Init ELSE infoOff
    /\ IF part = "streams" THEN SR!Init ELSE streamsOff
    /\ IF part = "feeds" THEN FE!Init ELSE feedsOff
    /\ IF part = "watch" THEN WA!Init ELSE watchOff
    /\ IF part = "media" THEN ME!Init ELSE mediaOff
MCNext ==
    /\ UNCHANGED part
    /\ \/ part = "limits" /\ Next /\ UNCHANGED <<qbitVars, filesVars, piecesVars, bencodeVars, dhtVars, infoVars, streamsVars, feedsVars, watchVars, mediaVars>>
       \/ part = "qbit" /\ QB!Next /\ UNCHANGED <<vars, filesVars, piecesVars, bencodeVars, dhtVars, infoVars, streamsVars, feedsVars, watchVars, mediaVars>>
       \/ part = "files" /\ ST!Next /\ UNCHANGED <<vars, qbitVars, piecesVars, bencodeVars, dhtVars, infoVars, streamsVars, feedsVars, watchVars, mediaVars>>
       \/ part = "pieces" /\ FO!Next /\ UNCHANGED <<vars, qbitVars, filesVars, bencodeVars, dhtVars, infoVars, streamsVars, feedsVars, watchVars, mediaVars>>
       \/ part = "bencode" /\ BE!Next /\ UNCHANGED <<vars, qbitVars, filesVars, piecesVars, dhtVars, infoVars, streamsVars, feedsVars, watchVars, mediaVars>>
       \/ part = "dht" /\ DM!Next /\ UNCHANGED <<vars, qbitVars, filesVars, piecesVars, bencodeVars, infoVars, streamsVars, feedsVars, watchVars, mediaVars>>
       \/ part = "info" /\ MI!Next /\ UNCHANGED <<vars, qbitVars, filesVars, piecesVars, bencodeVars, dhtVars, streamsVars, feedsVars, watchVars, mediaVars>>
       \/ part = "streams" /\ SR!Next /\ UNCHANGED <<vars, qbitVars, filesVars, piecesVars, bencodeVars, dhtVars, infoVars, feedsVars, watchVars, mediaVars>>
       \/ part = "feeds" /\ FE!Next /\ UNCHANGED <<vars, qbitVars, filesVars, piecesVars, bencodeVars, dhtVars, infoVars, streamsVars, watchVars, mediaVars>>
       \/ part = "watch" /\ WA!Next /\ UNCHANGED <<vars, qbitVars, filesVars, piecesVars, bencodeVars, dhtVars, infoVars, streamsVars, feedsVars, mediaVars>>
       \/ part = "media" /\ ME!Next /\ UNCHANGED <<vars, qbitVars, filesVars, piecesVars, bencodeVars, dhtVars, infoVars, streamsVars, feedsVars, watchVars>>
MCSpec == MCInit /\ [][MCNext]_allVars

\* A stream that waits for a piece is woken when it comes: no stream of the current
\* registry waits for a piece that is there, unless the task that got the piece has
\* yet to wake it, a pause came between the two, or a check found the piece on disk.
\* So is the watcher of the same live state, unless the torrent finished between its
\* look at is_finished and its call of notified. A read stays inside the piece that was looked at; the piece a stream waits for is among the first
\* that iter_next_pieces proposes, one per stream, in whatever order they are taken;
\* and a permit is never lost or given twice.
StreamsAreServed == part = "streams" => SR!StreamsAreServed

\* What a client of the qBittorrent API is told is what the session then
\* holds, and two views of one torrent do not contradict each other; a client of the
\* media server finds every file, and its subscription lasts and reports as
\* promised (librtbit-upnp-serve).
ApiIsHonest ==
    /\ part = "qbit" => QB!RequestsAreHonest /\ QB!ViewsAgree
    /\ part = "media" => ME!MediaIsServed

\* Files stay where the session says they are over renames, relocations and
\* failures between their steps, nothing that a rename saw is overwritten, and a piece is read, written and checked in
\* the bytes of its own files.
FilesAreSound ==
    /\ part = "files" => ST!StorageIsSound
    /\ part = "pieces" => FO!PiecesAreWhereTheyBelong

\* What is written is read back: bencode, the messages of the DHT, and the
\* torrents made from a directory or taken from others.
CodecsAreSound ==
    /\ part = "bencode" => BE!BencodeRoundTrips
    /\ part = "dht" => DM!MessagesAreRead
    /\ part = "info" => MI!MetainfoIsSound

\* Feeds and watched folders add what they were told to, once: the monitor of the feeds
\* works from copies of the configuration while the user changes it, and the watcher
\* meets files that are being written.
AdditionsAreHonest ==
    /\ part = "feeds" => FE!FeedsAreHonest
    /\ part = "watch" => WA!WholeFilesAreOffered
=============================================================================
