# rustTorrent in TLA+

A verification development for rustTorrent: the download core, the peers and
their connections, the sources of peers, the DHT, what is stored, and the
services around the torrents. TLC checks small instances of the modules; TLAPS
proves the central safety properties for every torrent, every number of peers
and every size of the constants. All paths below are relative to
`src/crates/librtbit/src/` unless they name another crate; `live/` is
`torrent_state/live/`.

## 1. The system

A **session** owns torrents and stores them. A **torrent** is a state machine
(initializing, paused, live, error). A **live** torrent has a map of **peers**,
a **piece tracker** around a **chunk tracker**, files on disk, streams, and one
tokio task per connection. Peers come from trackers, the DHT, PEX, local
discovery and incoming connections. Around the session are the HTTP interfaces,
limits, feeds and watched folders.

| part | state | operations | what is hard |
|---|---|---|---|
| chunk tracker (`chunk_tracker.rs`) | queue, `have`, chunk status, selection, byte counters | mark chunk, mark piece downloaded or broken, change the selection | cached counters kept by differences |
| piece tracker (`piece_tracker.rs`) | in-flight map with owners | acquire (stream, queue, steal), release, complete, fail, `into_chunks` | a piece must be in one state only |
| download (`live/peer_handler.rs`, `live/mod.rs`) | requests, position in `write_to_disk` | requester loop, `on_received_piece`, `on_piece_completed`, `on_steal` | locks are dropped between check, write, mark and hash |
| peers (`live/peers/mod.rs`, `live/peer/mod.rs`, `live/tasks.rs`) | map of entries, queue, counters | add, connect, handshake, death, backoff, parking, requeue, prune | old tasks end after the entry has moved on |
| messages (`live/peer_handler.rs`, `librtbit-peer-protocol`) | bitfields, choke, permits, PEX views | dispatch, notifications, PEX rounds, holepunch | a notification between a check and a wait |
| locks (`live/STATE.md`) | who holds what | every handler | one order over five kinds of locks |
| torrent (`torrent_state/mod.rs`, `session/mod.rs`) | state, paused flag, token, files | start, pause, recheck, delete, check outcome, fatal error | spawned checks and errors meet a later state |
| initial check (`torrent_state/initializing.rs`, `bitv.rs`) | bitfield, its file, flushers | `validate_fastresume`, full check, flush | trusting what was stored; late flushers |
| persistence (`session_persistence/json.rs`, `category.rs`) | table, `session.json`, `.torrent`, categories, folders | store, update, delete, flush, restore | crashes between writes, overlapping calls |
| files (`file_ops.rs`, `storage/filesystem/`) | handles, paths, lengths | walk, read, write, rename, move | padding, empty and missing files; rollback |
| streams (`torrent_state/streaming.rs`) | positions, wakers, a blocking permit each | open, read, seek, close | lost wakeups, permits |
| connection (`peer_connection.rs`, `read_buf.rs`) | handshake, writer queue, upload slot, ring of bytes | dial, reader, writer | the writer waits for a slot; bytes are cut anywhere |
| accept loop (`session/network.rs`, `ip_ranges.rs`) | pending handshakes, lists | accept, check | futures polled only with the loop |
| magnet links (`dht_utils.rs`, `peer_info_reader/`) | readers, pieces of the info dictionary | connect, receive, verify | wrong, partial or missing answers |
| peer sources (`session/peer_sources.rs`, `librtbit-lsd`) | merged streams | rediscover, announce | streams that never end, or end too early |
| trackers (`librtbit-tracker-comms`) | loops, events, UDP connections and transactions | announce, retry | late answers, events lost in a retry |
| DHT (`librtbit-dht`) | buckets, transactions, peer store | lookup, answer, timeout, refresh, dump | late answers, two size counters |
| limits (`limits.rs`, `alt_speed.rs`) | normal and alternative limits, schedule | toggle, change | saved and current limits crossing |
| qBittorrent interface (`http_api/handlers/qbit_compat.rs`) | tags, share limits, creation tasks | its requests | each torrent is looked up again |
| feeds and folders (`rss/`, `watch.rs`) | items seen, rules, events | check, prune, watch | changes of a feed while it is checked |
| codecs (`librtbit-bencode`, `bprotocol.rs`, `torrent_metainfo.rs`) | none | encode, decode, validate | boundaries |

`PROJECT.json` lists every part, with what is left out and why, and every
hazard at its line.

## 2. The modules

| module | models |
|---|---|
| `ChunkTracker` | `chunk_tracker.rs` and what it uses of `lengths.rs`; `piece_tracker.rs` |
| `LivePieces` (extends that) | the download: peer tasks, disk, user, storage errors |
| `PieceLifecycle` | the life of a piece that `piece_tracker.rs` and STATE.md promise |
| `PeerLifecycle` | entries, tasks, queue and timers of peers |
| `PeerExchange` | dispatch of messages, notifications of the requester, PEX, holepunch |
| `PeerConnection`, `Wire`, `Listener` | dialling, handshakes and the writer; the read buffer and the framing; the accept loop |
| `LockOrder` | the locks each handler takes, in order |
| `ManagedTorrent` | the torrent's state machine with its spawned tasks |
| `SessionStore`, `Resume`, `SessionSettings` | the session's table on file; the stored bitfield; categories and folders |
| `FileOps`, `Storage` | walks over files; where the files lie |
| `Streaming` | streams, wakers, permits, waiting for completion |
| `MagnetResolver`, `PeerSources` | the info dictionary of a magnet link; where addresses come from |
| `TrackerComms`, `UdpTrackerClient` | announce loops; the shared UDP client |
| `DhtRequests`, `DhtLookup`, `RoutingTable`, `DhtUpkeep`, `PeerStore`, `DhtMessages` | the DHT |
| `SpeedLimits`, `QbitApi`, `Feeds` | limits and schedule; the qBittorrent interface; RSS and watched folders |
| `Bencode`, `Metainfo` | the codec; torrent files, their creation, magnet links |
| `PortForwarder`, `MediaServer` | port mappings in a gateway; the tree of files, subscriptions and advertisements of the media server |
| `LivePiecesSteps`, `LivePiecesProofs`, `PeerLifecycleProofs`, `LockOrderProofs`, `ManagedTorrentProofs`, `PersistenceProofs`, `DhtProofs`, `SpeedLimitsProofs` | the theorems; `LivePiecesSteps` begins with the history of interrupted hash checks that run `disturbed` and its theorem are about |
| `MCPersistence`, `MCDht`, `MCNetwork`, `MCWire`, `MCServices` | instances that hold several parts |

**ChunkTracker.** A torrent is a set of bytes; `PieceOf`,
`ChunkOf` and `FileOf` say where each byte lies, so lengths are cardinalities
and any layout of files over pieces can be had. A tracker operation is an action
named after its method. `Padding` marks padding files.

**LivePieces.** `writer[peer]` is the position inside `write_to_disk`, with one
action for each stretch of code between two points where a lock is released or
another task can act. `good` is the file: the chunks with the right bytes on disk. `victim`
remembers an `on_steal` call that is still due. `Corrupt` peers may send bytes
that fail the hash. `Next` puts the download next to the user (selection,
streams, pause) and failing storage; `DownloadSpec` is the download alone.

**PieceLifecycle.** The abstract specification: a piece is NOT_NEEDED, QUEUED,
IN_FLIGHT with one owner, HASHING or HAVE, and moves between them by seven kinds
of step. `LivePieces` maps its bit fields, in-flight map and tasks to it
(`Status`), and `KeepsLifecycle` says that the download implements it.

**PeerLifecycle.** Entries (`Queued`, `Connecting`, `Live`, `NotNeeded`, `Dead`),
connection tasks as separate processes that may outlive their entry, the bounded
queue, retry timers, the health monitor, pruning, and the aggregate counters.

**LockOrder.** A thread is a stack of locks and what is left of its handler.
Write locks and read locks of parking_lot (a waiting writer stops new readers)
and the shards of dashmap are external and modelled from their use.

**ManagedTorrent.** Clients call through a handle they got earlier; a call is
split where the code releases the lock. A check is a task that waits for a
permit, may be cancelled, and applies its outcome to whatever state it finds.
`crossed` is a history variable: a call or outcome has met a state it was not
meant for.

**SessionStore, Resume, SessionSettings.** API calls interleave at each await;
a crash ends the process between any two steps and the files stay. A write that
was renamed into place may still be on its way (`lagging`), and a crash then
leaves a torn file. A flusher of a bitfield may outlive the torrent it
belongs to. Settings follow categories and folders into the path a torrent is
given and moved to; a path is a sequence of components.

**FileOps, Storage.** A byte on disk is right or wrong, and a hash matches when
exactly the right bytes were fed to it; the walks of reading, writing and
checking are the code's loops. `Storage` follows paths and handles over renames
that may fail halfway, other programs' files, and the mover of completed
torrents, which takes no lock. A rename looks at its destination in one step and
moves the file in a later one; another program may act between the two.

**Streaming.** A stream is a position, a waker and a permit; the torrent is
paused, resumed, checked again and fails underneath it. The write path competes
for the same permits.

**PeerExchange, PeerConnection, Wire, Listener.** What a received message does
(`PeerExchange`); a connection from dialling to its end, with the queue of its
writer and the upload slot it waits for (`PeerConnection`); bytes by their place
in the stream, so that a number is read right exactly when its bytes are the
right ones in order (`Wire`); checks that are futures of the accept loop and
move only while it polls them (`Listener`).

**MagnetResolver, PeerSources, TrackerComms, UdpTrackerClient.** The readers of
the info dictionary and the addresses they consume; the streams that are merged,
drained and replaced; one loop per tracker with its events and its channel; the
transactions under UDP over a network that loses, delays, repeats and reorders.

**The DHT.** `DhtRequests` has the rate limiter, the wrapping transaction number
and the table of requests in flight; `DhtLookup` is the recursive request above
it, `RoutingTable` the tree of buckets, `DhtUpkeep` the pinger and refresher
seen from one node, `PeerStore` tokens and announced peers, read back from a dump of any age,
`DhtMessages` the two passes of the reader and the compact lists.

**SpeedLimits, QbitApi, Feeds.** Handlers take no lock over a whole call, so a
call is a series of steps, one for each shared thing it touches. Feeds have the
table of items seen and the rules; a regular expression is the set of entries it
matches. The monitor reads configuration and rules once and works from the copies;
`held` keeps what they said since the round began. A statement of the database may
fail, which the monitor ignores.

**Bencode, Metainfo.** Bencode's serializer is a recursive definition, its reader
the machine the recursive descent is. `Metainfo` creates, validates and lays out
torrents over small trees.

**Instances with several parts.** `MCPersistence`, `MCDht`, `MCNetwork`, `MCWire`
and `MCServices` each hold several modules that share no state their properties
are about. A constant of the behaviour, `part`, says which of them moves. The
state space is the sum of theirs, and each part is checked as it would be alone.
In the instances without liveness the variables of the other parts are 0, or keep
their initial values where the part's module is extended, so that run and theorem
name the same property.
Modules that do share state are composed for good: `LivePieces` is the chunk
tracker, the piece tracker, the peer tasks, the disk and the user in one state,
and `Streaming` holds streams, writer, watcher and torrent.

## 3. The runs

| run | instance | result |
|---|---|---|
| `download` | 2 peers (one corrupting), 2 pieces, the second shared by 2 files | pass: the inductive invariant, nothing selected is forgotten, the refinement of `PieceLifecycle` |
| `download_live` | 2 honest seeders, fairness | pass: the download completes |
| `disturbed` | 2 seeders, 2 files, 2 disturbances of any kind | pass: counters exact, only an interrupted hash check loses a piece |
| `peers_calm` | 2 addresses, 2 tasks, files are only deselected (`CalmSpec`; the whole `Next` is in `wire`), queue of 8, fairness | pass: tasks and entries agree, queued and failed peers are tried |
| `locks` | 3 threads, 2 shards | pass: no circular wait |
| `locks_reselect` | the same with `update_only_files` | violation: section 6 |
| `torrent` | 1 adder, 1 user, 3 calls, 1 failure, 1 permit, fairness | pass: the state follows the flag, a deleted torrent stops, a check ends |
| `persistence` | store: 2 hashes, 2 tasks, 4 calls, 1 crash, 1 failure; resume: 3 pieces in 2 files; settings: 2 requests; folders: 2 torrents | pass: what was answered is on file, hashes are unique, a torrent claims only what is on disk, settings hold |
| `dht` | 8 transaction numbers; identifiers of 4 bits; 3 nodes; one node and its bucket; 2 addresses, 3 hashes | pass: answers reach their request, the table and the store are sound, lookups end, silent nodes turn bad |
| `network` | 3 trackers over HTTP, 2 over UDP; 2 streams of addresses; 2 connections and 1 slot; 3 addresses and a dictionary of 2 pieces; 1 reader and 1 permit; fairness | pass: what must happen does |
| `wire` | the map of peers: 2 addresses, 3 tasks, queue of 2, 4 events; 3 peers exchanging, 2 messages of every kind; 2 pieces; a buffer of 8 bytes and 3 messages; 4 connections; 2 UDP calls | pass: counters exact, messages arrive and do what they say, only admitted addresses and own answers are taken |
| `services` | one module each: see the configuration | pass: limits follow their mode, streams are served, the interface does what it answers, files, codecs and additions are sound |

**Bounds.** Two peers are an owner and a thief, or an old and a new connection;
every property speaks of at most two actors and what is between them. Two
pieces, one of two chunks, are enough for a piece to be partly done while
another is stolen, and for a file boundary inside a piece. Two
disturbances cover a change and its undoing (deselect and select, pause and
resume). Three tasks let two stale ones meet a new one. Three
threads and two shards close the longest cycle of two documented locks and one
shard. Three calls let a user pause, unpause and recheck around one
addition. Two API calls at a time and four in all are an addition, its
deletion, and a second pair that overlaps either. One crash is enough because a
restart reads only files. Eight transaction numbers make the counter wrap
while datagrams of the last round are alive. Identifiers of four bits give three
levels of splits. A buffer of eight bytes holds less than two
messages, so each is cut and wrapped at every place. The bounds are the
constants named `Max...`, `Cap`, `Limit` and `Backlog` in the configurations;
the failures are failing checks, fatal errors, errors of creation and of I/O.
Symmetry is used only in runs without temporal properties.

**Deadlock checking** is on for the download, where a state without successor
would be a stuck torrent, and for the locks. It is off elsewhere: peers, torrents,
calls and datagrams really stop when the events run out or the torrent is
deleted.

## 4. Fairness and liveness

Liveness is checked by TLC only.

- `DownloadCompletes`: weak fairness for every step of a peer task (tokio polls
  every ready task), for acquiring a queued piece (the requester looks again at
  least every five seconds) and for the answer to a request (a peer answers, or
  its connection times out, which is a death). The property is conditional: once
  peers stop dying and stealing.
- `QueuedIsTried`, `FailedPeerIsRetried`: weak fairness for tasks, the adder and
  timers.
- `InitializingEnds`: weak fairness for checks, their outcomes and the steps of
  a call that has begun (a check reads a finite file, so it ends), and strong
  fairness for a check that waits for its permit, because tokio's semaphore
  serves its waiters in order.
- `CompletionIsAnnounced`: weak fairness for the loops and their channel, strong
  fairness for an answer of the tracker: a tracker that is asked again and again
  answers at some time.
- `ShortageIsHeeded`: weak fairness for the health monitor, its cooldown, the
  adder and the streams that were dropped.
- `QueuedIsWritten`: weak fairness for each connection's reader and writer, and
  the premise that other connections do not stay open for ever, because an
  upload slot is held for the life of a connection.
- `OutsideIsReached`: for a magnet link weak fairness for readers, timeouts and
  the stream of addresses (an honest peer that was asked serves or fails); for the
  port mappings weak fairness for the forwarder's own task and the end of a
  request, and strong fairness for the gateway, which answers, describes itself and
  applies a mapping at some time when it is asked again and again.
- `WriteProceeds`: weak fairness for the writer and the streams; the conclusion
  admits that streams hold every permit.
- `LookupEnds`, `SilentTurnsBad`: weak fairness for requests (each ends with an
  answer or its timeout) and for the timers of the worker.

## 5. What is proved

Each theorem holds for every value of the constants that the named assumptions
(end of this section) allow: any torrent, any number of peers, calls, ids,
errors and crashes.

**Download**, whatever the peers send, corrupt ones included
(`LivePiecesSteps`, `LivePiecesProofs`):

- `CountersStayInSync`: after any sequence of operations of the chunk
  tracker the cached have, needed and selected byte counts equal the recomputed
  ones. The argument is the size of a union of disjoint sets of bytes
  (`SizeAdds`).
- `DownloadInvariant`: `DownloadSpec => []DownloadInv`, and from it
  `PieceStatesAreDisjoint`, `WritersOwnTheirPiece`, `HavePiecesAreOnDisk`,
  `FullPiecesAreHashed` and `OwnersAreLive`.
- `DownloadKeepsLifecycle`: `DownloadSpec => KeepsLifecycle`, the download
  implements `PieceLifecycle`. Initial states map to initial states, and every
  step maps to a step of the abstract specification or to a stutter.
- `MissingPiecesArePursued`: a selected piece that is missing is offered by
  `iter_queued_pieces`, owned by a connected peer, or being hashed.
  `NeededPiecesArePursued`: the counters per file are exact as well.
- `OnlyHashChecksGetLost`, `CountersSurviveDisturbances`: with selections,
  streams, pauses and failing reads and writes (`DisturbedSpec`), the only pieces
  a live torrent forgets are those whose hash check was interrupted, and the
  byte counts stay in sync.

None of the five consequences of `DownloadInvariant` is inductive alone.
`HaveIsOnDisk` needs that nobody writes to a piece that is being hashed, hence
`HashingIsExclusive` and `WriterOwnsPiece`; that a full piece is hashed needs
that its last writer still owned it; `OwnerIsLive` needs that nothing is in
flight when full peers are parked, which is `FinishedIsStable`, which needs the
counters. `DownloadInv` is their conjunction. `LivePiecesSteps` proves the types,
the frame lemmas and acquisition, and `LivePiecesProofs` the write path, one
lemma per action. The refinement rests on the invariant: that a reserved piece
was QUEUED and not HASHING, that a piece hashed is hashed by one task only, and
that a dying peer owns nothing that is not in flight are all parts of it. One
lemma per action that moves pieces names the abstract step; the others leave
`Status` and the owners as they are.

`MissingPiecesArePursued` adds `CountsInv`: a piece is counted once, and the
counter of a file is never ahead of its pieces, so `iter_queued_pieces` skips no
file too early. `NeededPiecesArePursued` has the hypothesis `EveryFileVisited`:
`on_piece_completed` walks the files with `skip_while` and `take_while`, and an
empty file between two files of one piece ends that walk, so that the counters of
the files behind it lag. Lagging counters hide no piece, and the first theorem
needs no hypothesis. The theorems but the last two are about `DownloadSpec`, in
which nobody reselects, streams or pauses; section 6 shows that several of them
fail otherwise.

**Peers** (`PeerLifecycleProofs`):

- `CountersStayExact`: the aggregate counters per state are the numbers of
  entries in these states. `ActiveEntriesHaveTasks`: an entry that is Connecting
  or Live is served by a running task of its own. `ActiveEntriesAreKept`: no other
  task takes it over. `PeersStayCounted` is the first two as run `wire` checks
  them, with a short queue, growing selections and stale tasks. The three conjuncts
  of `PeersInv` are inductive together: a task that leaves an entry knows it is its
  own.
- `OwnersStayLive`: while files are only deselected (`CalmSpec`), a piece in flight
  belongs to a Live peer, over steals, deaths and parking. What finishes a torrent
  may be a deselection, with pieces in flight: once it is finished, such a piece may
  stay with a full peer that was parked, as `on_peer_died` releases nothing for an
  entry that is NotNeeded.
- `PeersStayConsistent`: under `CalmSpec` and `CalmWorld`, no task meets an entry
  in a wrong state, and every Queued entry is in the queue, being taken
  off it, or waiting for its timer. `CalmInv` says who stands behind each
  state: a Queued entry has exactly one pending event (`PendingOnce`), and the
  place of each task fits its entry (`TasksAgree`). The
  hypotheses in `CalmWorld` are those the run `peers_calm` has: the queue is never
  full, no filtered address is queued, the torrent uploads, peers connect from the
  address they listen on, and full peers do not connect to us. Section 6 lists
  what happens when the queue is full, the selection grows or a peer listens
  elsewhere.

**Locks** (`LockOrderProofs`):

- `LocksAreTakenInOrder`, `LocksNeverDeadlock`: for any number of threads and
  shards, no set of threads waits on each other, as long as nobody reselects
  (`~Reselects`; `locks_reselect` shows the cycle otherwise). The locks have ranks
  (database, torrent, shards of the peer map in order, state, streams), and of
  every handler it is proved that between an acquisition and its drop it asks for
  locks of greater rank only (`Nested`). What is left of a handler keeps this, so
  in a cycle the thread that asks for the lock of the greatest rank has no one to
  wait for.

**Torrents** (`ManagedTorrentProofs`):

- `TorrentInvariant`, and from it `TorrentStaysConsistent`, `FlagStaysHonoured`
  and `DeletedStaysStopped`: whatever calls overlap and whichever checks fail or are
  cancelled. `TorrentInv` adds to them which check belongs to the initializer at
  hand (`ChecksInv`), that only a deletion takes the token (`DeletionInv`), and
  that numbers of initializers and starts are fresh. As in the runs, `crossed` is
  the history of a call that met a state it was not meant for.

**Session** (`PersistenceProofs`), for any number of ids, calls, failed writes and
crashes, torn files included:

- `HashesStayUnique`: no hash has two ids.
- `StoreStaysInStep`: with no call in progress the store holds exactly the
  managed torrents, each as it is, and the entries a start could not add back.
- `AnswersStayDurable`: an added torrent is on file once its add was answered, a deleted one is
  not, and the next id is free.

`StoreInvariant` is what carries them. The table, the store and the file agree up
to the call that is still to write, so the invariant says for each disagreement
which call that is: `ManagedIsStored` and `StoredIsManaged` between the
session and the store, `StoredIsOnFile` and `OnFileIsStored` between the store and
the file, `GoneIsNowhere` for deleted torrents, and `RestoreIsAlone`: nothing but
restoring happens before `Session::new` returns. `blurred` is the history of torrents
whose write was stale or failed, and of those a start could not add back because nobody
answers the magnet, the storage does not open or the hash is managed already (the start
only logs it, and the entry stays); the theorems say nothing of those. One
lemma per action shows that it keeps the invariant; what the action leaves alone is
settled by the frame lemmas before them (`ClaimsStay`, `ReturnsStay`, `MapsStay`,
`FilesStay`, `GoneStays`), which say that only the moving call's claims can change.

**Resume** (`PersistenceProofs`):

- `ResumeStaysTruthful`: a torrent that is checked claims only pieces that are on
  disk, for any number of pieces and any layout of files that covers them, through
  crashes, restarts, lost files and late flushes. The record is not true at all
  times: it is wrong about files that were lost while the program was down
  (`Sound`, `Lost`). The first piece of each file is among the ones the validation
  reads (`SampleSuffices`), so a lost file is noticed, and the claims that survive
  are good. The hypothesis `Touch \subseteq {"lose"}` is that files are removed but not
  changed behind the program's back; a changed file goes unnoticed (section 6).

**DHT** (`DhtProofs`):

- `StoreStaysSound`: the counter that limits the store of announced peers is the
  number of stored peers, through announces, collections and a store read
  back from its file; a stored peer was announced by a node that had asked for a
  token from that address; and once the collector has run after a start no token is
  left that is older than `TOKEN_TTL` and one period of the collector. For any nodes,
  hashes, addresses and limits, and for any time between the dump and the start that
  reads it: until that first run the tokens of the dump are accepted whatever their
  age is. `OlderKeeps` shows that nothing is lost or confused by growing older, be it
  by a period or by the time a dump waits. The collector cuts the deque
  of tokens at the first young one (`YoungTokens`), which needs that the oldest
  come first; the counter needs that an address and port is stored once for a hash
  (`OneEntryEach`).
- `AnswersFindTheirRequest`, for every rate limit, timeout and lifetime of datagrams
  that leave room among the transaction numbers: an answer of the DHT reaches the
  request it answers, and no request loses its entry to another. The argument is one of potentials: a
  permit of the rate limiter is worth two transaction numbers (the request's and
  its announce's), a request in progress one. Numbers used plus potential left
  grow only with the refills (`Window`), so whatever was sent within the life of a
  datagram is fewer than `TidSpace` numbers away, and the numbers differ
  (`TidsDiffer`).

**Speed limits** (`SpeedLimitsProofs`), for any callers, rates and length of a day:

- `LimitsInvariant`, and from it `LimitsAlwaysFollowMode`: as long as no two calls
  overlap and no limit is set alone while the alternative ones are on, the limits in
  force between calls are the alternative ones exactly while these are on, and the
  normal ones last asked for are put aside and come back; a torrent applies the
  limit it was given, also across a pause; and the schedule is on for the length of
  its window, over midnight too. A call reads and writes five shared things one
  after the other, and in between nothing of this holds. `StageInv` therefore says
  for each step a call may be about to take what is put aside, what is in force and
  what the call has read, and `OneCall` that no other call is under way. The two
  conditions are the histories `crossed` and `mixed`; section 6 shows what the code
  does without them.

**Assumptions**, each named in its module. `TorrentAssumption` (finitely many
bytes and pieces, no piece without a byte, while files may be empty),
`PeerAssumption`, `LiveAssumption` and `PeerAssumptions` say what a torrent and its
peers are. `ShardsAssumption`: the shards are different locks.
`ClientAssumption`, `BoundsAssumption`, `StoreAssumptions`, `StoreAssumption`,
`MinutesAssumption`: bounds, times and limits are natural numbers, and some check may
run. `DhtAssumption` holds for the constants of `dht.rs` (65536
numbers, 250 requests a second, 10 seconds) as long as no datagram lives longer
than a minute.

**Only model-checked**: all liveness (fairness and ENABLED are out of the prover's
reach). `CodecsAreSound`, and the parts of other properties that are about `Wire`,
`Bencode` or `Metainfo`, because these are recursive; `TableIsSound` and
`LookupIsSound` of the DHT, because a tree of buckets is cut by a recursive function
and a lookup keeps its nodes by a sort, and induction over data is out of reach
too. `SettingsHold`, `SourcesAreGenuine`, `OutsideIsScreened`, `MessagesAreHeeded`, and
the invariants of `services` other than the limits: each is a conjunction over
several components, and has no proof yet.

## 6. Where the code and its documentation disagree

`locks_reselect` is a run of expected violation: `update_only_files` iterates the
peers under the state lock, against STATE.md (`live/mod.rs:635`).

The following were found with the modules here and instances that are not kept.
Where a property is named, it is defined in the module and fails.

Download and peers:

- A streamed piece that is being hashed is neither in `have` nor in
  flight, so it can be reserved and overwritten (`piece_tracker.rs:133`;
  `HaveIsOnDisk` with `Streaming` added to the download).
- A piece deselected and selected again while in flight is queued a second time
  (`chunk_tracker.rs:340`); it can then be reserved by another peer in the middle
  of a write (`piece_tracker.rs:150`), and counted twice in its file, after
  which `iter_queued_pieces` skips a piece that is missing (`chunk_tracker.rs:402`).
- A pause, or an unreadable file, during a hash check loses the piece
  (`piece_tracker.rs:106`, `live/peer_handler.rs:1005`); `OnlyHashChecksAreLost`
  in run `disturbed` shows that this is the only way.
- The requester goes on asking for chunks of a piece stolen from it
  (`live/peer_handler.rs:767`).
- An empty file between two files that share a piece ends the walk over the files
  (`live/mod.rs:679`).
- When the queue of peers is full the entry stays `Queued` and is in no queue
  (`live/mod.rs:551`; `QueuedIsPending` with a short queue).
- A peer that has acquired a piece is parked by a sweep begun before the
  selection grew; its piece is never released (`live/mod.rs:706`;
  `OwnerIsLivePeer` under `Spec`).
- A parked peer that is requeued before its old task ends is dropped for good
  (`live/peer_handler.rs:378`); one that listens elsewhere is queued under an
  unknown address (`live/peer/mod.rs:77`); a changed listen address stays in the
  PEX set (`live/peer_handler.rs:246`); long backoffs exceed the retention of dead
  peers (`live/mod.rs:165`).
- A peer that says HaveAll is given a bitfield of zeroes
  (`live/peer_handler.rs:129`; `PeerExchange!AllMeansAll`), and one that sent no
  bitfield is never told of new pieces (`PeerConnection!EmptyPeerIsTold`).
- Only four upload slots exist per torrent, each held for the life of a
  connection, and requests, keep-alives and disconnects wait for one
  (`peer_connection.rs:366`).
- A handshake split over two reads is refused; a failed incoming check leaves
  the other checks unpolled until the next accept (`session/network.rs:131`); a
  range that ends at the largest address loses that address
  (`ip_ranges.rs:169`).
- PEX applies its filter of local addresses to what it records and not to what it
  sends; peers reported as dropped are added like new ones; a relayed holepunch
  to a peer without the extension ends that peer's connection.

Torrents, files and what is stored:

- Unpausing during a check starts a second check of the same initializer, which
  hands the live torrent useless files (`torrent_state/mod.rs:603`;
  `ManagedTorrent!NeverUselessFiles`).
- A flush that fails during an addition leaves an entry without a torrent, and so
  does a start that cannot open the torrent's storage;
  `update_db` can put back an entry deleted meanwhile; two additions that race on
  `next_id` end with AlreadyManaged naming the other torrent; deleting, adding
  again and crashing leaves two entries of one hash; a crash after the rename and
  before the data leaves a torn `session.json`, with which the session refuses
  to start.
- The flusher of a dropped bitfield can overwrite the record of a new check.
  `StoreMirrorsSession`, `AnsweredIsDurable`, `OneTorrentPerHash` and
  `ResumeIsTruthful` say what holds apart from these cases, each of which their
  definitions name.
- The validation of a stored bitfield asks whether a piece can be read, not
  whether its hash is right (`torrent_state/initializing.rs:163`), so a file that
  was changed is not noticed (`ResumeIsTruthful` with "damage" in `Touch`).
- A comment says that a rename "Never clobbers" (`storage/filesystem/opened_file.rs:129`):
  what comes to the destination between the look and the rename is replaced
  (`StorageIsSound` says so).
- Padding files make `set_location` fail (`Storage!RelocationSucceeds`); a rename
  whose reopening fails leaves the file moved and the handle at the old path; the
  mover of completed torrents overwrites what is there, leaves handles and paths
  stale, and flattens torrents outside the default folder
  (`SessionSettings!MoveKeepsStructure`); after a restart a moved torrent is
  downloaded again.
- A storage opened read-only cannot serve a piece that starts at the end of a
  missing file (`FileOps!FoundIsReadable`).
- A created torrent has one hash too many when the content ends on the boundary
  of a piece, and lacks the last one when the last file is empty
  (`create_torrent_file.rs:157`; `Metainfo!OneHashPerPiece`); `validate` does not
  compare the number of hashes with the number of pieces.
- `compute_current_piece` returns the quotient where its field names the offset
  in the piece (`lengths.rs:279` of `librtbit-core`); the write-through cache
  uses it.
- Two requests that save categories share one temporary file; overlapping changes
  of the folders may store folders that differ from those in memory.

Network:

- While a DHT or tracker stream lasts, rediscovery and reannounce have no effect
  (`torrent_state/mod.rs:487`; `PeerSources!ReannounceIsHeeded`); adding trackers
  to a live torrent duplicates the loops of the session's trackers; a tracker
  added during the check gets no loop; a removed one stays in the registry.
- An HTTP tracker that answers interval 0 is asked without a pause; UDP
  announces repeat their event every time; Stopped is hardly ever sent.
- A message of the metadata exchange outside the exchange panics the resolving
  task.
- In the DHT `request_one` sends its request twice (`dht.rs:460` and 471); an
  aborted stream leaves its entries in flight; the outer size of the routing
  table grows when a bad node is replaced; the dump is renamed before its buffer
  is flushed; `table_v6` is dumped and not restored; a failed bootstrap ends the
  worker, and the streams of `get_peers` then never end; the eviction in
  `peer_store.rs:286` cannot be reached.

Streams and services:

- Each stream holds a permit for blocking work for life; a pause between the mark
  of a piece and its completion swallows a wake-up; a stream opened before a
  recheck waits on the old registry; the session's completion watcher can miss
  the notification (`Streaming!CompletionIsSeen`).
- A rate limit below the size of a chunk makes `until_n_ready` fail: the upload
  scheduler ends for good and a requester's connection dies (`limits.rs`,
  `live/tasks.rs:42`). Overlapping toggles and changes lose the normal limits,
  and disabling the schedule while the alternative limits are on does not bring
  the normal ones back (`SpeedLimits!DisablingRestores`).
- Tags and share limits outlive their torrent; a tag deleted while it is given
  out stays; changing file priorities is a read, then a write; `limit=0` means no
  torrents to the native interface and all to qBittorrent's; after a rename or a
  move `save_path` and file names no longer lead to the files.
- Items pruned from the database while still in the feed are new again; a failed
  addition is never retried; a regular expression that does not compile filters
  nothing but blocks the automatic download; a feed that was changed or deleted is
  read by its old configuration until the round ends; an item whose lookup in the
  database fails is downloaded again; a file that appears between the scan and the
  installation of the watcher is missed, and a magnet that is still being written is
  taken as soon as its hash is there, without the trackers that follow.

UPnP:

- A description that cannot be fetched leaves the other fetches unpolled until
  the next response arrives (`librtbit-upnp/src/lib.rs:491`); requests to a gateway
  have no deadline, and one failed renewal lets the lease lapse, since it is
  renewed once, at half time. The local address is chosen once per control URL.
- A comment says that one of our own addresses is answered with itself
  (`librtbit-upnp/src/lib.rs:49`); an earlier interface whose network contains it
  comes first (`AddressIsReachable` therefore assumes that networks do not overlap).
- Object ids of torrents from number 65535 on collide
  (`upnp_server_adapter.rs:39`). A subscription renewed in the instant of its end, or
  before its task waits, is answered OK and lost (`subscriptions.rs:48`); after a
  lag one sequence number is skipped and the update id may go back.

## 7. Not modelled

- Other storages (mmap, write-through cache, slow, timing), PostgreSQL
  persistence, mutable DHT items: no default session uses them, or each operation
  is one statement of a database.
- The HTTP server, its authentication and the handlers that only read the session
  and format it; the web and desktop interfaces; the command line; the XML of UPnP:
  routing, formatting and I/O.
- Statistics, speed estimates and logging: nothing reads them back, apart from the
  counters in `PeerLifecycle` and `ChunkTracker`.
- Hashing, buffers and the bytes themselves.
- The construction of a session from its options, and the scrape of trackers.

Abstractions to keep in mind: in `LivePieces` choking, rate limits and the request
semaphore only delay a peer (they are in `PeerExchange` and `SpeedLimits`); stream
positions are any piece of the file there (they are exact in `Streaming`); time is
the order of events, or counted in the shortest timer of the part, with backoff
delays as classes; a hash check is exact; memory is sequentially consistent, as the
locks and atomics in question make it. Parts that are checked in one instance but
share no variable (the DHT's lookups over its requests, the announce loops over the
UDP client) are connected by what each promises the other, stated in the header of
the upper module.
