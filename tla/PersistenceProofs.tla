------------------------- MODULE PersistenceProofs -------------------------
(***************************************************************************)
(* Proofs about what survives a restart: the session's database and its    *)
(* JSON store, for any number of calls, torrents, ids, I/O errors and      *)
(* crashes, and the fast resume record of a torrent, for any layout.       *)
(***************************************************************************)
EXTENDS SessionStore, Resume, WellFoundedInduction, TLAPS

----------------------------------------------------------------------------
(* The inductive invariant *)

\* The operation and the id that go with a call's place in the code.
StageIsRight(k) ==
    \/ k.pc = "idle" /\ k.op = None
    \/ k.pc = "nextId" /\ k.op = "add"
    \/ k.pc \in {"insert", "bytes"} /\ k.op \in {"add", "restore"} /\ k.id \in Ids
    \/ k.pc = "copy" /\ k.op = "update" /\ k.id \in Ids
    \/ k.pc \in {"put", "flush", "rename", "reply"} /\ k.op \in {"add", "restore", "update"}
       /\ k.id \in Ids
    \/ k.pc \in {"dbRemove", "flush", "rename", "rmFiles"} /\ k.op = "delete"

IsDb(db) == db = [i \in DOMAIN db |-> db[i]] /\ DOMAIN db \subseteq Ids

Shape ==
    /\ DOMAIN task = Tasks
    /\ \A t \in Tasks : StageIsRight(task[t])
    /\ IsDb(content) /\ IsDb(file.db)
    /\ ~running => /\ DOMAIN torrents = {} /\ DOMAIN content = {} /\ restoring = {}
                   /\ \A t \in Tasks : task[t].pc = "idle"

\* A call that is adding this entry of the store back, and has not inserted it.
Returns(k, id) == k.op = "restore" /\ k.pc = "insert" /\ k.id = id
Returning(rest, calling, id) == id \in rest \/ \E t \in Tasks : Returns(calling[t], id)

\* While torrents are restored no other call is served, and each entry is restored once.
RestoreIsAlone ==
    /\ restoring \subseteq DOMAIN content
    /\ restoring # {} \/ (\E t \in Tasks : task[t].op = "restore")
         => \A t \in Tasks : task[t].op \in {None, "restore"}
    /\ \A t \in Tasks : task[t].op = "restore" =>
         /\ task[t].id \notin restoring
         /\ \A u \in Tasks \ {t} : task[u].op = "restore" => task[u].id # task[t].id
    /\ \A t \in Tasks, id \in Ids :
         Returns(task[t], id) => id \in DOMAIN content /\ content[id] = task[t].entry

\* A call that will write the torrent of this hash under this id; one that adds it; one
\* that will remove the entry; one that will flush it, or its removal.
Writes(k, id, h) == k.pc \in {"bytes", "put", "copy"} /\ k.id = id /\ k.entry.hash = h
AddWrites(k, id, h) == k.op \in {"add", "restore"} /\ Writes(k, id, h)
Removes(k, id, h) == k.pc = "dbRemove" /\ k.id = id /\ k.entry.hash = h
Flushes(k, h) == k.pc \in {"flush", "rename"} /\ k.op # "delete" /\ k.entry.hash = h
Deletes(k, h) ==
    k.pc \in {"dbRemove", "flush", "rename"} /\ k.op = "delete" /\ k.entry.hash = h
\* A call that can bring the torrent of this hash back.
Brings(k, h) == k.pc \in {"nextId", "insert", "bytes", "put", "copy"} /\ k.entry.hash = h

Writing(calling, id, h) == \E t \in Tasks : Writes(calling[t], id, h)
AddWriting(calling, id, h) == \E t \in Tasks : AddWrites(calling[t], id, h)
Removing(calling, id, h) == \E t \in Tasks : Removes(calling[t], id, h)
Flushing(calling, h) == \E t \in Tasks : Flushes(calling[t], h)
Deleting(calling, h) == \E t \in Tasks : Deletes(calling[t], h)

Has(db, id, h) == id \in DOMAIN db /\ db[id].hash = h
Same(db1, db2, id) == id \in DOMAIN db1 /\ id \in DOMAIN db2 /\ db1[id] = db2[id]

\* A managed torrent is in the store as it is, or a call is about to write it.
ManagedIsStored ==
    \A id \in DOMAIN torrents : torrents[id].hash \notin blurred =>
        Same(torrents, content, id) \/ Writing(task, id, torrents[id].hash)

\* The id of a managed torrent is taken in the store, or the add has not yet written it.
ManagedIdIsTaken ==
    \A id \in DOMAIN torrents : torrents[id].hash \notin blurred =>
        id \in DOMAIN content \/ AddWriting(task, id, torrents[id].hash)

\* An entry of the store is a managed torrent as it is or was, or one that is being
\* restored or deleted.
StoredIsManaged ==
    \A id \in DOMAIN content : content[id].hash \notin blurred =>
        \/ Same(torrents, content, id)
        \/ Has(torrents, id, content[id].hash) /\ Writing(task, id, content[id].hash)
        \/ Returning(restoring, task, id)
        \/ Removing(task, id, content[id].hash)

\* A torrent whose add was answered is managed, or is being restored, from the store.
AckedIsStored ==
    \A h \in acked \ blurred :
        /\ h \in HashesOf(file.db)
        /\ running => \E id \in DOMAIN content :
             content[id].hash = h /\ (Has(torrents, id, h) \/ Returning(restoring, task, id))

\* The store and session.json hold the same hashes but for those a call still has to flush.
StoredIsOnFile ==
    \A h \in HashesOf(content) \ blurred : h \in HashesOf(file.db) \/ Flushing(task, h)
OnFileIsStored ==
    running => \A h \in HashesOf(file.db) \ blurred :
        h \in HashesOf(content) \/ Deleting(task, h)

\* A torrent whose delete was answered is nowhere, and no call is bringing it back.
GoneIsNowhere ==
    \A h \in gone \ blurred :
        /\ h \notin HashesOf(content) /\ h \notin HashesOf(file.db) /\ h \notin HashesOf(torrents)
        /\ \A t \in Tasks : ~ Brings(task[t], h)

StoreInv ==
    /\ Shape /\ OneTorrentPerHash /\ RestoreIsAlone
    /\ ManagedIsStored /\ ManagedIdIsTaken /\ StoredIsManaged
    /\ AckedIsStored /\ StoredIsOnFile /\ OnFileIsStored /\ GoneIsNowhere

----------------------------------------------------------------------------
(* The maps *)

\* db2 is db with the entry e under id; and db without the entry under id.
Added(db2, db, id, e) ==
    /\ DOMAIN db2 = DOMAIN db \cup {id} /\ db2[id] = e
    /\ \A i \in DOMAIN db \ {id} : db2[i] = db[i]
Dropped(db2, db, id) ==
    /\ DOMAIN db2 = DOMAIN db \ {id}
    /\ \A i \in DOMAIN db \ {id} : db2[i] = db[i]

\* HashMap::insert.
LEMMA AddDb ==
  ASSUME NEW db, NEW id, NEW e
  PROVE  /\ Added(InsertAt(db, id, e), db, id, e)
         /\ IsDb(db) /\ id \in Ids => IsDb(InsertAt(db, id, e))
<1>1. Added(InsertAt(db, id, e), db, id, e)
  BY Zenon DEF InsertAt, Added
<1>2. IsDb(db) /\ id \in Ids => IsDb(InsertAt(db, id, e))
  BY Zenon DEF InsertAt, IsDb
<1> QED
  BY <1>1, <1>2, Zenon

\* HashMap::remove.
LEMMA DropDb ==
  ASSUME NEW db, NEW id
  PROVE  /\ Dropped(Restrict(db, DOMAIN db \ {id}), db, id)
         /\ IsDb(db) => IsDb(Restrict(db, DOMAIN db \ {id}))
<1>1. Dropped(Restrict(db, DOMAIN db \ {id}), db, id)
  BY Zenon DEF Restrict, Dropped
<1>2. IsDb(db) => IsDb(Restrict(db, DOMAIN db \ {id}))
  BY Zenon DEF Restrict, IsDb
<1> QED
  BY <1>1, <1>2, Zenon

LEMMA AddedHashes ==
  ASSUME NEW db2, NEW db, NEW id, NEW e, Added(db2, db, id, e)
  PROVE  /\ \A h \in HashesOf(db2) : h \in HashesOf(db) \/ h = e.hash
         /\ \A h \in HashesOf(db) : h \in HashesOf(db2) \/ Has(db, id, h)
BY Zenon DEF Added, HashesOf, Has

LEMMA DroppedHashes ==
  ASSUME NEW db2, NEW db, NEW id, Dropped(db2, db, id)
  PROVE  /\ \A h \in HashesOf(db2) : h \in HashesOf(db)
         /\ \A h \in HashesOf(db) : h \in HashesOf(db2) \/ Has(db, id, h)
BY Zenon DEF Dropped, HashesOf, Has

----------------------------------------------------------------------------
(* What the restoring of torrents excludes *)

\* The entry of a torrent that is added back is still the store's.
LEMMA ReturnsFromStore ==
  ASSUME StoreInv, NEW t \in Tasks, task[t].pc = "insert", task[t].op = "restore"
  PROVE  task[t].id \in DOMAIN content /\ content[task[t].id] = task[t].entry
BY Zenon DEF StoreInv, Shape, StageIsRight, RestoreIsAlone, Returns

\* A call that adds, adds back or updates a torrent meets no other that adds it back.
LEMMA ReturnsOnce ==
  ASSUME StoreInv, NEW t \in Tasks, task[t].op \notin {None}
  PROVE  /\ task[t].id \notin restoring
         /\ \A u \in Tasks \ {t} : ~ Returns(task[u], task[t].id)
BY Zenon DEF StoreInv, RestoreIsAlone, Returns, None

LEMMA ReturnsNoMore ==
  ASSUME StoreInv, NEW t \in Tasks, task[t].pc \notin {"idle", "insert"}
  PROVE  ~ Returning(restoring, task, task[t].id)
BY ReturnsOnce, Zenon DEF StoreInv, Shape, StageIsRight, Returning, Returns, None

\* While another call is in progress nothing is restored.
LEMMA NoneReturns ==
  ASSUME StoreInv, NEW t \in Tasks, task[t].op \notin {None, "restore"}
  PROVE  restoring = {} /\ \A i : ~ Returning(restoring, task, i)
BY Zenon DEF StoreInv, RestoreIsAlone, Returning, Returns, None

----------------------------------------------------------------------------
(* What a step of one call leaves as it is *)

OnlyMoves(t) == DOMAIN task' = Tasks /\ \A u \in Tasks \ {t} : task'[u] = task[u]

\* What calls have undertaken about the torrents that stay clear is still undertaken.
WritesKept ==
    \A id, h : h \notin blurred' =>
        /\ Writing(task, id, h) => Writing(task', id, h)
        /\ AddWriting(task, id, h) => AddWriting(task', id, h)
        /\ Removing(task, id, h) => Removing(task', id, h)
FlushesKept ==
    \A h : h \notin blurred' =>
        /\ Flushing(task, h) => Flushing(task', h)
        /\ Deleting(task, h) => Deleting(task', h)
ReturnsKept ==
    \A id \in DOMAIN content : content[id].hash \notin blurred' =>
        (Returning(restoring, task, id) => Returning(restoring', task', id))

\* The session keeps its torrents, but for blurred ones.
TorrentsKept ==
    /\ DOMAIN torrents' \subseteq DOMAIN torrents
    /\ \A i \in DOMAIN torrents' : torrents'[i] = torrents[i]
    /\ \A i \in DOMAIN torrents : torrents[i].hash \notin blurred' => i \in DOMAIN torrents'

\* The calls that do not move stand by what they have undertaken.
LEMMA OthersKeep ==
  ASSUME NEW t \in Tasks, OnlyMoves(t), NEW id, NEW h
  PROVE  /\ Writing(task, id, h) => Writes(task[t], id, h) \/ Writing(task', id, h)
         /\ AddWriting(task, id, h) => AddWrites(task[t], id, h) \/ AddWriting(task', id, h)
         /\ Removing(task, id, h) => Removes(task[t], id, h) \/ Removing(task', id, h)
         /\ Flushing(task, h) => Flushes(task[t], h) \/ Flushing(task', h)
         /\ Deleting(task, h) => Deletes(task[t], h) \/ Deleting(task', h)
<1>1. Writing(task, id, h) => Writes(task[t], id, h) \/ Writing(task', id, h)
  BY Zenon DEF OnlyMoves, Writing
<1>2. AddWriting(task, id, h) => AddWrites(task[t], id, h) \/ AddWriting(task', id, h)
  BY Zenon DEF OnlyMoves, AddWriting
<1>3. Removing(task, id, h) => Removes(task[t], id, h) \/ Removing(task', id, h)
  BY Zenon DEF OnlyMoves, Removing
<1>4. Flushing(task, h) => Flushes(task[t], h) \/ Flushing(task', h)
  BY Zenon DEF OnlyMoves, Flushing
<1>5. Deleting(task, h) => Deletes(task[t], h) \/ Deleting(task', h)
  BY Zenon DEF OnlyMoves, Deleting
<1> QED
  BY <1>1, <1>2, <1>3, <1>4, <1>5, Zenon

\* The call that moves has undertaken nothing, or what it was about is blurred.
LEMMA ClaimsStay ==
  ASSUME NEW t \in Tasks, OnlyMoves(t),
         \/ task[t].pc \notin {"bytes", "put", "copy", "dbRemove", "flush", "rename"}
         \/ task[t].entry.hash \in blurred'
  PROVE  WritesKept /\ FlushesKept
<1>1. ASSUME NEW id, NEW h, h \notin blurred'
      PROVE  /\ ~ Writes(task[t], id, h) /\ ~ AddWrites(task[t], id, h)
             /\ ~ Removes(task[t], id, h) /\ ~ Flushes(task[t], h) /\ ~ Deletes(task[t], h)
  BY <1>1, Zenon DEF Writes, AddWrites, Removes, Flushes, Deletes
<1>2. WritesKept
  BY <1>1, OthersKeep, Zenon DEF WritesKept
<1>3. FlushesKept
  BY <1>1, OthersKeep, Zenon DEF FlushesKept
<1> QED
  BY <1>2, <1>3, Zenon

\* The call goes on, to write or to flush the same torrent.
LEMMA ClaimsGoOn ==
  ASSUME NEW t \in Tasks, OnlyMoves(t), task'[t].op = task[t].op, task'[t].id = task[t].id,
         task'[t].entry.hash = task[t].entry.hash,
         \/ task[t].pc \in {"bytes", "copy"} /\ task'[t].pc = "put"
         \/ task[t].pc = "flush" /\ task'[t].pc = "rename"
  PROVE  WritesKept /\ FlushesKept
<1>1. ASSUME NEW id, NEW h
      PROVE  /\ Writes(task[t], id, h) => Writing(task', id, h)
             /\ AddWrites(task[t], id, h) => AddWriting(task', id, h)
             /\ ~ Removes(task[t], id, h)
  BY Zenon DEF Writes, AddWrites, Removes, Writing, AddWriting
<1>2. ASSUME NEW h
      PROVE  /\ Flushes(task[t], h) => Flushing(task', h)
             /\ Deletes(task[t], h) => Deleting(task', h)
  BY Zenon DEF Flushes, Deletes, Flushing, Deleting
<1>3. WritesKept
  BY <1>1, OthersKeep, Zenon DEF WritesKept
<1>4. FlushesKept
  BY <1>2, OthersKeep, Zenon DEF FlushesKept
<1> QED
  BY <1>3, <1>4, Zenon

\* The call that moves is not adding a torrent back.
LEMMA ReturnsStay ==
  ASSUME NEW t \in Tasks, OnlyMoves(t), restoring' = restoring,
         task[t].pc # "insert" \/ task[t].op # "restore"
  PROVE  \A id : Returning(restoring, task, id) => Returning(restoring', task', id)
BY Zenon DEF OnlyMoves, Returning, Returns

LEMMA ShapeStays ==
  ASSUME StoreInv, NEW t \in Tasks, OnlyMoves(t), running' = running,
         running \/ task[t].pc # "idle",
         StageIsRight(task'[t]), IsDb(content'), IsDb(file'.db)
  PROVE  Shape' /\ running
<1>1. running
  BY Zenon DEF StoreInv, Shape
<1>2. \A u \in Tasks : StageIsRight(task'[u])
  BY Zenon DEF StoreInv, Shape, OnlyMoves
<1> QED
  BY <1>1, <1>2, Zenon DEF Shape, OnlyMoves

\* The call that moves does not begin to restore, and begins nothing else meanwhile.
LEMMA AloneStays ==
  ASSUME StoreInv, NEW t \in Tasks, OnlyMoves(t), restoring' = restoring,
         task'[t].op = "restore" =>
           task[t].op = "restore" /\ task'[t].id = task[t].id /\ task'[t].pc # "insert",
         task'[t].op \in {None, "restore", task[t].op} \/ Restored,
         \A id \in DOMAIN content : Returning(restoring, task, id) =>
           id \in DOMAIN content' /\ content'[id] = content[id]
  PROVE  RestoreIsAlone'
<1>1. restoring \subseteq DOMAIN content'
  BY Zenon DEF StoreInv, RestoreIsAlone, Returning
<1>2. ASSUME restoring # {} \/ (\E u \in Tasks : task'[u].op = "restore"), NEW u \in Tasks
      PROVE  task'[u].op \in {None, "restore"}
  <2>1. restoring # {} \/ (\E v \in Tasks : task[v].op = "restore")
    BY <1>2, Zenon DEF OnlyMoves
  <2>2. task[u].op \in {None, "restore"} /\ task[t].op \in {None, "restore"} /\ ~ Restored
    BY <2>1, Zenon DEF StoreInv, RestoreIsAlone, Restored
  <2> QED
    BY <2>2, Zenon DEF OnlyMoves
<1>3. ASSUME NEW u \in Tasks, task'[u].op = "restore"
      PROVE  /\ task'[u].id \notin restoring
             /\ \A v \in Tasks \ {u} : task'[v].op = "restore" => task'[v].id # task'[u].id
  <2>1. \A v \in Tasks : task'[v].op = "restore" =>
          task[v].op = "restore" /\ task'[v].id = task[v].id
    BY Zenon DEF OnlyMoves
  <2> QED
    BY <1>3, <2>1, ZenonT(30) DEF StoreInv, RestoreIsAlone
<1>4. ASSUME NEW u \in Tasks, NEW id \in Ids, Returns(task'[u], id)
      PROVE  id \in DOMAIN content' /\ content'[id] = task'[u].entry
  <2>1. task'[u] = task[u]
    BY <1>4, Zenon DEF OnlyMoves, Returns
  <2>2. id \in DOMAIN content /\ content[id] = task[u].entry /\ Returning(restoring, task, id)
    BY <1>4, <2>1, Zenon DEF StoreInv, RestoreIsAlone, Returning
  <2> QED
    BY <2>1, <2>2, Zenon
<1> QED
  BY <1>1, <1>2, <1>3, <1>4, Zenon DEF RestoreIsAlone

\* The maps change only in what is blurred.
LEMMA MapsStay ==
  ASSUME StoreInv, WritesKept, ReturnsKept, TorrentsKept, content' = content,
         blurred \subseteq blurred'
  PROVE  OneTorrentPerHash' /\ ManagedIsStored' /\ ManagedIdIsTaken' /\ StoredIsManaged'
<1>1. OneTorrentPerHash'
  BY Zenon DEF StoreInv, OneTorrentPerHash, TorrentsKept
<1>2. ASSUME NEW i \in DOMAIN torrents', torrents'[i].hash \notin blurred'
      PROVE  /\ i \in DOMAIN torrents /\ torrents'[i] = torrents[i]
             /\ torrents[i].hash \notin blurred
  BY <1>2, Zenon DEF TorrentsKept
<1>3. ManagedIsStored'
  BY <1>2, Zenon DEF StoreInv, ManagedIsStored, WritesKept, Same
<1>4. ManagedIdIsTaken'
  BY <1>2, Zenon DEF StoreInv, ManagedIdIsTaken, WritesKept
<1>5. StoredIsManaged'
  <2> SUFFICES ASSUME NEW i \in DOMAIN content, content[i].hash \notin blurred'
               PROVE  \/ Same(torrents', content, i)
                      \/ /\ Has(torrents', i, content[i].hash)
                         /\ Writing(task', i, content[i].hash)
                      \/ Returning(restoring', task', i)
                      \/ Removing(task', i, content[i].hash)
    BY Zenon DEF StoredIsManaged
  <2>1. CASE Same(torrents, content, i)
    BY <2>1, Zenon DEF Same, TorrentsKept
  <2>2. CASE Has(torrents, i, content[i].hash) /\ Writing(task, i, content[i].hash)
    BY <2>2, Zenon DEF Has, TorrentsKept, WritesKept
  <2>3. CASE Returning(restoring, task, i)
    BY <2>3, Zenon DEF ReturnsKept
  <2>4. CASE Removing(task, i, content[i].hash)
    BY <2>4, Zenon DEF WritesKept
  <2> QED
    BY <2>1, <2>2, <2>3, <2>4, Zenon DEF StoreInv, StoredIsManaged
<1> QED
  BY <1>1, <1>3, <1>4, <1>5, Zenon

LEMMA FilesStay ==
  ASSUME StoreInv, FlushesKept, content' = content, file'.db = file.db, running' = running,
         blurred \subseteq blurred'
  PROVE  StoredIsOnFile' /\ OnFileIsStored'
<1>1. StoredIsOnFile'
  BY Zenon DEF StoreInv, FlushesKept, StoredIsOnFile
<1>2. OnFileIsStored'
  BY Zenon DEF StoreInv, FlushesKept, OnFileIsStored
<1> QED
  BY <1>1, <1>2, Zenon

LEMMA AckedStay ==
  ASSUME StoreInv, ReturnsKept, TorrentsKept, content' = content, file'.db = file.db,
         running' = running, blurred \subseteq blurred', acked' \subseteq acked
  PROVE  AckedIsStored'
<1> SUFFICES ASSUME NEW h \in acked, h \notin blurred, h \notin blurred'
             PROVE  /\ h \in HashesOf(file.db)
                    /\ running => \E id \in DOMAIN content :
                         /\ content[id].hash = h
                         /\ Has(torrents', id, h) \/ Returning(restoring', task', id)
  BY Zenon DEF AckedIsStored
<1>1. ASSUME NEW id \in DOMAIN content, content[id].hash = h,
             Has(torrents, id, h) \/ Returning(restoring, task, id)
      PROVE  Has(torrents', id, h) \/ Returning(restoring', task', id)
  BY <1>1, Zenon DEF Has, TorrentsKept, ReturnsKept
<1> QED
  BY <1>1, Zenon DEF StoreInv, AckedIsStored

\* A hash whose delete was answered comes into a map only from another, or from a call
\* that brings it.
LEMMA GoneStays ==
  ASSUME StoreInv, NEW t \in Tasks, OnlyMoves(t), gone' \subseteq gone, blurred \subseteq blurred',
         \A h \in gone' \ blurred' :
           /\ h \in HashesOf(content') => h \in HashesOf(content) \/ Brings(task[t], h)
           /\ h \in HashesOf(file'.db) => h \in HashesOf(file.db) \/ h \in HashesOf(content)
           /\ h \in HashesOf(torrents') => h \in HashesOf(torrents) \/ Brings(task[t], h)
           /\ Brings(task'[t], h) =>
                Brings(task[t], h) \/ h \in HashesOf(content) \/ h \in HashesOf(torrents)
  PROVE  GoneIsNowhere'
<1> SUFFICES ASSUME NEW h \in gone', h \notin blurred'
             PROVE  /\ h \notin HashesOf(content') /\ h \notin HashesOf(file'.db)
                    /\ h \notin HashesOf(torrents') /\ \A u \in Tasks : ~ Brings(task'[u], h)
  BY Zenon DEF GoneIsNowhere
<1>1. /\ h \notin HashesOf(content) /\ h \notin HashesOf(file.db) /\ h \notin HashesOf(torrents)
      /\ \A u \in Tasks : ~ Brings(task[u], h)
  BY Zenon DEF StoreInv, GoneIsNowhere
<1>2. \A u \in Tasks : ~ Brings(task'[u], h)
  BY <1>1, Zenon DEF OnlyMoves
<1> QED
  BY <1>1, <1>2, Zenon

\* A call moves that has nothing to add to the maps.
LEMMA CallMoves ==
  ASSUME StoreInv, NEW t \in Tasks, OnlyMoves(t),
         UNCHANGED <<running, torrents, content, file>>, blurred \subseteq blurred',
         gone' \subseteq gone,
         \A h \in gone' : Brings(task'[t], h) => Brings(task[t], h) \/ h \in HashesOf(content),
         WritesKept, FlushesKept, ReturnsKept
  PROVE  /\ OneTorrentPerHash' /\ ManagedIsStored' /\ ManagedIdIsTaken' /\ StoredIsManaged'
         /\ StoredIsOnFile' /\ OnFileIsStored' /\ GoneIsNowhere'
         /\ acked' \subseteq acked => AckedIsStored'
<1>1. TorrentsKept
  BY Zenon DEF TorrentsKept
<1>2. OneTorrentPerHash' /\ ManagedIsStored' /\ ManagedIdIsTaken' /\ StoredIsManaged'
  BY <1>1, MapsStay, Zenon
<1>3. StoredIsOnFile' /\ OnFileIsStored'
  BY FilesStay, Zenon
<1>4. GoneIsNowhere'
  BY GoneStays, Zenon
<1>5. acked' \subseteq acked => AckedIsStored'
  BY <1>1, AckedStay, Zenon
<1> QED
  BY <1>2, <1>3, <1>4, <1>5, Zenon

----------------------------------------------------------------------------
(* Steps *)

Kept == StoreInv => StoreInv'

\* add_torrent begins.
LEMMA AddTorrentKeeps ==
  ASSUME NEW t \in Tasks, NEW h, NEW paused, AddTorrent(t, h, paused)
  PROVE  Kept
<1> SUFFICES ASSUME StoreInv PROVE StoreInv'
  BY Zenon DEF Kept
<1>1. /\ UNCHANGED <<running, torrents, content, file>> /\ restoring' = restoring
      /\ acked' = acked /\ blurred' = blurred /\ gone' = gone \ {h}
      /\ OnlyMoves(t)
      /\ task'[t].pc = "nextId" /\ task'[t].op = "add" /\ task'[t].entry.hash = h
      /\ task[t].pc = "idle" /\ Restored /\ running
  BY Zenon DEF StoreInv, Shape, AddTorrent, Call, At, OnlyMoves, disk, Restored
<1>2. Shape'
  BY <1>1, ShapeStays, Zenon DEF StoreInv, Shape, StageIsRight
<1>3. RestoreIsAlone'
  BY <1>1, AloneStays, Zenon
<1>4. WritesKept /\ FlushesKept /\ ReturnsKept
  BY <1>1, ClaimsStay, ReturnsStay, Zenon DEF ReturnsKept
<1>5. \A g \in gone' : ~ Brings(task'[t], g)
  BY <1>1, Zenon DEF Brings
<1> QED
  BY <1>1, <1>2, <1>3, <1>4, <1>5, CallMoves, Zenon DEF StoreInv

\* next_id reads the store.
LEMMA NextIdKeeps ==
  ASSUME NEW t \in Tasks, NextId(t)
  PROVE  Kept
<1> SUFFICES ASSUME StoreInv PROVE StoreInv'
  BY Zenon DEF Kept
<1>1. /\ UNCHANGED <<running, torrents, content, file>> /\ restoring' = restoring
      /\ acked' = acked /\ blurred' = blurred /\ gone' = gone
      /\ OnlyMoves(t)
      /\ task'[t].pc = "insert" /\ task'[t].op = task[t].op /\ task'[t].id \in Ids
      /\ task'[t].entry.hash = task[t].entry.hash
      /\ task[t].pc = "nextId"
  BY Zenon DEF StoreInv, Shape, NextId, At, GoOn, OnlyMoves, disk, history
<1>2. task[t].op = "add"
  BY <1>1, Zenon DEF StoreInv, Shape, StageIsRight
<1>3. Shape'
  BY <1>1, <1>2, ShapeStays, Zenon DEF StoreInv, Shape, StageIsRight
<1>4. RestoreIsAlone'
  BY <1>1, <1>2, AloneStays, Zenon
<1>5. WritesKept /\ FlushesKept /\ ReturnsKept
  BY <1>1, ClaimsStay, ReturnsStay, Zenon DEF ReturnsKept
<1>6. \A h : Brings(task'[t], h) => Brings(task[t], h)
  BY <1>1, Zenon DEF Brings
<1> QED
  BY <1>1, <1>3, <1>4, <1>5, <1>6, CallMoves, Zenon DEF StoreInv

\* An existing torrent answers the add, or its storage does not open.
LEMMA AddAnsweredKeeps ==
  ASSUME NEW t \in Tasks, AddInsert(t), UNCHANGED torrents, task' = [task EXCEPT ![t] = Idle],
         blurred' = IF task[t].op = "restore" THEN blurred \cup {task[t].entry.hash} ELSE blurred
  PROVE  Kept
<1> SUFFICES ASSUME StoreInv PROVE StoreInv'
  BY Zenon DEF Kept
<1>1. /\ UNCHANGED <<running, torrents, content, file>> /\ restoring' = restoring
      /\ acked' = acked /\ gone' = gone /\ blurred \subseteq blurred'
      /\ OnlyMoves(t) /\ task'[t].pc = "idle" /\ task'[t].op = None
      /\ task[t].pc = "insert"
      /\ task[t].op = "restore" => task[t].entry.hash \in blurred'
  <2>1. /\ UNCHANGED <<running, content, file>> /\ restoring' = restoring
        /\ acked' = acked /\ gone' = gone /\ task[t].pc = "insert"
    BY Zenon DEF AddInsert, At, disk
  <2>2. OnlyMoves(t) /\ task'[t].pc = "idle" /\ task'[t].op = None
    BY <2>1, Zenon DEF StoreInv, Shape, OnlyMoves, Idle
  <2>3. blurred \subseteq blurred' /\ (task[t].op = "restore" => task[t].entry.hash \in blurred')
    BY <2>1, Zenon
  <2> QED
    BY <2>1, <2>2, <2>3, Zenon
<1>2. Shape'
  BY <1>1, ShapeStays, Zenon DEF StoreInv, Shape, StageIsRight
<1>3. RestoreIsAlone'
  BY <1>1, AloneStays, Zenon DEF None
<1>4. WritesKept /\ FlushesKept
  BY <1>1, ClaimsStay, Zenon
<1>5. ReturnsKept
  <2> SUFFICES ASSUME NEW id \in DOMAIN content, content[id].hash \notin blurred',
                      Returning(restoring, task, id)
               PROVE  Returning(restoring', task', id)
    BY Zenon DEF ReturnsKept
  <2>1. ~ Returns(task[t], id)
    BY <1>1, ReturnsFromStore, Zenon DEF Returns
  <2> QED
    BY <1>1, <2>1, Zenon DEF Returning, OnlyMoves
<1>6. \A h : ~ Brings(task'[t], h)
  BY <1>1, Zenon DEF Brings
<1> QED
  BY <1>1, <1>2, <1>3, <1>4, <1>5, <1>6, CallMoves, Zenon DEF StoreInv

\* The torrent enters the session.
LEMMA AddInsertedKeeps ==
  ASSUME NEW t \in Tasks, AddInsert(t), Existing(task[t].id, task[t].entry.hash) = {},
         PutTorrent(task[t].id, task[t].entry), GoTo(t, "bytes"), UNCHANGED blurred
  PROVE  Kept
<1> SUFFICES ASSUME StoreInv PROVE StoreInv'
  BY Zenon DEF Kept
<1>1. /\ running' = running /\ content' = content /\ file' = file
      /\ restoring' = restoring /\ acked' = acked /\ gone' = gone /\ blurred' = blurred
      /\ OnlyMoves(t)
      /\ task'[t].pc = "bytes" /\ task'[t].op = task[t].op
      /\ task'[t].id = task[t].id /\ task'[t].entry.hash = task[t].entry.hash
      /\ task[t].pc = "insert"
  <2> DEFINE k == [pc |-> "bytes", op |-> task[t].op, id |-> task[t].id, entry |-> task[t].entry]
  <2>1. /\ running' = running /\ content' = content /\ file' = file
        /\ restoring' = restoring /\ acked' = acked /\ gone' = gone /\ blurred' = blurred
        /\ task' = [task EXCEPT ![t] = k] /\ task[t].pc = "insert"
    BY Zenon DEF AddInsert, At, GoTo, GoOn, disk
  <2>2. /\ OnlyMoves(t) /\ task'[t].pc = "bytes" /\ task'[t].op = task[t].op
        /\ task'[t].id = task[t].id /\ task'[t].entry.hash = task[t].entry.hash
    BY <2>1, Zenon DEF StoreInv, Shape, OnlyMoves
  <2> QED
    BY <2>1, <2>2, Zenon
<1>2. /\ Added(torrents', torrents, task[t].id, task[t].entry)
      /\ task[t].id \notin DOMAIN torrents
      /\ \A i \in DOMAIN torrents : torrents[i].hash # task[t].entry.hash
  BY AddDb, Zenon DEF AddInsert, Existing, PutTorrent
<1>3. task[t].op \in {"add", "restore"} /\ task[t].id \in Ids
  BY <1>1, Zenon DEF StoreInv, Shape, StageIsRight
<1>4. Shape'
  BY <1>1, <1>3, ShapeStays, Zenon DEF StoreInv, Shape, StageIsRight
<1>5. RestoreIsAlone'
  BY <1>1, AloneStays, Zenon
<1>6. WritesKept /\ FlushesKept
  BY <1>1, ClaimsStay, Zenon
<1>7. /\ Writing(task', task[t].id, task[t].entry.hash)
      /\ AddWriting(task', task[t].id, task[t].entry.hash)
  BY <1>1, <1>3, Zenon DEF Writing, AddWriting, AddWrites, Writes
<1>8. ASSUME NEW i \in DOMAIN content, Returning(restoring, task, i)
      PROVE  \/ i = task[t].id /\ content[i] = task[t].entry
             \/ i # task[t].id /\ Returning(restoring', task', i)
  <2>1. CASE i = task[t].id
    BY <1>1, <1>3, <1>8, <2>1, ReturnsOnce, ReturnsFromStore, Zenon DEF Returning, Returns, None
  <2>2. CASE i # task[t].id
    BY <1>1, <1>8, <2>2, Zenon DEF Returning, Returns, OnlyMoves
  <2> QED
    BY <2>1, <2>2, Zenon
<1>9. OneTorrentPerHash'
  BY <1>2, Zenon DEF StoreInv, OneTorrentPerHash, Added
<1>10. ManagedIsStored' /\ ManagedIdIsTaken'
  <2>1. ASSUME NEW i \in DOMAIN torrents', torrents'[i].hash \notin blurred
        PROVE  /\ Same(torrents', content, i) \/ Writing(task', i, torrents'[i].hash)
               /\ i \in DOMAIN content \/ AddWriting(task', i, torrents'[i].hash)
    <3>1. CASE i = task[t].id
      BY <1>2, <1>7, <3>1, Zenon DEF Added
    <3>2. CASE i # task[t].id
      <4>1. i \in DOMAIN torrents /\ torrents'[i] = torrents[i]
        BY <1>2, <3>2, Zenon DEF Added
      <4> QED
        BY <1>1, <1>6, <2>1, <4>1, Zenon
           DEF StoreInv, ManagedIsStored, ManagedIdIsTaken, WritesKept, Same
    <3> QED
      BY <3>1, <3>2, Zenon
  <2> QED
    BY <1>1, <2>1, Zenon DEF ManagedIsStored, ManagedIdIsTaken
<1>11. StoredIsManaged'
  <2> SUFFICES ASSUME NEW i \in DOMAIN content, content[i].hash \notin blurred
               PROVE  \/ Same(torrents', content, i)
                      \/ /\ Has(torrents', i, content[i].hash)
                         /\ Writing(task', i, content[i].hash)
                      \/ Returning(restoring', task', i)
                      \/ Removing(task', i, content[i].hash)
    BY <1>1, Zenon DEF StoredIsManaged
  <2>1. i \in DOMAIN torrents => i \in DOMAIN torrents' /\ torrents'[i] = torrents[i]
    BY <1>2, Zenon DEF Added
  <2>2. CASE Same(torrents, content, i)
    BY <2>1, <2>2, Zenon DEF Same
  <2>3. CASE Has(torrents, i, content[i].hash) /\ Writing(task, i, content[i].hash)
    BY <1>1, <1>6, <2>1, <2>3, Zenon DEF Has, WritesKept
  <2>4. CASE Returning(restoring, task, i)
    BY <1>2, <1>8, <2>4, Zenon DEF Added, Same
  <2>5. CASE Removing(task, i, content[i].hash)
    BY <1>1, <1>6, <2>5, Zenon DEF WritesKept
  <2> QED
    BY <2>2, <2>3, <2>4, <2>5, Zenon DEF StoreInv, StoredIsManaged
<1>12. AckedIsStored'
  <2> SUFFICES ASSUME NEW h \in acked, h \notin blurred
               PROVE  /\ h \in HashesOf(file.db)
                      /\ running => \E id \in DOMAIN content :
                           /\ content[id].hash = h
                           /\ Has(torrents', id, h) \/ Returning(restoring', task', id)
    BY <1>1, Zenon DEF AckedIsStored
  <2>1. ASSUME NEW id \in DOMAIN content, content[id].hash = h,
               Has(torrents, id, h) \/ Returning(restoring, task, id)
        PROVE  Has(torrents', id, h) \/ Returning(restoring', task', id)
    BY <1>2, <1>8, <2>1, Zenon DEF Added, Has
  <2> QED
    BY <2>1, Zenon DEF StoreInv, AckedIsStored
<1>13. StoredIsOnFile' /\ OnFileIsStored'
  BY <1>1, <1>6, FilesStay, Zenon
<1>14. GoneIsNowhere'
  <2>1. \A h : /\ h \in HashesOf(torrents') => h \in HashesOf(torrents) \/ Brings(task[t], h)
               /\ Brings(task'[t], h) => Brings(task[t], h)
    <3>1. \A h \in HashesOf(torrents') : h \in HashesOf(torrents) \/ h = task[t].entry.hash
      BY <1>2, AddedHashes, ZenonT(30)
    <3>2. \A h : Brings(task[t], h) <=> h = task[t].entry.hash
      BY <1>1, Zenon DEF Brings
    <3>3. \A h : Brings(task'[t], h) => Brings(task[t], h)
      BY <1>1, Zenon DEF Brings
    <3> QED
      BY <3>1, <3>2, <3>3, Zenon
  <2> QED
    BY <1>1, <2>1, GoneStays, Zenon
<1> QED
  BY <1>4, <1>5, <1>9, <1>10, <1>11, <1>12, <1>13, <1>14, Zenon DEF StoreInv

\* update_db takes its copy of the torrent.
LEMMA TakeCopyKeeps ==
  ASSUME NEW t \in Tasks, TakeCopy(t), task[t].pc \in {"bytes", "copy"},
         UNCHANGED <<running, torrents, content, file, restoring, acked, gone, blurred>>
  PROVE  Kept
<1> SUFFICES ASSUME StoreInv PROVE StoreInv'
  BY Zenon DEF Kept
<1>1. /\ UNCHANGED <<running, torrents, content, file>> /\ restoring' = restoring
      /\ acked' = acked /\ blurred' = blurred /\ gone' = gone
      /\ OnlyMoves(t)
      /\ task'[t].pc = "put" /\ task'[t].op = task[t].op
      /\ task'[t].id = task[t].id /\ task'[t].entry.hash = task[t].entry.hash
  BY Zenon DEF StoreInv, Shape, TakeCopy, GoOn, OnlyMoves
<1>2. Shape'
  <2>1. StageIsRight(task'[t])
    BY <1>1, Zenon DEF StoreInv, Shape, StageIsRight
  <2> QED
    BY <1>1, <2>1, ShapeStays, Zenon DEF StoreInv, Shape
<1>3. RestoreIsAlone'
  BY <1>1, AloneStays, Zenon
<1>4. WritesKept /\ FlushesKept
  BY <1>1, ClaimsGoOn, Zenon
<1>5. ReturnsKept
  BY <1>1, ReturnsStay, Zenon DEF ReturnsKept
<1>6. \A h : Brings(task'[t], h) => Brings(task[t], h)
  BY <1>1, Zenon DEF Brings
<1> QED
  BY <1>1, <1>2, <1>3, <1>4, <1>5, <1>6, CallMoves, Zenon DEF StoreInv

\* The copy goes into the store.
LEMMA PutKeeps ==
  ASSUME NEW t \in Tasks, Put(t)
  PROVE  Kept
<1> SUFFICES ASSUME StoreInv PROVE StoreInv'
  BY Zenon DEF Kept
<1>1. /\ running' = running /\ torrents' = torrents /\ file' = file
      /\ restoring' = restoring /\ acked' = acked /\ gone' = gone
      /\ OnlyMoves(t)
      /\ task'[t].pc = "flush" /\ task'[t].op = task[t].op
      /\ task'[t].id = task[t].id /\ task'[t].entry.hash = task[t].entry.hash
      /\ task[t].pc = "put"
  BY Zenon DEF StoreInv, Shape, OnlyMoves, Put, At, GoTo, GoOn, disk
<1>2. task[t].op \in {"add", "restore", "update"} /\ task[t].id \in Ids
  BY <1>1, Zenon DEF StoreInv, Shape, StageIsRight
<1>3. /\ Added(content', content, task[t].id, task[t].entry)
      /\ IsDb(content) => IsDb(content')
  BY <1>2, AddDb, Zenon DEF Put
<1>4. /\ blurred \subseteq blurred'
      /\ \/ task[t].id \in DOMAIN torrents /\ torrents[task[t].id] = task[t].entry
         \/ /\ task[t].entry.hash \in blurred'
            /\ \A h : Has(torrents, task[t].id, h) \/ Has(content, task[t].id, h) => h \in blurred'
  BY Zenon DEF Put, Stale, HashAt, Has
<1>5. ~ Returning(restoring, task, task[t].id)
  BY <1>1, ReturnsNoMore, Zenon
<1>6. \A i : i # task[t].id => /\ i \in DOMAIN content' <=> i \in DOMAIN content
                               /\ i \in DOMAIN content => content'[i] = content[i]
  BY <1>3, Zenon DEF Added
<1>7. task[t].id \in DOMAIN content' /\ content'[task[t].id] = task[t].entry
  BY <1>3, Zenon DEF Added
<1>8. Shape' /\ OneTorrentPerHash'
  <2>1. StageIsRight(task'[t])
    BY <1>1, <1>2, Zenon DEF StageIsRight
  <2>2. IsDb(content') /\ IsDb(file'.db)
    BY <1>1, <1>3, Zenon DEF StoreInv, Shape
  <2> QED
    BY <1>1, <2>1, <2>2, ShapeStays, Zenon DEF StoreInv, OneTorrentPerHash
<1>9. RestoreIsAlone'
  BY <1>1, <1>5, <1>6, AloneStays, Zenon
<1>10. ASSUME NEW i, i # task[t].id, NEW h
       PROVE  /\ Writing(task, i, h) => Writing(task', i, h)
              /\ AddWriting(task, i, h) => AddWriting(task', i, h)
  <2>1. ~ Writes(task[t], i, h) /\ ~ AddWrites(task[t], i, h)
    BY <1>10, Zenon DEF Writes, AddWrites
  <2> QED
    BY <1>1, <2>1, OthersKeep, Zenon
<1>11. ASSUME NEW i, NEW h
       PROVE  /\ Removing(task, i, h) => Removing(task', i, h)
              /\ Flushing(task, h) => Flushing(task', h)
              /\ Deleting(task, h) => Deleting(task', h)
              /\ Returning(restoring, task, i) => Returning(restoring', task', i)
  <2>1. ~ Removes(task[t], i, h) /\ ~ Flushes(task[t], h) /\ ~ Deletes(task[t], h)
    BY <1>1, Zenon DEF Removes, Flushes, Deletes
  <2> QED
    BY <1>1, <2>1, OthersKeep, ReturnsStay, Zenon
<1>12. Flushing(task', task[t].entry.hash)
  BY <1>1, <1>2, Zenon DEF Flushing, Flushes
<1>13. ManagedIsStored' /\ ManagedIdIsTaken'
  <2>1. ASSUME NEW i \in DOMAIN torrents, torrents[i].hash \notin blurred'
        PROVE  /\ Same(torrents, content', i) \/ Writing(task', i, torrents[i].hash)
               /\ i \in DOMAIN content' \/ AddWriting(task', i, torrents[i].hash)
    <3>1. CASE i = task[t].id
      BY <1>4, <1>7, <2>1, <3>1, Zenon DEF Has, Same
    <3>2. CASE i # task[t].id
      <4>1. Same(torrents, content, i) \/ Writing(task, i, torrents[i].hash)
        BY <1>4, <2>1, Zenon DEF StoreInv, ManagedIsStored
      <4>2. i \in DOMAIN content \/ AddWriting(task, i, torrents[i].hash)
        BY <1>4, <2>1, Zenon DEF StoreInv, ManagedIdIsTaken
      <4> QED
        BY <1>6, <1>10, <3>2, <4>1, <4>2, Zenon DEF Same
    <3> QED
      BY <3>1, <3>2, Zenon
  <2> QED
    BY <1>1, <2>1, Zenon DEF ManagedIsStored, ManagedIdIsTaken
<1>14. StoredIsManaged'
  <2> SUFFICES ASSUME NEW i \in DOMAIN content', content'[i].hash \notin blurred'
               PROVE  \/ Same(torrents, content', i)
                      \/ /\ Has(torrents, i, content'[i].hash)
                         /\ Writing(task', i, content'[i].hash)
                      \/ Returning(restoring', task', i)
                      \/ Removing(task', i, content'[i].hash)
    BY <1>1, Zenon DEF StoredIsManaged
  <2>1. CASE i = task[t].id
    BY <1>4, <1>7, <2>1, Zenon DEF Same
  <2>2. CASE i # task[t].id
    <3>1. i \in DOMAIN content /\ content'[i] = content[i]
      BY <1>6, <2>2, Zenon
    <3>2. \/ Same(torrents, content, i)
          \/ Has(torrents, i, content[i].hash) /\ Writing(task, i, content[i].hash)
          \/ Returning(restoring, task, i)
          \/ Removing(task, i, content[i].hash)
      BY <1>4, <3>1, Zenon DEF StoreInv, StoredIsManaged
    <3> QED
      BY <1>10, <1>11, <2>2, <3>1, <3>2, Zenon DEF Same
  <2> QED
    BY <2>1, <2>2, Zenon
<1>15. AckedIsStored'
  <2> SUFFICES ASSUME NEW h \in acked, h \notin blurred'
               PROVE  /\ h \in HashesOf(file.db)
                      /\ running => \E i \in DOMAIN content' :
                           /\ content'[i].hash = h
                           /\ Has(torrents, i, h) \/ Returning(restoring', task', i)
    BY <1>1, Zenon DEF AckedIsStored
  <2>1. ASSUME NEW i \in DOMAIN content, content[i].hash = h,
               Has(torrents, i, h) \/ Returning(restoring, task, i)
        PROVE  /\ i \in DOMAIN content' /\ content'[i].hash = h
               /\ Has(torrents, i, h) \/ Returning(restoring', task', i)
    <3>1. CASE i = task[t].id
      BY <1>4, <1>5, <1>7, <2>1, <3>1, Zenon DEF Has
    <3>2. CASE i # task[t].id
      BY <1>6, <1>11, <2>1, <3>2, Zenon
    <3> QED
      BY <3>1, <3>2, Zenon
  <2> QED
    BY <1>4, <2>1, Zenon DEF StoreInv, AckedIsStored
<1>16. StoredIsOnFile'
  <2> SUFFICES ASSUME NEW h \in HashesOf(content'), h \notin blurred'
               PROVE  h \in HashesOf(file.db) \/ Flushing(task', h)
    BY <1>1, Zenon DEF StoredIsOnFile
  <2>1. h \in HashesOf(content) \/ h = task[t].entry.hash
    BY <1>3, AddedHashes, Zenon
  <2> QED
    BY <1>4, <1>11, <1>12, <2>1, Zenon DEF StoreInv, StoredIsOnFile
<1>17. OnFileIsStored'
  <2> SUFFICES ASSUME running, NEW h \in HashesOf(file.db), h \notin blurred'
               PROVE  h \in HashesOf(content') \/ Deleting(task', h)
    BY <1>1, Zenon DEF OnFileIsStored
  <2>1. CASE Deleting(task, h)
    BY <1>11, <2>1, Zenon
  <2>2. CASE h \in HashesOf(content) /\ ~ Has(content, task[t].id, h)
    BY <1>3, <2>2, AddedHashes, Zenon
  <2>3. CASE Has(content, task[t].id, h)
    <3>1. CASE task[t].entry.hash = h
      BY <1>7, <3>1, Zenon DEF HashesOf
    <3>2. CASE task[t].entry.hash # h
      <4>1. torrents[task[t].id] = task[t].entry /\ h \notin blurred
        BY <1>4, <2>3, Zenon
      <4>2. Removing(task, task[t].id, h)
        BY <1>5, <2>3, <3>2, <4>1, Zenon DEF StoreInv, StoredIsManaged, Same, Has
      <4>3. Deleting(task, h)
        BY <4>2, Zenon DEF StoreInv, Shape, StageIsRight, Removing, Removes, Deleting, Deletes
      <4> QED
        BY <1>11, <4>3, Zenon
    <3> QED
      BY <3>1, <3>2, Zenon
  <2> QED
    BY <1>4, <2>1, <2>2, <2>3, Zenon DEF StoreInv, OnFileIsStored
<1>18. GoneIsNowhere'
  <2>1. \A h \in HashesOf(content') : h \in HashesOf(content) \/ Brings(task[t], h)
    <3>1. \A h \in HashesOf(content') : h \in HashesOf(content) \/ h = task[t].entry.hash
      BY <1>3, AddedHashes, Zenon
    <3> QED
      BY <1>1, <3>1, Zenon DEF Brings
  <2>2. \A h : ~ Brings(task'[t], h)
    BY <1>1, Zenon DEF Brings
  <2> QED
    BY <1>1, <1>4, <2>1, <2>2, GoneStays, Zenon
<1> QED
  BY <1>8, <1>9, <1>13, <1>14, <1>15, <1>16, <1>17, <1>18, Zenon DEF StoreInv

\* flush() opens its temporary file.
LEMMA FlushOpenKeeps ==
  ASSUME NEW t \in Tasks, FlushOpen(t)
  PROVE  Kept
<1> SUFFICES ASSUME StoreInv PROVE StoreInv'
  BY Zenon DEF Kept
<1>1. /\ UNCHANGED <<running, torrents, content, file>> /\ restoring' = restoring
      /\ acked' = acked /\ blurred' = blurred /\ gone' = gone
      /\ OnlyMoves(t)
      /\ task'[t].pc = "rename" /\ task'[t].op = task[t].op
      /\ task'[t].id = task[t].id /\ task'[t].entry.hash = task[t].entry.hash
      /\ task[t].pc = "flush"
  BY Zenon DEF StoreInv, Shape, OnlyMoves, At, GoTo, GoOn, FlushOpen, disk, history
<1>2. Shape'
  <2>1. StageIsRight(task'[t])
    BY <1>1, Zenon DEF StoreInv, Shape, StageIsRight
  <2> QED
    BY <1>1, <2>1, ShapeStays, Zenon DEF StoreInv, Shape
<1>3. RestoreIsAlone'
  BY <1>1, AloneStays, Zenon
<1>4. WritesKept /\ FlushesKept
  BY <1>1, ClaimsGoOn, Zenon
<1>5. ReturnsKept
  BY <1>1, ReturnsStay, Zenon DEF ReturnsKept
<1>6. \A h : ~ Brings(task'[t], h)
  BY <1>1, Zenon DEF Brings
<1> QED
  BY <1>1, <1>2, <1>3, <1>4, <1>5, <1>6, CallMoves, Zenon DEF StoreInv

\* The temporary file becomes session.json.
LEMMA FlushRenameKeeps ==
  ASSUME NEW t \in Tasks, FlushRename(t)
  PROVE  Kept
<1> SUFFICES ASSUME StoreInv PROVE StoreInv'
  BY Zenon DEF Kept
<1>1. /\ running' = running /\ torrents' = torrents /\ content' = content
      /\ restoring' = restoring /\ acked' = acked /\ gone' = gone /\ blurred' = blurred
      /\ OnlyMoves(t)
      /\ task'[t].pc = (IF task[t].op = "delete" THEN "rmFiles" ELSE "reply")
      /\ task'[t].op = task[t].op
      /\ task'[t].id = task[t].id /\ task'[t].entry.hash = task[t].entry.hash
      /\ task[t].pc = "rename"
      /\ file'.db = content
  BY Zenon DEF StoreInv, Shape, OnlyMoves, At, GoTo, GoOn, FlushRename, history
<1>2. task'[t].pc \in {"rmFiles", "reply"}
  BY <1>1, Zenon
<1>3. Shape' /\ running
  <2>1. StageIsRight(task'[t])
    BY <1>1, Zenon DEF StoreInv, Shape, StageIsRight
  <2> QED
    BY <1>1, <2>1, ShapeStays, Zenon DEF StoreInv, Shape
<1>4. RestoreIsAlone'
  BY <1>1, <1>2, AloneStays, Zenon
<1>5. WritesKept
  <2>1. ASSUME NEW id, NEW h
        PROVE  /\ ~ Writes(task[t], id, h) /\ ~ AddWrites(task[t], id, h)
               /\ ~ Removes(task[t], id, h)
    BY <1>1, Zenon DEF Writes, AddWrites, Removes
  <2> QED
    BY <1>1, <2>1, OthersKeep, Zenon DEF WritesKept
<1>6. ReturnsKept
  BY <1>1, ReturnsStay, Zenon DEF ReturnsKept
<1>7. OneTorrentPerHash' /\ ManagedIsStored' /\ ManagedIdIsTaken' /\ StoredIsManaged'
  <2>1. TorrentsKept
    BY <1>1, Zenon DEF TorrentsKept
  <2> QED
    BY <1>1, <1>5, <1>6, <2>1, MapsStay, Zenon
<1>8. AckedIsStored'
  <2> SUFFICES ASSUME NEW h \in acked, h \notin blurred
               PROVE  /\ h \in HashesOf(content)
                      /\ \E i \in DOMAIN content :
                           /\ content[i].hash = h
                           /\ Has(torrents, i, h) \/ Returning(restoring', task', i)
    BY <1>1, Zenon DEF AckedIsStored
  <2>1. PICK i \in DOMAIN content :
          content[i].hash = h /\ (Has(torrents, i, h) \/ Returning(restoring, task, i))
    BY <1>3, Zenon DEF StoreInv, AckedIsStored
  <2> QED
    BY <1>1, <1>6, <2>1, Zenon DEF HashesOf, ReturnsKept
<1>9. StoredIsOnFile' /\ OnFileIsStored'
  BY <1>1, Zenon DEF StoredIsOnFile, OnFileIsStored
<1>10. GoneIsNowhere'
  <2>1. \A h : ~ Brings(task'[t], h)
    BY <1>2, Zenon DEF Brings
  <2> QED
    BY <1>1, <2>1, GoneStays, Zenon
<1> QED
  BY <1>3, <1>4, <1>7, <1>8, <1>9, <1>10, Zenon DEF StoreInv

\* flush() ends with an error.
LEMMA FlushFailsKeeps ==
  ASSUME NEW t \in Tasks, FlushFails(t)
  PROVE  Kept
<1> SUFFICES ASSUME StoreInv PROVE StoreInv'
  BY Zenon DEF Kept
<1>1. /\ running' = running /\ content' = content /\ file' = file
      /\ restoring' = restoring /\ acked' = acked /\ gone' = gone
      /\ OnlyMoves(t) /\ task'[t].pc = "idle" /\ task'[t].op = None
      /\ task[t].pc \in {"flush", "rename"}
  BY Zenon DEF StoreInv, Shape, OnlyMoves, FlushFails, At, Idle, disk
<1>2. /\ Dropped(torrents', torrents, task[t].id) \/ torrents' = torrents
      /\ blurred \subseteq blurred' /\ task[t].entry.hash \in blurred'
      /\ task[t].id \in DOMAIN torrents => torrents[task[t].id].hash \in blurred'
  BY DropDb, Zenon DEF FlushFails, RemoveTorrent, HashAt
<1>3. Shape'
  BY <1>1, ShapeStays, Zenon DEF StoreInv, Shape, StageIsRight
<1>4. RestoreIsAlone'
  BY <1>1, AloneStays, Zenon DEF None
<1>5. WritesKept /\ FlushesKept
  BY <1>1, <1>2, ClaimsStay, Zenon
<1>6. ReturnsKept
  BY <1>1, ReturnsStay, Zenon DEF ReturnsKept
<1>7. TorrentsKept
  BY <1>2, Zenon DEF TorrentsKept, Dropped
<1>8. OneTorrentPerHash' /\ ManagedIsStored' /\ ManagedIdIsTaken' /\ StoredIsManaged'
  BY <1>1, <1>2, <1>5, <1>6, <1>7, MapsStay, Zenon
<1>9. AckedIsStored' /\ StoredIsOnFile' /\ OnFileIsStored'
  BY <1>1, <1>2, <1>5, <1>6, <1>7, AckedStay, FilesStay, Zenon
<1>10. GoneIsNowhere'
  <2>1. \A h : ~ Brings(task'[t], h)
    BY <1>1, Zenon DEF Brings
  <2>2. \A h \in HashesOf(torrents') : h \in HashesOf(torrents)
    BY <1>7, Zenon DEF TorrentsKept, HashesOf
  <2> QED
    BY <1>1, <1>2, <2>1, <2>2, GoneStays, Zenon
<1> QED
  BY <1>3, <1>4, <1>8, <1>9, <1>10, Zenon DEF StoreInv

\* The call returns.
LEMMA ReplyKeeps ==
  ASSUME NEW t \in Tasks, Reply(t)
  PROVE  Kept
<1> SUFFICES ASSUME StoreInv PROVE StoreInv'
  BY Zenon DEF Kept
<1>1. /\ UNCHANGED <<running, torrents, content, file>> /\ restoring' = restoring
      /\ gone' = gone /\ blurred' = blurred
      /\ OnlyMoves(t) /\ task'[t].pc = "idle" /\ task'[t].op = None
      /\ task[t].pc = "reply"
  BY Zenon DEF StoreInv, Shape, OnlyMoves, Reply, At, Idle, disk
<1>2. acked' = acked \/ /\ acked' = acked \cup {task[t].entry.hash}
                        /\ task[t].entry.hash \in HashesOf(torrents) /\ Alone(t)
  BY Zenon DEF Reply
<1>3. Shape'
  BY <1>1, ShapeStays, Zenon DEF StoreInv, Shape, StageIsRight
<1>4. RestoreIsAlone'
  BY <1>1, AloneStays, Zenon DEF None
<1>5. WritesKept /\ FlushesKept
  BY <1>1, ClaimsStay, Zenon
<1>6. ReturnsKept
  BY <1>1, ReturnsStay, Zenon DEF ReturnsKept
<1>7. \A h : ~ Brings(task'[t], h)
  BY <1>1, Zenon DEF Brings
<1>8. /\ OneTorrentPerHash' /\ ManagedIsStored' /\ ManagedIdIsTaken' /\ StoredIsManaged'
      /\ StoredIsOnFile' /\ OnFileIsStored' /\ GoneIsNowhere'
  BY <1>1, <1>5, <1>6, <1>7, CallMoves, Zenon
<1>9. ASSUME NEW h \in acked, h \notin blurred
      PROVE  /\ h \in HashesOf(file.db)
             /\ running => \E i \in DOMAIN content :
                  content[i].hash = h /\ (Has(torrents, i, h) \/ Returning(restoring', task', i))
  BY <1>1, <1>6, <1>9, Zenon DEF StoreInv, AckedIsStored, ReturnsKept
<1>10. ASSUME NEW h, h = task[t].entry.hash, h \in HashesOf(torrents), Alone(t), h \notin blurred
       PROVE  /\ h \in HashesOf(file.db)
              /\ \E i \in DOMAIN content : content[i].hash = h /\ Has(torrents, i, h)
  <2>1. PICK i \in DOMAIN torrents : torrents[i].hash = h
    BY <1>10, Zenon DEF HashesOf
  <2>2. \A u \in Tasks \ {t} : task[u].entry.hash # h
    BY <1>10, Zenon DEF Alone
  <2>3. ~ Writing(task, i, h) /\ ~ Flushing(task, h)
    BY <1>1, <2>2, Zenon DEF Writing, Writes, Flushing, Flushes
  <2>4. Same(torrents, content, i)
    BY <1>10, <2>1, <2>3, Zenon DEF StoreInv, ManagedIsStored
  <2>5. h \in HashesOf(content)
    BY <2>1, <2>4, Zenon DEF Same, HashesOf
  <2>6. h \in HashesOf(file.db)
    BY <1>10, <2>3, <2>5, Zenon DEF StoreInv, StoredIsOnFile
  <2> QED
    BY <2>1, <2>4, <2>6, Zenon DEF Same, Has
<1>11. AckedIsStored'
  <2> SUFFICES ASSUME NEW h \in acked', h \notin blurred
               PROVE  /\ h \in HashesOf(file.db)
                      /\ running => \E i \in DOMAIN content :
                           /\ content[i].hash = h
                           /\ Has(torrents, i, h) \/ Returning(restoring', task', i)
    BY <1>1, Zenon DEF AckedIsStored
  <2>1. CASE h \in acked
    BY <1>9, <2>1, Zenon
  <2>2. CASE h \notin acked
    <3>1. h = task[t].entry.hash /\ h \in HashesOf(torrents) /\ Alone(t)
      BY <1>2, <2>2, Zenon
    <3> QED
      BY <1>10, <3>1, Zenon
  <2> QED
    BY <2>1, <2>2, Zenon
<1> QED
  BY <1>3, <1>4, <1>8, <1>11, Zenon DEF StoreInv

\* delete takes the torrent out of the session.
LEMMA DeleteKeeps ==
  ASSUME NEW t \in Tasks, NEW id \in Ids, Delete(t, id)
  PROVE  Kept
<1> SUFFICES ASSUME StoreInv PROVE StoreInv'
  BY Zenon DEF Kept
<1>1. /\ running' = running /\ content' = content /\ file' = file
      /\ restoring' = restoring /\ gone' = gone /\ blurred' = blurred
      /\ OnlyMoves(t)
      /\ task'[t].pc = "dbRemove" /\ task'[t].op = "delete"
      /\ task'[t].id = id /\ task'[t].entry.hash = torrents[id].hash
      /\ task[t].pc = "idle" /\ Restored /\ running /\ id \in DOMAIN torrents
      /\ acked' = acked \ {torrents[id].hash}
  BY Zenon DEF StoreInv, Shape, OnlyMoves, Delete, Call, At, disk
<1>2. Dropped(torrents', torrents, id)
  BY DropDb, Zenon DEF Delete, RemoveTorrent
<1>3. Shape'
  BY <1>1, ShapeStays, Zenon DEF StoreInv, Shape, StageIsRight
<1>4. RestoreIsAlone'
  BY <1>1, AloneStays, Zenon
<1>5. WritesKept /\ FlushesKept
  BY <1>1, ClaimsStay, Zenon
<1>6. \A i : Returning(restoring, task, i) => Returning(restoring', task', i)
  BY <1>1, ReturnsStay, Zenon
<1>7. OneTorrentPerHash'
  BY <1>2, Zenon DEF StoreInv, OneTorrentPerHash, Dropped
<1>8. ManagedIsStored' /\ ManagedIdIsTaken'
  <2>1. ASSUME NEW i \in DOMAIN torrents', torrents'[i].hash \notin blurred
        PROVE  /\ Same(torrents', content, i) \/ Writing(task', i, torrents'[i].hash)
               /\ i \in DOMAIN content \/ AddWriting(task', i, torrents'[i].hash)
    <3>1. i \in DOMAIN torrents /\ torrents'[i] = torrents[i]
      BY <1>2, Zenon DEF Dropped
    <3>2. Same(torrents, content, i) \/ Writing(task, i, torrents[i].hash)
      BY <2>1, <3>1, Zenon DEF StoreInv, ManagedIsStored
    <3>3. i \in DOMAIN content \/ AddWriting(task, i, torrents[i].hash)
      BY <2>1, <3>1, Zenon DEF StoreInv, ManagedIdIsTaken
    <3> QED
      BY <1>1, <1>5, <2>1, <3>1, <3>2, <3>3, Zenon DEF Same, WritesKept
  <2> QED
    BY <1>1, <2>1, Zenon DEF ManagedIsStored, ManagedIdIsTaken
<1>9. StoredIsManaged'
  <2> SUFFICES ASSUME NEW i \in DOMAIN content, content[i].hash \notin blurred
               PROVE  \/ Same(torrents', content, i)
                      \/ /\ Has(torrents', i, content[i].hash)
                         /\ Writing(task', i, content[i].hash)
                      \/ Returning(restoring', task', i)
                      \/ Removing(task', i, content[i].hash)
    BY <1>1, Zenon DEF StoredIsManaged
  <2>1. \/ Same(torrents, content, i)
        \/ Has(torrents, i, content[i].hash) /\ Writing(task, i, content[i].hash)
        \/ Returning(restoring, task, i)
        \/ Removing(task, i, content[i].hash)
    BY Zenon DEF StoreInv, StoredIsManaged
  <2>2. CASE Returning(restoring, task, i) \/ Removing(task, i, content[i].hash)
    BY <1>1, <1>5, <1>6, <2>2, Zenon DEF WritesKept
  <2>3. CASE i = id /\ Has(torrents, i, content[i].hash)
    BY <1>1, <2>3, Zenon DEF Has, Removing, Removes
  <2>4. CASE i # id
    <3>1. i \in DOMAIN torrents => i \in DOMAIN torrents' /\ torrents'[i] = torrents[i]
      BY <1>2, <2>4, Zenon DEF Dropped
    <3> QED
      BY <1>1, <1>5, <2>1, <2>2, <3>1, Zenon DEF Same, Has, WritesKept
  <2> QED
    BY <2>1, <2>2, <2>3, <2>4, Zenon DEF Same, Has
<1>10. AckedIsStored'
  <2> SUFFICES ASSUME NEW h \in acked, h # torrents[id].hash, h \notin blurred
               PROVE  /\ h \in HashesOf(file.db)
                      /\ running => \E i \in DOMAIN content :
                           /\ content[i].hash = h
                           /\ Has(torrents', i, h) \/ Returning(restoring', task', i)
    BY <1>1, Zenon DEF AckedIsStored
  <2>1. \A i : Has(torrents, i, h) => Has(torrents', i, h)
    BY <1>2, Zenon DEF Dropped, Has
  <2> QED
    BY <1>6, <2>1, Zenon DEF StoreInv, AckedIsStored
<1>11. StoredIsOnFile' /\ OnFileIsStored'
  BY <1>1, <1>5, FilesStay, Zenon
<1>12. GoneIsNowhere'
  <2>1. \A h : ~ Brings(task'[t], h)
    BY <1>1, Zenon DEF Brings
  <2>2. \A h \in HashesOf(torrents') : h \in HashesOf(torrents)
    BY <1>2, DroppedHashes, Zenon
  <2> QED
    BY <1>1, <2>1, <2>2, GoneStays, Zenon
<1> QED
  BY <1>3, <1>4, <1>7, <1>8, <1>9, <1>10, <1>11, <1>12, Zenon DEF StoreInv

\* The store has no entry to drop.
LEMMA DbUnknownKeeps ==
  ASSUME NEW t \in Tasks, DbRemove(t), task[t].id \notin DOMAIN content
  PROVE  Kept
<1> SUFFICES ASSUME StoreInv PROVE StoreInv'
  BY Zenon DEF Kept
<1>1. /\ UNCHANGED <<running, torrents, content, file>> /\ restoring' = restoring
      /\ acked' = acked /\ gone' = gone
      /\ OnlyMoves(t) /\ task'[t].pc = "idle" /\ task'[t].op = None
      /\ task[t].pc = "dbRemove"
  <2>1. /\ UNCHANGED <<running, torrents, content, file>> /\ restoring' = restoring
        /\ acked' = acked /\ gone' = gone
        /\ task' = [task EXCEPT ![t] = Idle] /\ task[t].pc = "dbRemove"
    BY Zenon DEF DbRemove, At, disk
  <2>2. OnlyMoves(t) /\ task'[t].pc = "idle" /\ task'[t].op = None
    BY <2>1, Zenon DEF StoreInv, Shape, OnlyMoves, Idle
  <2> QED
    BY <2>1, <2>2, Zenon
<1>2. blurred \subseteq blurred' /\ task[t].entry.hash \in blurred'
  BY Zenon DEF DbRemove, Confused, HashAt
<1>3. Shape'
  BY <1>1, ShapeStays, Zenon DEF StoreInv, Shape, StageIsRight
<1>4. RestoreIsAlone'
  BY <1>1, AloneStays, Zenon DEF None
<1>5. WritesKept /\ FlushesKept
  BY <1>1, <1>2, ClaimsStay, Zenon
<1>6. ReturnsKept
  BY <1>1, ReturnsStay, Zenon DEF ReturnsKept
<1>7. \A h : ~ Brings(task'[t], h)
  BY <1>1, Zenon DEF Brings
<1> QED
  BY <1>1, <1>2, <1>3, <1>4, <1>5, <1>6, <1>7, CallMoves, Zenon DEF StoreInv

\* The store drops its entry.
LEMMA DbRemoveKeeps ==
  ASSUME NEW t \in Tasks, DbRemove(t), task[t].id \in DOMAIN content
  PROVE  Kept
<1> SUFFICES ASSUME StoreInv PROVE StoreInv'
  BY Zenon DEF Kept
<1>1. /\ running' = running /\ torrents' = torrents /\ file' = file
      /\ restoring' = restoring /\ acked' = acked /\ gone' = gone
      /\ blurred' = blurred \cup Confused(t)
      /\ OnlyMoves(t)
      /\ task'[t].pc = "flush" /\ task'[t].op = task[t].op
      /\ task'[t].id = task[t].id /\ task'[t].entry.hash = content[task[t].id].hash
      /\ task[t].pc = "dbRemove"
  <2>1. /\ running' = running /\ torrents' = torrents /\ file' = file
        /\ restoring' = restoring /\ acked' = acked /\ gone' = gone
        /\ blurred' = blurred \cup Confused(t) /\ task[t].pc = "dbRemove"
        /\ GoOn(t, "flush", task[t].id, content[task[t].id])
    BY Zenon DEF DbRemove, At, disk
  <2>2. /\ OnlyMoves(t)
        /\ task'[t].pc = "flush" /\ task'[t].op = task[t].op
        /\ task'[t].id = task[t].id /\ task'[t].entry.hash = content[task[t].id].hash
    BY <2>1, Zenon DEF StoreInv, Shape, OnlyMoves, GoOn
  <2> QED
    BY <2>1, <2>2, Zenon
<1>2. task[t].op = "delete" /\ \A i : ~ Returning(restoring, task, i)
  <2>1. task[t].op = "delete"
    BY <1>1, Zenon DEF StoreInv, Shape, StageIsRight
  <2> QED
    BY <2>1, NoneReturns, Zenon DEF None
<1>3. /\ Dropped(content', content, task[t].id)
      /\ IsDb(content) => IsDb(content')
  BY DropDb, Zenon DEF DbRemove
<1>4. /\ blurred \subseteq blurred'
      /\ task[t].entry.hash = content[task[t].id].hash \/ task[t].entry.hash \in blurred'
      /\ task[t].id \in DOMAIN torrents => /\ torrents[task[t].id].hash \in blurred'
                                           /\ content[task[t].id].hash \in blurred'
  <2>1. HashAt(content, task[t].id) = {content[task[t].id].hash}
    BY Zenon DEF HashAt
  <2>2. task[t].id \in DOMAIN torrents =>
          HashAt(torrents, task[t].id) = {torrents[task[t].id].hash}
    BY Zenon DEF HashAt
  <2>3. /\ blurred \subseteq blurred'
        /\ task[t].entry.hash = content[task[t].id].hash \/ task[t].entry.hash \in blurred'
    BY <1>1, <2>1, Zenon DEF Confused
  <2>4. task[t].id \in DOMAIN torrents => /\ torrents[task[t].id].hash \in blurred'
                                          /\ content[task[t].id].hash \in blurred'
    BY <1>1, <2>1, <2>2, Zenon DEF Confused
  <2> QED
    BY <2>3, <2>4, Zenon
<1>5. \A i : i # task[t].id => /\ i \in DOMAIN content' <=> i \in DOMAIN content
                               /\ i \in DOMAIN content => content'[i] = content[i]
  BY <1>3, Zenon DEF Dropped
<1>6. task[t].id \notin DOMAIN content'
  BY <1>3, Zenon DEF Dropped
<1>7. Shape' /\ OneTorrentPerHash'
  <2>1. StageIsRight(task'[t])
    BY <1>1, <1>2, Zenon DEF StageIsRight
  <2>2. IsDb(content') /\ IsDb(file'.db)
    BY <1>1, <1>3, Zenon DEF StoreInv, Shape
  <2> QED
    BY <1>1, <2>1, <2>2, ShapeStays, Zenon DEF StoreInv, OneTorrentPerHash
<1>8. RestoreIsAlone'
  BY <1>1, <1>2, AloneStays, Zenon
<1>9. ASSUME NEW i, NEW h
      PROVE  /\ Writing(task, i, h) => Writing(task', i, h)
             /\ AddWriting(task, i, h) => AddWriting(task', i, h)
             /\ Flushing(task, h) => Flushing(task', h)
             /\ Removing(task, i, h) /\ i # task[t].id => Removing(task', i, h)
  <2>1. /\ ~ Writes(task[t], i, h) /\ ~ AddWrites(task[t], i, h) /\ ~ Flushes(task[t], h)
        /\ Removes(task[t], i, h) => i = task[t].id
    BY <1>1, Zenon DEF Writes, AddWrites, Flushes, Removes
  <2> QED
    BY <1>1, <2>1, OthersKeep, Zenon
<1>10. Deleting(task', content[task[t].id].hash)
  BY <1>1, <1>2, Zenon DEF Deleting, Deletes
<1>11. ManagedIsStored' /\ ManagedIdIsTaken'
  <2>1. ASSUME NEW i \in DOMAIN torrents, torrents[i].hash \notin blurred'
        PROVE  /\ Same(torrents, content', i) \/ Writing(task', i, torrents[i].hash)
               /\ i \in DOMAIN content' \/ AddWriting(task', i, torrents[i].hash)
    <3>1. i # task[t].id
      BY <1>4, <2>1, Zenon
    <3>2. Same(torrents, content, i) \/ Writing(task, i, torrents[i].hash)
      BY <1>4, <2>1, Zenon DEF StoreInv, ManagedIsStored
    <3>3. i \in DOMAIN content \/ AddWriting(task, i, torrents[i].hash)
      BY <1>4, <2>1, Zenon DEF StoreInv, ManagedIdIsTaken
    <3> QED
      BY <1>5, <1>9, <3>1, <3>2, <3>3, Zenon DEF Same
  <2> QED
    BY <1>1, <2>1, Zenon DEF ManagedIsStored, ManagedIdIsTaken
<1>12. StoredIsManaged'
  <2> SUFFICES ASSUME NEW i \in DOMAIN content', content'[i].hash \notin blurred'
               PROVE  \/ Same(torrents, content', i)
                      \/ /\ Has(torrents, i, content'[i].hash)
                         /\ Writing(task', i, content'[i].hash)
                      \/ Returning(restoring', task', i)
                      \/ Removing(task', i, content'[i].hash)
    BY <1>1, Zenon DEF StoredIsManaged
  <2>1. i # task[t].id /\ i \in DOMAIN content /\ content'[i] = content[i]
    BY <1>5, <1>6, Zenon
  <2>2. \/ Same(torrents, content, i)
        \/ Has(torrents, i, content[i].hash) /\ Writing(task, i, content[i].hash)
        \/ Removing(task, i, content[i].hash)
    BY <1>2, <1>4, <2>1, Zenon DEF StoreInv, StoredIsManaged
  <2> QED
    BY <1>9, <2>1, <2>2, Zenon DEF Same
<1>13. AckedIsStored'
  <2> SUFFICES ASSUME NEW h \in acked, h \notin blurred'
               PROVE  /\ h \in HashesOf(file.db)
                      /\ running => \E i \in DOMAIN content' :
                           content'[i].hash = h /\ Has(torrents, i, h)
    BY <1>1, Zenon DEF AckedIsStored
  <2>1. ASSUME NEW i \in DOMAIN content, content[i].hash = h, Has(torrents, i, h)
        PROVE  i \in DOMAIN content' /\ content'[i].hash = h
    <3>1. i # task[t].id
      BY <1>4, <2>1, Zenon DEF Has
    <3> QED
      BY <1>5, <2>1, <3>1, Zenon
  <2> QED
    BY <1>2, <1>4, <2>1, Zenon DEF StoreInv, AckedIsStored
<1>14. StoredIsOnFile'
  <2> SUFFICES ASSUME NEW h \in HashesOf(content'), h \notin blurred'
               PROVE  h \in HashesOf(file.db) \/ Flushing(task', h)
    BY <1>1, Zenon DEF StoredIsOnFile
  <2>1. h \in HashesOf(content)
    BY <1>3, DroppedHashes, Zenon
  <2> QED
    BY <1>4, <1>9, <2>1, Zenon DEF StoreInv, StoredIsOnFile
<1>15. OnFileIsStored'
  <2> SUFFICES ASSUME running, NEW h \in HashesOf(file.db), h \notin blurred'
               PROVE  h \in HashesOf(content') \/ Deleting(task', h)
    BY <1>1, Zenon DEF OnFileIsStored
  <2>1. CASE Deleting(task, h)
    <3>1. Deletes(task[t], h) => h = content[task[t].id].hash
      BY <1>4, Zenon DEF Deletes
    <3> QED
      BY <1>1, <1>10, <2>1, <3>1, OthersKeep, Zenon
  <2>2. CASE h \in HashesOf(content)
    <3>1. Has(content, task[t].id, h) => h = content[task[t].id].hash
      BY Zenon DEF Has
    <3> QED
      BY <1>3, <1>10, <2>2, <3>1, DroppedHashes, Zenon
  <2> QED
    BY <1>4, <2>1, <2>2, Zenon DEF StoreInv, OnFileIsStored
<1>16. GoneIsNowhere'
  <2>1. \A h \in HashesOf(content') : h \in HashesOf(content)
    BY <1>3, DroppedHashes, Zenon
  <2>2. \A h : ~ Brings(task'[t], h)
    BY <1>1, Zenon DEF Brings
  <2> QED
    BY <1>1, <1>4, <2>1, <2>2, GoneStays, Zenon
<1> QED
  BY <1>7, <1>8, <1>11, <1>12, <1>13, <1>14, <1>15, <1>16, Zenon DEF StoreInv

\* The delete is answered.
LEMMA RemoveFilesKeeps ==
  ASSUME NEW t \in Tasks, RemoveFiles(t)
  PROVE  Kept
<1> SUFFICES ASSUME StoreInv PROVE StoreInv'
  BY Zenon DEF Kept
<1>1. /\ UNCHANGED <<running, torrents, content, file>> /\ restoring' = restoring
      /\ acked' = acked /\ blurred' = blurred
      /\ OnlyMoves(t) /\ task'[t].pc = "idle" /\ task'[t].op = None
      /\ task[t].pc = "rmFiles"
  BY Zenon DEF StoreInv, Shape, OnlyMoves, RemoveFiles, At, Idle
<1>2. \A h \in gone' : h \in gone \/ /\ h = task[t].entry.hash /\ Alone(t)
                                     /\ h \notin HashesOf(torrents)
  BY Zenon DEF RemoveFiles
<1>3. Shape' /\ running
  BY <1>1, ShapeStays, Zenon DEF StoreInv, Shape, StageIsRight
<1>4. RestoreIsAlone'
  BY <1>1, AloneStays, Zenon DEF None
<1>5. WritesKept /\ FlushesKept
  BY <1>1, ClaimsStay, Zenon
<1>6. ReturnsKept /\ TorrentsKept
  BY <1>1, ReturnsStay, Zenon DEF ReturnsKept, TorrentsKept
<1>7. OneTorrentPerHash' /\ ManagedIsStored' /\ ManagedIdIsTaken' /\ StoredIsManaged'
  BY <1>1, <1>5, <1>6, MapsStay, Zenon
<1>8. AckedIsStored' /\ StoredIsOnFile' /\ OnFileIsStored'
  BY <1>1, <1>5, <1>6, AckedStay, FilesStay, Zenon
<1>9. ASSUME NEW h, h = task[t].entry.hash, Alone(t), h \notin HashesOf(torrents), h \notin blurred
      PROVE  /\ h \notin HashesOf(content) /\ h \notin HashesOf(file.db)
             /\ \A u \in Tasks \ {t} : ~ Brings(task[u], h)
  <2>1. \A u \in Tasks \ {t} : task[u].entry.hash # h
    BY <1>9, Zenon DEF Alone
  <2>2. task[t].op = "delete"
    BY <1>1, Zenon DEF StoreInv, Shape, StageIsRight
  <2>3. \A i : ~ Returning(restoring, task, i)
    BY <2>2, NoneReturns, Zenon DEF None
  <2>4. ~ Deleting(task, h) /\ \A i : ~ Removing(task, i, h)
    BY <1>1, <2>1, Zenon DEF Deleting, Deletes, Removing, Removes
  <2>5. h \notin HashesOf(content)
    <3> SUFFICES ASSUME NEW i \in DOMAIN content, content[i].hash = h PROVE FALSE
      BY Zenon DEF HashesOf
    <3>1. i \in DOMAIN torrents /\ torrents[i].hash = h
      BY <1>9, <2>3, <2>4, Zenon DEF StoreInv, StoredIsManaged, Same, Has
    <3> QED
      BY <1>9, <3>1, Zenon DEF HashesOf
  <2>6. h \notin HashesOf(file.db)
    BY <1>3, <1>9, <2>4, <2>5, Zenon DEF StoreInv, OnFileIsStored
  <2> QED
    BY <2>1, <2>5, <2>6, Zenon DEF Brings
<1>10. GoneIsNowhere'
  <2> SUFFICES ASSUME NEW h \in gone', h \notin blurred
               PROVE  /\ h \notin HashesOf(content) /\ h \notin HashesOf(file.db)
                      /\ h \notin HashesOf(torrents)
                      /\ \A u \in Tasks : ~ Brings(task'[u], h)
    BY <1>1, Zenon DEF GoneIsNowhere
  <2>1. /\ h \notin HashesOf(content) /\ h \notin HashesOf(file.db) /\ h \notin HashesOf(torrents)
        /\ \A u \in Tasks \ {t} : ~ Brings(task[u], h)
    <3>1. CASE h \in gone
      BY <3>1, Zenon DEF StoreInv, GoneIsNowhere
    <3>2. CASE h \notin gone
      BY <1>2, <1>9, <3>2, Zenon
    <3> QED
      BY <3>1, <3>2, Zenon
  <2>2. ~ Brings(task'[t], h)
    BY <1>1, Zenon DEF Brings
  <2> QED
    BY <1>1, <2>1, <2>2, Zenon DEF OnlyMoves
<1> QED
  BY <1>3, <1>4, <1>7, <1>8, <1>10, Zenon DEF StoreInv

\* pause or unpause changes the torrent.
LEMMA ChangePausedKeeps ==
  ASSUME NEW t \in Tasks, NEW id \in Ids, ChangePaused(t, id)
  PROVE  Kept
<1> SUFFICES ASSUME StoreInv PROVE StoreInv'
  BY Zenon DEF Kept
<1>1. /\ running' = running /\ content' = content /\ file' = file
      /\ restoring' = restoring /\ acked' = acked /\ gone' = gone /\ blurred' = blurred
      /\ OnlyMoves(t)
      /\ task'[t].pc = "copy" /\ task'[t].op = "update"
      /\ task'[t].id = id /\ task'[t].entry.hash = torrents[id].hash
      /\ task[t].pc = "idle" /\ Restored /\ running
  BY Zenon DEF StoreInv, Shape, OnlyMoves, ChangePaused, Call, At, Toggled, disk, history
<1>2. /\ id \in DOMAIN torrents /\ DOMAIN torrents' = DOMAIN torrents
      /\ \A i \in DOMAIN torrents \ {id} : torrents'[i] = torrents[i]
      /\ \A i \in DOMAIN torrents : torrents'[i].hash = torrents[i].hash
  BY Zenon DEF ChangePaused, Toggled
<1>3. Shape'
  BY <1>1, ShapeStays, Zenon DEF StoreInv, Shape, StageIsRight
<1>4. RestoreIsAlone'
  BY <1>1, AloneStays, Zenon
<1>5. WritesKept /\ FlushesKept
  BY <1>1, ClaimsStay, Zenon
<1>6. \A i : Returning(restoring, task, i) => Returning(restoring', task', i)
  BY <1>1, ReturnsStay, Zenon
<1>7. Writing(task', id, torrents[id].hash)
  BY <1>1, Zenon DEF Writing, Writes
<1>8. OneTorrentPerHash'
  BY <1>2, Zenon DEF StoreInv, OneTorrentPerHash
<1>9. ManagedIsStored' /\ ManagedIdIsTaken'
  <2>1. ASSUME NEW i \in DOMAIN torrents, torrents[i].hash \notin blurred
        PROVE  /\ Same(torrents', content, i) \/ Writing(task', i, torrents[i].hash)
               /\ i \in DOMAIN content \/ AddWriting(task', i, torrents[i].hash)
    <3>1. Same(torrents, content, i) \/ Writing(task, i, torrents[i].hash)
      BY <2>1, Zenon DEF StoreInv, ManagedIsStored
    <3>2. i \in DOMAIN content \/ AddWriting(task, i, torrents[i].hash)
      BY <2>1, Zenon DEF StoreInv, ManagedIdIsTaken
    <3> QED
      BY <1>1, <1>2, <1>5, <1>7, <2>1, <3>1, <3>2, Zenon DEF Same, WritesKept
  <2> QED
    BY <1>1, <1>2, <2>1, Zenon DEF ManagedIsStored, ManagedIdIsTaken
<1>10. \A i, h : Has(torrents', i, h) <=> Has(torrents, i, h)
  BY <1>2, Zenon DEF Has
<1>11. StoredIsManaged'
  <2> SUFFICES ASSUME NEW i \in DOMAIN content, content[i].hash \notin blurred
               PROVE  \/ Same(torrents', content, i)
                      \/ /\ Has(torrents', i, content[i].hash)
                         /\ Writing(task', i, content[i].hash)
                      \/ Returning(restoring', task', i)
                      \/ Removing(task', i, content[i].hash)
    BY <1>1, Zenon DEF StoredIsManaged
  <2>1. \/ Same(torrents, content, i)
        \/ Has(torrents, i, content[i].hash) /\ Writing(task, i, content[i].hash)
        \/ Returning(restoring, task, i)
        \/ Removing(task, i, content[i].hash)
    BY Zenon DEF StoreInv, StoredIsManaged
  <2>2. CASE Same(torrents, content, i)
    <3>1. CASE i = id
      BY <1>7, <1>10, <2>2, <3>1, Zenon DEF Same, Has
    <3>2. CASE i # id
      BY <1>2, <2>2, <3>2, Zenon DEF Same
    <3> QED
      BY <3>1, <3>2, Zenon
  <2> QED
    BY <1>1, <1>5, <1>6, <1>10, <2>1, <2>2, Zenon DEF WritesKept
<1>12. AckedIsStored'
  BY <1>1, <1>6, <1>10, Zenon DEF StoreInv, AckedIsStored
<1>13. StoredIsOnFile' /\ OnFileIsStored'
  BY <1>1, <1>5, FilesStay, Zenon
<1>14. GoneIsNowhere'
  <2>1. \A h \in HashesOf(torrents') : h \in HashesOf(torrents)
    BY <1>2, Zenon DEF HashesOf
  <2>2. \A h : Brings(task'[t], h) => h \in HashesOf(torrents)
    BY <1>1, <1>2, ZenonT(30) DEF Brings, HashesOf
  <2> QED
    BY <1>1, <2>1, <2>2, GoneStays, Zenon
<1> QED
  BY <1>3, <1>4, <1>8, <1>9, <1>11, <1>12, <1>13, <1>14, Zenon DEF StoreInv

\* A stored entry is added back.
LEMMA RestoreKeeps ==
  ASSUME NEW t \in Tasks, NEW id \in Ids, RestoreOne(t, id), task' # task
  PROVE  Kept
<1> SUFFICES ASSUME StoreInv PROVE StoreInv'
  BY Zenon DEF Kept
<1>1. /\ UNCHANGED <<running, torrents, content, file>> /\ acked' = acked
      /\ gone' = gone /\ blurred' = blurred /\ restoring' = restoring \ {id}
      /\ OnlyMoves(t)
      /\ task'[t].pc = "insert" /\ task'[t].op = "restore"
      /\ task'[t].id = id /\ task'[t].entry = content[id]
      /\ task[t].pc = "idle" /\ running /\ id \in restoring
  <2>1. /\ UNCHANGED <<running, torrents, content, file>> /\ acked' = acked
        /\ gone' = gone /\ blurred' = blurred /\ restoring' = restoring \ {id}
        /\ task' = [task EXCEPT ![t] = AddAgain(id)]
        /\ task[t].pc = "idle" /\ running /\ id \in restoring
    BY Zenon DEF RestoreOne, At, disk
  <2>2. /\ OnlyMoves(t)
        /\ task'[t].pc = "insert" /\ task'[t].op = "restore"
        /\ task'[t].id = id /\ task'[t].entry = content[id]
    BY <2>1, Zenon DEF StoreInv, Shape, OnlyMoves, AddAgain
  <2> QED
    BY <2>1, <2>2, Zenon
<1>2. id \in DOMAIN content
  BY <1>1, Zenon DEF StoreInv, RestoreIsAlone
<1>3. Shape'
  BY <1>1, ShapeStays, Zenon DEF StoreInv, Shape, StageIsRight
<1>4. WritesKept /\ FlushesKept
  BY <1>1, ClaimsStay, Zenon
<1>5. ReturnsKept
  <2> SUFFICES ASSUME NEW i \in DOMAIN content, Returning(restoring, task, i)
               PROVE  Returning(restoring', task', i)
    BY Zenon DEF ReturnsKept
  <2>1. CASE i = id
    BY <1>1, <2>1, Zenon DEF Returning, Returns
  <2>2. CASE i # id
    BY <1>1, <2>2, Zenon DEF Returning, Returns, OnlyMoves
  <2> QED
    BY <2>1, <2>2, Zenon
<1>6. RestoreIsAlone'
  <2>1. \A u \in Tasks : task[u].op \in {None, "restore"}
    BY <1>1, Zenon DEF StoreInv, RestoreIsAlone
  <2>2. \A u \in Tasks : task'[u].op \in {None, "restore"}
    BY <1>1, <2>1, Zenon DEF OnlyMoves
  <2>3. \A u \in Tasks \ {t} : /\ task'[u] = task[u]
                               /\ task[u].op = "restore" => task[u].id \notin restoring
    BY <1>1, Zenon DEF StoreInv, RestoreIsAlone, OnlyMoves
  <2>4. ASSUME NEW u \in Tasks, task'[u].op = "restore"
        PROVE  /\ task'[u].id \notin restoring'
               /\ \A v \in Tasks \ {u} : task'[v].op = "restore" => task'[v].id # task'[u].id
    <3>1. CASE u = t
      BY <1>1, <2>3, <3>1, Zenon
    <3>2. CASE u # t
      <4>1. task[u].op = "restore" /\ task'[u] = task[u] /\ task[u].id \notin restoring
        BY <2>3, <2>4, <3>2, Zenon
      <4>2. \A v \in Tasks \ {u} : task[v].op = "restore" => task[v].id # task[u].id
        BY <4>1, Zenon DEF StoreInv, RestoreIsAlone
      <4> QED
        BY <1>1, <2>3, <4>1, <4>2, Zenon
    <3> QED
      BY <3>1, <3>2, Zenon
  <2>5. ASSUME NEW u \in Tasks, NEW i \in Ids, Returns(task'[u], i)
        PROVE  i \in DOMAIN content /\ content[i] = task'[u].entry
    <3>1. CASE u = t
      BY <1>1, <1>2, <2>5, <3>1, Zenon DEF Returns
    <3>2. CASE u # t
      <4>1. task'[u] = task[u]
        BY <2>3, <3>2, Zenon
      <4>2. Returns(task[u], i) => i \in DOMAIN content /\ content[i] = task[u].entry
        BY Zenon DEF StoreInv, RestoreIsAlone
      <4> QED
        BY <2>5, <4>1, <4>2, Zenon
    <3> QED
      BY <3>1, <3>2, Zenon
  <2>6. restoring' \subseteq DOMAIN content
    BY <1>1, Zenon DEF StoreInv, RestoreIsAlone
  <2> QED
    BY <1>1, <2>2, <2>4, <2>5, <2>6, Zenon DEF RestoreIsAlone
<1>7. \A h : Brings(task'[t], h) => h \in HashesOf(content)
  BY <1>1, <1>2, Zenon DEF Brings, HashesOf
<1> QED
  BY <1>1, <1>3, <1>4, <1>5, <1>6, <1>7, CallMoves, Zenon DEF StoreInv

\* The metadata of a stored entry is not found.
LEMMA RestoreSkipsKeeps ==
  ASSUME NEW t \in Tasks, NEW id \in Ids, RestoreOne(t, id), task' = task
  PROVE  Kept
<1> SUFFICES ASSUME StoreInv PROVE StoreInv'
  BY Zenon DEF Kept
<1>1. /\ UNCHANGED <<running, torrents, content, file>> /\ acked' = acked
      /\ gone' = gone /\ restoring' = restoring \ {id}
      /\ running /\ id \in restoring /\ OnlyMoves(t)
  BY Zenon DEF StoreInv, Shape, RestoreOne, OnlyMoves, disk
<1>2. blurred' = blurred \cup {content[id].hash}
  <2>1. task # [task EXCEPT ![t] = AddAgain(id)]
    <3>1. DOMAIN task = Tasks /\ task[t].pc = "idle"
      BY Zenon DEF StoreInv, Shape, RestoreOne, At
    <3>2. [task EXCEPT ![t] = AddAgain(id)][t].pc = "insert"
      BY <3>1, Zenon DEF AddAgain
    <3> QED
      BY <3>1, <3>2, Zenon
  <2> QED
    BY <2>1, Zenon DEF RestoreOne
<1>3. Shape'
  BY <1>1, Zenon DEF StoreInv, Shape
<1>4. RestoreIsAlone'
  <2>1. restoring' \subseteq restoring /\ restoring # {}
    BY <1>1, Zenon
  <2> QED
    BY <1>1, <2>1, Zenon DEF StoreInv, RestoreIsAlone
<1>5. WritesKept /\ FlushesKept
  BY Zenon DEF WritesKept, FlushesKept
<1>6. ReturnsKept
  BY <1>1, <1>2, Zenon DEF ReturnsKept, Returning
<1>7. blurred \subseteq blurred'
  BY <1>2, Zenon
<1>8. \A h : Brings(task'[t], h) => Brings(task[t], h)
  BY Zenon
<1> QED
  BY <1>1, <1>3, <1>4, <1>5, <1>6, <1>7, <1>8, CallMoves, Zenon DEF StoreInv

\* The process dies.
LEMMA CrashKeeps ==
  ASSUME Crash
  PROVE  Kept
<1> SUFFICES ASSUME StoreInv PROVE StoreInv'
  BY Zenon DEF Kept
<1>1. /\ acked' = acked /\ gone' = gone /\ blurred' = blurred
      /\ DOMAIN torrents' = {} /\ DOMAIN content' = {} /\ restoring' = {} /\ ~running'
      /\ file'.db = file.db
      /\ DOMAIN task' = Tasks /\ \A t \in Tasks : task'[t].pc = "idle" /\ task'[t].op = None
      /\ IsDb(content')
  BY Zenon DEF StoreInv, Shape, Crash, Empty, Idle, IsDb, history
<1>2. HashesOf(torrents') = {} /\ HashesOf(content') = {}
  BY <1>1, Zenon DEF HashesOf
<1>3. Shape' /\ OneTorrentPerHash'
  BY <1>1, Zenon DEF StoreInv, Shape, StageIsRight, OneTorrentPerHash
<1>4. RestoreIsAlone'
  BY <1>1, Zenon DEF RestoreIsAlone, Returns, None
<1>5. ManagedIsStored' /\ ManagedIdIsTaken' /\ StoredIsManaged'
  BY <1>1, Zenon DEF ManagedIsStored, ManagedIdIsTaken, StoredIsManaged
<1>6. AckedIsStored'
  BY <1>1, Zenon DEF StoreInv, AckedIsStored
<1>7. StoredIsOnFile' /\ OnFileIsStored'
  BY <1>1, <1>2, Zenon DEF StoredIsOnFile, OnFileIsStored
<1>8. GoneIsNowhere'
  BY <1>1, <1>2, Zenon DEF StoreInv, GoneIsNowhere, Brings
<1> QED
  BY <1>3, <1>4, <1>5, <1>6, <1>7, <1>8, Zenon DEF StoreInv

\* session.json is read.
LEMMA OpenStoreKeeps ==
  ASSUME OpenStore
  PROVE  Kept
<1> SUFFICES ASSUME StoreInv PROVE StoreInv'
  BY Zenon DEF Kept
<1>1. /\ torrents' = torrents /\ file' = file /\ acked' = acked
      /\ gone' = gone /\ blurred' = blurred /\ task' = task
      /\ content' = file.db /\ restoring' = DOMAIN file.db /\ running' = TRUE
      /\ \A t \in Tasks : task[t].pc = "idle" /\ task[t].op = None
      /\ DOMAIN torrents = {}
  BY Zenon DEF StoreInv, Shape, StageIsRight, OpenStore, StreamAll, disk, history
<1>2. Shape' /\ OneTorrentPerHash'
  BY <1>1, Zenon DEF StoreInv, Shape, OneTorrentPerHash
<1>3. RestoreIsAlone'
  <2>1. \A t \in Tasks : task'[t].op = None /\ task'[t].op # "restore"
    BY <1>1, Zenon DEF None
  <2>2. restoring' \subseteq DOMAIN content'
    BY <1>1, Zenon
  <2> QED
    BY <2>1, <2>2, Zenon DEF RestoreIsAlone, Returns
<1>4. ManagedIsStored' /\ ManagedIdIsTaken'
  BY <1>1, Zenon DEF ManagedIsStored, ManagedIdIsTaken
<1>5. StoredIsManaged'
  BY <1>1, Zenon DEF StoredIsManaged, Returning
<1>6. AckedIsStored'
  <2>1. \A h \in acked \ blurred : h \in HashesOf(file.db)
    BY Zenon DEF StoreInv, AckedIsStored
  <2>2. \A i \in DOMAIN content' : Returning(restoring', task', i)
    BY <1>1, Zenon DEF Returning
  <2>3. \A h \in HashesOf(file.db) : \E i \in DOMAIN content' : content'[i].hash = h
    BY <1>1, Zenon DEF HashesOf
  <2> QED
    BY <1>1, <2>1, <2>2, <2>3, ZenonT(30) DEF AckedIsStored
<1>7. StoredIsOnFile' /\ OnFileIsStored'
  BY <1>1, Zenon DEF StoredIsOnFile, OnFileIsStored
<1>8. GoneIsNowhere'
  BY <1>1, Zenon DEF StoreInv, GoneIsNowhere
<1> QED
  BY <1>2, <1>3, <1>4, <1>5, <1>6, <1>7, <1>8, Zenon DEF StoreInv

\* What does not touch the variables the invariant speaks of keeps it.
storeVars == <<running, torrents, content, file, task, restoring, acked, gone, blurred>>

LEMMA StoreUnchanged ==
  ASSUME UNCHANGED storeVars
  PROVE  Kept
<1> SUFFICES ASSUME StoreInv PROVE StoreInv'
  BY Zenon DEF Kept
<1>1. Shape' /\ OneTorrentPerHash' /\ RestoreIsAlone'
  BY ZenonT(30) DEF StoreInv, storeVars, Shape, OneTorrentPerHash, RestoreIsAlone
<1>2. ManagedIsStored' /\ ManagedIdIsTaken' /\ StoredIsManaged'
  BY Zenon DEF StoreInv, storeVars, ManagedIsStored, ManagedIdIsTaken, StoredIsManaged
<1>3. AckedIsStored' /\ StoredIsOnFile' /\ OnFileIsStored' /\ GoneIsNowhere'
  BY Zenon DEF StoreInv, storeVars, AckedIsStored, StoredIsOnFile, OnFileIsStored, GoneIsNowhere
<1> QED
  BY <1>1, <1>2, <1>3, Zenon DEF StoreInv

----------------------------------------------------------------------------
(* The theorems *)

LEMMA StoreInit == Init => StoreInv
<1> SUFFICES ASSUME Init PROVE StoreInv
  BY Zenon
<1>1. /\ DOMAIN torrents = {} /\ DOMAIN content = {} /\ DOMAIN file.db = {}
      /\ IsDb(content) /\ IsDb(file.db)
  BY Zenon DEF Init, Empty, IsDb
<1>2. DOMAIN task = Tasks /\ \A t \in Tasks : task[t].pc = "idle" /\ task[t].op = None
  BY Zenon DEF Init, Idle
<1>3. restoring = {} /\ acked = {} /\ gone = {} /\ running
  BY Zenon DEF Init
<1>4. Shape /\ OneTorrentPerHash /\ RestoreIsAlone
  BY <1>1, <1>2, <1>3, Zenon DEF Shape, StageIsRight, OneTorrentPerHash, RestoreIsAlone, Returns,
     None
<1>5. ManagedIsStored /\ ManagedIdIsTaken /\ StoredIsManaged
  BY <1>1, ZenonT(60) DEF ManagedIsStored, ManagedIdIsTaken, StoredIsManaged
<1>6. AckedIsStored /\ StoredIsOnFile /\ OnFileIsStored /\ GoneIsNowhere
  BY <1>1, <1>3, Zenon DEF AckedIsStored, StoredIsOnFile, OnFileIsStored, GoneIsNowhere, HashesOf
<1> QED
  BY <1>4, <1>5, <1>6, Zenon DEF StoreInv

\* One step per action of the specification.
LEMMA StoreNext == StoreInv /\ [Next]_vars => StoreInv'
<1> SUFFICES ASSUME StoreInv, [Next]_vars PROVE StoreInv'
  BY Zenon
<1>1. ASSUME NEW t \in Tasks, NEW h \in Hashes, AddTorrent(t, h, FALSE) PROVE StoreInv'
  BY <1>1, AddTorrentKeeps, Zenon DEF Kept
<1>2. ASSUME NEW t \in Tasks, NEW id \in Ids, Delete(t, id) PROVE StoreInv'
  BY <1>2, DeleteKeeps, Zenon DEF Kept
<1>3. ASSUME NEW t \in Tasks, NEW id \in Ids, ChangePaused(t, id) PROVE StoreInv'
  BY <1>3, ChangePausedKeeps, Zenon DEF Kept
<1>4. ASSUME NEW t \in Tasks, NEW id \in Ids, RestoreOne(t, id) PROVE StoreInv'
  BY <1>4, RestoreKeeps, RestoreSkipsKeeps, Zenon DEF Kept
<1>5. ASSUME NEW t \in Tasks, Step(t) PROVE StoreInv'
  <2>1. CASE NextId(t)
    BY <2>1, NextIdKeeps, Zenon DEF Kept
  <2>2. CASE AddInsert(t)
    <3>1. CASE /\ Existing(task[t].id, task[t].entry.hash) = {}
               /\ PutTorrent(task[t].id, task[t].entry) /\ GoTo(t, "bytes") /\ UNCHANGED blurred
      BY <2>2, <3>1, AddInsertedKeeps, Zenon DEF Kept
    <3>2. CASE /\ task' = [task EXCEPT ![t] = Idle] /\ UNCHANGED torrents
               /\ blurred' = IF task[t].op = "restore"
                             THEN blurred \cup {task[t].entry.hash} ELSE blurred
      BY <2>2, <3>2, AddAnsweredKeeps, Zenon DEF Kept
    <3> QED
      BY <2>2, <3>1, <3>2, Zenon DEF AddInsert
  <2>3. CASE WriteBytes(t)
    BY <2>3, TakeCopyKeeps, ZenonT(30) DEF Kept, WriteBytes, At, history
  <2>4. CASE Put(t)
    BY <2>4, PutKeeps, Zenon DEF Kept
  <2>5. CASE FlushOpen(t)
    BY <2>5, FlushOpenKeeps, Zenon DEF Kept
  <2>6. CASE FlushRename(t)
    BY <2>6, FlushRenameKeeps, Zenon DEF Kept
  <2>7. CASE Reply(t)
    BY <2>7, ReplyKeeps, Zenon DEF Kept
  <2>8. CASE DbRemove(t)
    BY <2>8, DbUnknownKeeps, DbRemoveKeeps, Zenon DEF Kept
  <2>9. CASE RemoveFiles(t)
    BY <2>9, RemoveFilesKeeps, Zenon DEF Kept
  <2>10. CASE CopyTorrent(t)
    BY <2>10, TakeCopyKeeps, Zenon DEF Kept, CopyTorrent, At, history, disk
  <2> QED
    BY <1>5, <2>1, <2>2, <2>3, <2>4, <2>5, <2>6, <2>7, <2>8, <2>9, <2>10, Zenon DEF Step
<1>6. ASSUME NEW t \in Tasks, FlushFails(t) PROVE StoreInv'
  BY <1>6, FlushFailsKeeps, Zenon DEF Kept
<1>7. CASE DataLands
  BY <1>7, StoreUnchanged, Zenon DEF Kept, DataLands, storeVars, history
<1>8. CASE Crash
  BY <1>8, CrashKeeps, Zenon DEF Kept
<1>9. CASE OpenStore
  BY <1>9, OpenStoreKeeps, Zenon DEF Kept
<1>10. CASE UNCHANGED vars
  BY <1>10, StoreUnchanged, Zenon DEF Kept, vars, storeVars
<1> QED
  BY <1>1, <1>2, <1>3, <1>4, <1>5, <1>6, <1>7, <1>8, <1>9, <1>10, Zenon DEF Next

\* The store, the session and session.json stay related as StoreInv says whatever calls
\* overlap, fail or are cut short by a crash.
THEOREM StoreInvariant == Spec => []StoreInv
BY StoreInit, StoreNext, PTL DEF Spec

\* add_torrent_internal never gives one hash two ids, whatever calls overlap and whatever the
\* store restores.
THEOREM HashesStayUnique == Spec => []OneTorrentPerHash
<1>1. StoreInv => OneTorrentPerHash
  BY Zenon DEF StoreInv
<1> QED
  BY <1>1, StoreInvariant, PTL

\* Once no call is in progress the store holds the managed torrents as they are, but for those
\* a stale or failed write touched and those a start could not add back, whose entries stay.
THEOREM StoreStaysInStep == Spec => []StoreMirrorsSession
<1>1. StoreInv => StoreMirrorsSession
  <2> SUFFICES ASSUME StoreInv, running, Quiet, restoring = {}
               PROVE  Clear(content) = Clear(torrents)
    BY Zenon DEF StoreMirrorsSession
  <2>1. ASSUME NEW id \in DOMAIN torrents, torrents[id].hash \notin blurred PROVE Same(torrents, content, id)
    BY <2>1, Zenon DEF StoreInv, ManagedIsStored, Writing, Writes, Quiet, At
  <2>2. ASSUME NEW id \in DOMAIN content, content[id].hash \notin blurred PROVE Same(torrents, content, id)
    BY <2>2, Zenon DEF StoreInv, StoredIsManaged, Writing, Writes, Removing, Removes, Quiet, At,
       Returning, Returns
  <2> QED
    BY <2>1, <2>2, Zenon DEF Clear, Same
<1> QED
  BY <1>1, StoreInvariant, PTL

\* Among the ids of the store one is the largest.
LEMMA LargestId ==
  ASSUME NEW S, S \subseteq Ids, S # {}
  PROVE  /\ Max(S) \in S
         /\ \A y \in S : Max(S) >= y
<1>1. MaxId \in Nat /\ S \subseteq Nat /\ \A x \in S : x <= MaxId
  BY StoreAssumptions DEF Ids
<1> DEFINE T == {MaxId - x : x \in S}
<1>2. T \subseteq Nat /\ T # {}
  <2>1. \A x \in S : MaxId - x \in Nat
    BY <1>1
  <2>2. PICK x \in S : TRUE
    BY Zenon
  <2>3. MaxId - x \in T
    BY Zenon
  <2> QED
    BY <2>1, <2>3, Zenon
<1>3. PICK m \in T : \A y \in T : ~ (<<y, m>> \in OpToRel(<, Nat))
  BY <1>2, NatLessThanWellFounded, WFMin, Zenon
<1>4. \A y \in T : ~ (y < m)
  BY <1>2, <1>3, Zenon DEF OpToRel
<1>5. PICK x \in S : m = MaxId - x
  BY Zenon
<1>6. ASSUME NEW y \in S PROVE x >= y
  <2>1. MaxId - y \in T
    BY Zenon
  <2>2. ~ (MaxId - y < MaxId - x)
    BY <1>4, <1>5, <2>1, Zenon
  <2> HIDE DEF T
  <2>3. x \in Nat /\ y \in Nat /\ MaxId \in Nat
    BY <1>1, Zenon
  <2> QED
    BY <2>2, <2>3
<1> QED
  BY <1>6, Zenon DEF Max

\* A torrent whose add was answered is in session.json, one whose delete was answered is not,
\* and next_id names no managed torrent once no add is in progress.
THEOREM AnswersStayDurable == Spec => []AnsweredIsDurable
<1>1. StoreInv => AckedIsOnFile
  BY Zenon DEF StoreInv, AckedIsStored, AckedIsOnFile
<1>2. StoreInv => DeletedStaysDeleted
  BY Zenon DEF StoreInv, GoneIsNowhere, DeletedStaysDeleted
<1>3. StoreInv => NextIdIsFree
  <2> SUFFICES ASSUME StoreInv, \A t \in Tasks : ~ Adding(t),
                      \A i \in DOMAIN torrents : torrents[i].hash \notin blurred
               PROVE  NextIdOf(content) \notin DOMAIN torrents
    BY Zenon DEF NextIdIsFree
  <2>1. DOMAIN torrents \subseteq DOMAIN content
    BY Zenon DEF StoreInv, ManagedIdIsTaken, AddWriting, AddWrites, Adding
  <2>2. DOMAIN content \subseteq Ids /\ content = [i \in DOMAIN content |-> content[i]]
    BY Zenon DEF StoreInv, Shape, IsDb
  <2>3. CASE content = Empty
    BY <2>1, <2>3, Zenon DEF Empty
  <2>4. CASE content # Empty
    <3>1. DOMAIN content # {}
      BY <2>2, <2>4, Zenon DEF Empty
    <3>2. Max(DOMAIN content) \in Nat /\ \A y \in DOMAIN content : Max(DOMAIN content) >= y
      BY <2>2, <3>1, LargestId, StoreAssumptions DEF Ids
    <3>3. Max(DOMAIN content) + 1 \notin DOMAIN content
      BY <2>2, <3>2, StoreAssumptions DEF Ids
    <3> QED
      BY <2>1, <2>4, <3>3, Zenon DEF NextIdOf
  <2> QED
    BY <2>3, <2>4, Zenon
<1>4. StoreInv => AnsweredIsDurable
  BY <1>1, <1>2, <1>3, Zenon DEF AnsweredIsDurable
<1> QED
  BY <1>4, StoreInvariant, PTL

----------------------------------------------------------------------------
(***************************************************************************)
(* That the first claimed piece of every file is enough of a sample, for   *)
(* any number of pieces, any layout of files, crashes and deletions.       *)
(***************************************************************************)

\* A layout: the files cover the pieces, and nothing else.
Layout ==
    /\ LastPiece \in Nat
    /\ \A f \in DOMAIN Files : Files[f] \subseteq Pieces
    /\ \A p \in Pieces : FilesOf(p) # {}

\* The piece lies in a file of which nothing can be read.
Lost(p) == \E f \in DOMAIN Files : p \in Files[f] /\ \A q \in Files[f] : data[q] = "none"

\* A claim that is wrong only about lost files, which a validation notices.
Sound(S) == \A p \in S : data[p] = "good" \/ Lost(p)

ResumeShape ==
    /\ data \in [Pieces -> {"none", "good", "bad"}]
    /\ bitv.have \subseteq Pieces /\ claims \subseteq Pieces /\ have \subseteq Pieces
    /\ \A S \in queued : S \subseteq Pieces
    /\ \A S \in late : S \subseteq Pieces
    /\ erase \in {<<>>, <<"bitv">>, <<"files">>, <<"bitv", "files">>}

\* The record is sound at all times, and so are the claims under validation; a checked torrent
\* and what its flusher holds claim only what is there.
RecordIsSound == Sound(bitv.have)
ClaimsAreSound ==
    phase = "validate" => Sound(claims) /\ bitv.have \subseteq claims \cup Good
CheckedIsGood ==
    phase \in {"lengths", "up", "errored"} =>
        /\ bitv.have \subseteq Good /\ have \subseteq Good
        /\ \A S \in queued : S \subseteq Good

ResumeInv ==
    /\ ResumeShape
    /\ ~crossed => RecordIsSound /\ ClaimsAreSound /\ CheckedIsGood

\* A set of pieces has a first one.
LEMMA FirstPiece ==
  ASSUME Layout, NEW S, S \subseteq Pieces, S # {}
  PROVE  Min(S) \in S
<1>1. S \subseteq Nat
  BY DEF Layout, Pieces
<1>2. PICK m \in S : \A y \in S : ~ (<<y, m>> \in OpToRel(<, Nat))
  BY <1>1, NatLessThanWellFounded, WFMin, Zenon
<1>3. \A y \in S : ~ (y < m)
  BY <1>1, <1>2, Zenon DEF OpToRel
<1>4. \A y \in S : m <= y
  BY <1>1, <1>3
<1> QED
  BY <1>4, Zenon DEF Min

\* A sound claim that survives its validation is right: had it a piece in a lost file, the
\* first piece it claims of that file would not have been read.
LEMMA SampleSuffices ==
  ASSUME Layout, Sound(claims), claims \subseteq Pieces, NEW S \in Samples,
         \A p \in S : ~ CheckPieceFails(p)
  PROVE  claims \subseteq Good
<1> SUFFICES ASSUME NEW p \in claims, data[p] # "good" PROVE FALSE
  BY Zenon DEF Good
<1>1. PICK f \in DOMAIN Files : p \in Files[f] /\ \A q \in Files[f] : data[q] = "none"
  BY Zenon DEF Sound, Lost
<1> DEFINE m == Min(Files[f] \cap claims)
<1>2. m \in Files[f] \cap claims
  BY <1>1, FirstPiece, Zenon
<1>3. m \in S
  BY <1>1, ZenonT(30) DEF Samples, Mandatory
<1> QED
  BY <1>1, <1>2, <1>3, Zenon DEF CheckPieceFails

LEMMA ResumeStarts == ASSUME Layout, ResumeInit PROVE ResumeInv
BY Zenon
   DEF ResumeInit, ResumeInv, ResumeShape, RecordIsSound, ClaimsAreSound, CheckedIsGood, Sound, NoBitv

LEMMA ShapeNext ==
  ASSUME Layout, ResumeShape, ResumeNext
  PROVE  ResumeShape'
<1> USE DEF ResumeShape
<1>1. CASE Load
  BY <1>1, Zenon DEF Load
<1>2. CASE ValidateFastresume
  BY <1>2 DEF ValidateFastresume, NoBitv
<1>3. CASE FullCheck
  BY <1>3, Zenon DEF FullCheck, Store, Whole, Good
<1>4. CASE EnsureLengths
  <2>1. PICK sel \in SUBSET DOMAIN Files :
          data' = [p \in Pieces |-> IF data[p] = "none" /\ FilesOf(p) \subseteq sel
                                    THEN "bad" ELSE data[p]]
    BY <1>4, Zenon DEF EnsureLengths
  <2>2. data' \in [Pieces -> {"none", "good", "bad"}]
    BY <2>1, Zenon
  <2> QED
    BY <1>4, <2>2, Zenon DEF EnsureLengths
<1>5. ASSUME NEW p \in Pieces, PieceCompleted(p) PROVE ResumeShape'
  <2>1. have' = have \cup {p} /\ \A S \in queued' : S \in queued \/ S = have'
    BY <1>5, Zenon DEF PieceCompleted, TryFlush
  <2> QED
    BY <1>5, <2>1, Zenon DEF PieceCompleted
<1>6. CASE Flush
  BY <1>6 DEF Flush, Whole, NoBitv
<1>7. ASSUME NEW S \in SUBSET Pieces, LateFlush(S) PROVE ResumeShape'
  BY <1>7 DEF LateFlush, Whole, NoBitv
<1>8. CASE FatalError
  BY <1>8, Zenon DEF FatalError, DropBitv
<1>9. CASE StartErrored
  BY <1>9, Zenon DEF StartErrored, NoBitv
<1>10. CASE Erase
  <2>1. erase' \in {<<>>, <<"files">>}
    <3>1. CASE erase = <<"bitv">>
      BY <1>10, <3>1 DEF Erase
    <3>2. CASE erase = <<"files">>
      BY <1>10, <3>2 DEF Erase
    <3>3. CASE erase = <<"bitv", "files">>
      BY <1>10, <3>3 DEF Erase
    <3> QED
      BY <1>10, <3>1, <3>2, <3>3, Zenon DEF Erase
  <2>2. /\ data' \in [Pieces -> {"none", "good", "bad"}]
        /\ bitv'.have \subseteq Pieces
    BY <1>10 DEF Erase, NoBitv
  <2> QED
    BY <1>10, <2>1, <2>2, Zenon DEF Erase
<1>11. CASE Add \/ Restart
  BY <1>11, Zenon DEF Add, Restart
<1>12. CASE Die
  BY <1>12, Zenon DEF Die
<1>13. ASSUME NEW files \in BOOLEAN, DeleteTorrent(files) PROVE ResumeShape'
  BY <1>13 DEF DeleteTorrent, DropBitv
<1>14. ASSUME NEW f \in DOMAIN Files, NEW how \in Touch, TouchFile(f, how) PROVE ResumeShape'
  BY <1>14, Zenon DEF TouchFile
<1> QED
  BY <1>1, <1>2, <1>3, <1>4, <1>5, <1>6, <1>7, <1>8, <1>9, <1>10, <1>11, <1>12, <1>13, <1>14, ZenonT(30)
     DEF ResumeNext

\* Where the data stays, or only gains good pieces while the record claims none but such.
LEMMA SoundNext ==
  ASSUME Layout, Touch \subseteq {"lose"}, ResumeInv, ResumeNext, ~ crossed'
  PROVE  RecordIsSound' /\ ClaimsAreSound' /\ CheckedIsGood'
<1> USE DEF RecordIsSound, ClaimsAreSound, CheckedIsGood
<1>1. CASE Load
  <2>1. /\ ~ crossed /\ data' = data /\ bitv' = bitv
        /\ (phase' = "validate" /\ claims' = bitv.have) \/ phase' = "fullCheck"
    BY <1>1, Zenon DEF Load
  <2>2. Sound(bitv.have)
    BY <2>1, Zenon DEF ResumeInv
  <2>3. Sound(bitv.have)'
    BY <2>1, <2>2, Zenon DEF Sound, Lost
  <2>4. phase' \notin {"lengths", "up", "errored"}
    BY <2>1, Zenon
  <2>5. phase' = "validate" => Sound(claims)' /\ bitv'.have \subseteq claims'
    BY <2>1, <2>3, Zenon
  <2> QED
    BY <2>3, <2>4, <2>5, Zenon
<1>2. CASE ValidateFastresume
  <2>0. ~ crossed /\ data' = data /\ phase = "validate" /\ Good' = Good
    BY <1>2, Zenon DEF ValidateFastresume, Good
  <2>1. Sound(claims) /\ bitv.have \subseteq claims \cup Good /\ claims \subseteq Pieces
    BY <2>0, Zenon DEF ResumeInv, ResumeShape
  <2>2. PICK S \in Samples :
         IF \E p \in S : CheckPieceFails(p)
         THEN phase' = "fullCheck" /\ bitv' = NoBitv
         ELSE phase' = "lengths" /\ have' = claims /\ queued' = {} /\ bitv' = bitv
    BY <1>2, Zenon DEF ValidateFastresume
  <2>3. CASE \E p \in S : CheckPieceFails(p)
    BY <2>2, <2>3 DEF Sound, NoBitv
  <2>4. CASE ~ \E p \in S : CheckPieceFails(p)
    <3>1. claims \subseteq Good
      BY <2>1, <2>4, SampleSuffices, Zenon
    <3>2. bitv'.have \subseteq Good
      BY <2>1, <2>2, <2>4, <3>1, Zenon
    <3>3. Sound(bitv.have)'
      BY <3>2, <2>0, Zenon DEF Sound, Good
    <3> QED
      BY <2>0, <2>2, <2>4, <3>1, <3>2, <3>3, Zenon
  <2> QED
    BY <2>3, <2>4, Zenon
<1>3. CASE FullCheck
  BY <1>3, Zenon DEF FullCheck, Store, Whole, Good, Sound
<1>4. CASE EnsureLengths
  <2>1. /\ bitv.have \subseteq Good /\ have \subseteq Good
        /\ \A S \in queued : S \subseteq Good
    BY <1>4, Zenon DEF ResumeInv, EnsureLengths
  <2>2. Good \subseteq Good'
    BY <1>4, Zenon DEF EnsureLengths, Good
  <2>3. bitv' = bitv /\ have' = have /\ queued' = queued /\ phase' = "up"
    BY <1>4, Zenon DEF EnsureLengths
  <2> QED
    BY <2>1, <2>2, <2>3, Zenon DEF Sound, Good
<1>5. ASSUME NEW p \in Pieces, PieceCompleted(p)
      PROVE  RecordIsSound' /\ ClaimsAreSound' /\ CheckedIsGood'
  <2>1. /\ bitv.have \subseteq Good /\ have \subseteq Good
        /\ \A S \in queued : S \subseteq Good
    BY <1>5, Zenon DEF ResumeInv, PieceCompleted
  <2>2. Good \subseteq Good' /\ p \in Good'
    BY <1>5, Zenon DEF ResumeInv, ResumeShape, PieceCompleted, Good
  <2>3. /\ bitv' = bitv /\ have' = have \cup {p} /\ phase' = "up"
        /\ \A S \in queued' : S \in queued \/ S = have'
    BY <1>5, Zenon DEF PieceCompleted, TryFlush
  <2>4. have' \subseteq Good'
    BY <2>1, <2>2, <2>3, Zenon
  <2>5. \A S \in queued' : S \subseteq Good'
    BY <2>1, <2>2, <2>3, <2>4, Zenon
  <2>6. bitv'.have \subseteq Good'
    BY <2>1, <2>2, <2>3, Zenon
  <2> QED
    BY <2>3, <2>4, <2>5, <2>6, Zenon DEF Sound, Good
<1>6. CASE Flush
  <2>1. /\ bitv.have \subseteq Good /\ have \subseteq Good
        /\ \A S \in queued : S \subseteq Good
    BY <1>6, Zenon DEF ResumeInv, Flush, Loaded
  <2>2. /\ Good' = Good /\ bitv'.have \subseteq Good
        /\ phase' = phase /\ have' = have /\ queued' = {} /\ phase # "validate"
    BY <1>6, <2>1, SMTT(20) DEF Flush, Loaded, Good, Whole, NoBitv
  <2> QED
    BY <2>1, <2>2, Zenon DEF Sound, Good
<1>7. ASSUME NEW S \in SUBSET Pieces, LateFlush(S)
      PROVE  RecordIsSound' /\ ClaimsAreSound' /\ CheckedIsGood'
  <2>0. ~ crossed /\ ((bitv' = Whole(S) /\ S \subseteq Good) \/ bitv' = NoBitv)
    BY <1>7 DEF LateFlush
  <2>1. /\ ~ crossed /\ data' = data /\ Good' = Good /\ phase' = phase
        /\ claims' = claims /\ have' = have /\ queued' = queued
    BY <1>7, <2>0, Zenon DEF LateFlush, Good
  <2>2. bitv'.have \subseteq Good
    BY <2>0 DEF Whole, NoBitv
  <2>3. Sound(bitv.have)'
    BY <2>1, <2>2, Zenon DEF Sound, Good
  <2>4. Sound(claims)' <=> Sound(claims)
    BY <2>1, ZenonT(30) DEF Sound, Lost
  <2> QED
    BY <2>1, <2>2, <2>3, <2>4, Zenon DEF ResumeInv
<1>8. CASE FatalError
  BY <1>8, Zenon DEF ResumeInv, FatalError, DropBitv, Good, Sound
<1>9. CASE StartErrored
  BY <1>9, Zenon DEF StartErrored, NoBitv, Sound
<1>10. CASE Erase
  <2>1. CASE Head(erase) = "bitv"
    <3>1. /\ ~ crossed /\ data' = data /\ Good' = Good /\ phase' = phase
          /\ claims' = claims /\ have' = have /\ queued' = queued /\ bitv'.have = {}
      BY <1>10, <2>1 DEF Erase, Good, NoBitv
    <3>2. Sound(claims)' <=> Sound(claims)
      BY <3>1, Zenon DEF Sound, Lost
    <3>3. Sound(bitv.have)'
      BY <3>1, Zenon DEF Sound
    <3> QED
      BY <3>1, <3>2, <3>3, Zenon DEF ResumeInv
  <2>2. CASE Head(erase) # "bitv"
    <3>1. /\ phase = "absent" /\ phase' = "absent" /\ bitv' = bitv
          /\ data' = [p \in Pieces |-> "none"]
      BY <1>10, <2>2, ZenonT(30) DEF Erase
    <3>2. bitv'.have \subseteq Pieces
      BY <3>1, Zenon DEF ResumeInv, ResumeShape
    <3>3. ASSUME NEW p \in Pieces PROVE Lost(p)'
      <4>1. PICK f \in DOMAIN Files : p \in Files[f]
        BY Zenon DEF Layout, FilesOf
      <4>2. \A q \in Files[f] : data'[q] = "none"
        BY <3>1, Zenon DEF Layout
      <4> QED
        BY <4>1, <4>2, Zenon DEF Lost
    <3> QED
      BY <3>1, <3>2, <3>3, Zenon DEF Sound
  <2> QED
    BY <2>1, <2>2, Zenon
<1>11. CASE Add \/ Restart
  BY <1>11, ZenonT(30) DEF ResumeInv, Add, Restart, Sound, Lost
<1>12. CASE Die
  BY <1>12, Zenon DEF ResumeInv, Die, Sound, Lost
<1>13. ASSUME NEW files \in BOOLEAN, DeleteTorrent(files)
       PROVE  RecordIsSound' /\ ClaimsAreSound' /\ CheckedIsGood'
  BY <1>13, Zenon DEF ResumeInv, DeleteTorrent, Sound, Lost
<1>14. ASSUME NEW f \in DOMAIN Files, NEW how \in Touch, TouchFile(f, how)
       PROVE  RecordIsSound' /\ ClaimsAreSound' /\ CheckedIsGood'
  <2>1. /\ phase = "down" /\ phase' = "down" /\ bitv' = bitv /\ ~ crossed
        /\ data' = [p \in Pieces |-> IF p \in Files[f] THEN "none" ELSE data[p]]
    <3>1. how = "lose"
      BY Zenon
    <3> QED
      BY <1>14, <3>1, Zenon DEF TouchFile
  <2>2. Files[f] \subseteq Pieces /\ \A g \in DOMAIN Files : Files[g] \subseteq Pieces
    BY Zenon DEF Layout
  <2>3. ASSUME NEW p \in Pieces, data[p] = "good" \/ Lost(p) PROVE data'[p] = "good" \/ Lost(p)'
    <3>1. CASE p \in Files[f]
      BY <2>1, <2>2, <3>1, Zenon DEF Lost
    <3>2. CASE p \notin Files[f]
      BY <2>1, <2>2, <2>3, <3>2, Zenon DEF Lost
    <3> QED
      BY <3>1, <3>2, Zenon
  <2>4. bitv.have \subseteq Pieces /\ Sound(bitv.have)
    BY <2>1, Zenon DEF ResumeInv, ResumeShape
  <2> QED
    BY <2>1, <2>3, <2>4, Zenon DEF Sound
<1> QED
  BY <1>1, <1>2, <1>3, <1>4, <1>5, <1>6, <1>7, <1>8, <1>9, <1>10, <1>11, <1>12, <1>13, <1>14, ZenonT(30)
     DEF ResumeNext

LEMMA ResumeSteps ==
  ASSUME Layout, Touch \subseteq {"lose"}, ResumeInv, [ResumeNext]_resumeVars
  PROVE  ResumeInv'
<1>1. CASE ResumeNext
  BY <1>1, ShapeNext, SoundNext, ZenonT(30) DEF ResumeInv
<1>2. CASE UNCHANGED resumeVars
  BY <1>2, ZenonT(30)
     DEF resumeVars, ResumeInv, ResumeShape, RecordIsSound, ClaimsAreSound, CheckedIsGood, Sound,
              Lost, Good
<1> QED
  BY <1>1, <1>2, Zenon

\* However many crashes, errors, deletions and re-additions a torrent sees, and whichever of its
\* files are lost meanwhile, what a checked torrent and its record claim is on disk, unless a
\* late write of a dropped bitfield or delete was out of date.  A file whose content changed is
\* outside the theorem: check_piece answers Ok(false) for it, which discards nothing.
THEOREM ResumeStaysTruthful ==
  ASSUME Layout, Touch \subseteq {"lose"}
  PROVE  ResumeSpec => []ResumeIsTruthful
<1>1. ResumeInit => ResumeInv
  BY ResumeStarts, Zenon
<1>2. ResumeInv /\ [ResumeNext]_resumeVars => ResumeInv'
  BY ResumeSteps, Zenon
<1>3. ResumeInv => ResumeIsTruthful
  BY Zenon DEF ResumeInv, CheckedIsGood, ResumeIsTruthful, HaveIsOnDisk, RecordIsTruthful
<1> QED
  BY <1>1, <1>2, <1>3, PTL DEF ResumeSpec
=============================================================================
