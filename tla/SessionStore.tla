---------------------------- MODULE SessionStore ----------------------------
(***************************************************************************)
(* The session's database of torrents and its JSON store.                  *)
(*                                                                         *)
(* `torrents' is SessionDatabase (an id for every managed torrent),        *)
(* `content' the store's in-memory copy, and `file' session.json.  Every   *)
(* API call is a task that goes through the awaits of                      *)
(* add_torrent_internal / delete / pause / unpause, and the steps of two   *)
(* calls interleave at each await.  The store's RwLock is held only while  *)
(* the map is changed and, again, for the whole of flush().                *)
(*                                                                         *)
(* A crash ends the process between any two steps; the files stay.         *)
(* tokio's File::write_all returns once the data is handed to a blocking   *)
(* thread, and flush() renames without waiting for it: after a rename the  *)
(* data may still be on its way (`lagging'), and a crash then leaves a     *)
(* torn file.                                                              *)
(***************************************************************************)
EXTENDS Integers, FiniteSets, FiniteSetsExt, Functions

CONSTANTS Hashes,       \* info hashes
          Tasks,        \* concurrent API calls
          MaxId,        \* bound: ids handed out
          MaxCrashes,   \* bound: crashes of the process
          MaxFailures,  \* bound: I/O errors of the store
          MaxCalls      \* bound: API calls

ASSUME StoreAssumptions == MaxId \in Nat

VARIABLES running,      \* the process is up
          torrents,     \* SessionDatabase: id -> [hash, paused]
          content,      \* db_content.torrents: id -> [hash, paused]
          lock,         \* holder of db_content's write lock across awaits, or None
          file,         \* session.json: [state, db]
          lagging,      \* the last renamed file's data is not written yet
          bytes,        \* hashes with a .torrent file
          task,         \* the calls in progress
          restoring,    \* ids Session::new still has to add back
          crashes, failures, calls,
          acked,        \* history: hashes whose add was answered Added, not deleted since
          gone,         \* history: hashes whose delete was answered, not added since
          blurred       \* history: hashes touched by a stale write or a failed one, or whose
                        \* entry Session::new could not add back

vars == <<running, torrents, content, lock, file, lagging, bytes, task, restoring,
          crashes, failures, calls, acked, gone, blurred>>
disk == <<file, lagging, bytes>>
bounds == <<crashes, failures, calls>>
history == <<acked, gone, blurred>>

None == "none"
NoId == -1
Ids == 0..MaxId
NoEntry == [hash |-> None, paused |-> FALSE]
Empty == [i \in {} |-> 0]
HashAt(db, id) == {db[i].hash : i \in DOMAIN db \cap {id}}
HashesOf(db) == {db[i].hash : i \in DOMAIN db}
InsertAt(db, id, e) == [i \in DOMAIN db \cup {id} |-> IF i = id THEN e ELSE db[i]]

Idle == [pc |-> "idle", op |-> None, id |-> NoId, entry |-> NoEntry]
At(t, pc) == task[t].pc = pc
\* The call goes on at pc, about this id and this torrent.
GoOn(t, pc, id, e) ==
    task' = [task EXCEPT ![t] = [pc |-> pc, op |-> task[t].op, id |-> id, entry |-> e]]
GoTo(t, pc) == GoOn(t, pc, task[t].id, task[t].entry)
\* The call's copy of the torrent is brought up to date, if the session still has it.
TakeCopy(t) ==
    LET id == task[t].id  e == task[t].entry IN
    GoOn(t, "put", id, IF id \in DOMAIN torrents /\ torrents[id].hash = e.hash
                       THEN torrents[id] ELSE e)
Quiet == \A t \in Tasks : At(t, "idle")
Restored == restoring = {} /\ \A t \in Tasks : task[t].op # "restore"
\* A call arrives; calls are served once Session::new has returned.
Call(t) ==
    /\ running /\ Restored /\ At(t, "idle")
    /\ calls < MaxCalls /\ calls' = calls + 1
Adding(t) == task[t].op \in {"add", "restore"}
\* No other call is about the same torrent.
Alone(t) == \A u \in Tasks \ {t} : task[u].entry.hash # task[t].entry.hash

----------------------------------------------------------------------------
(* SessionDatabase *)

PutTorrent(id, e) == torrents' = InsertAt(torrents, id, e)
RemoveTorrent(id) == torrents' = Restrict(torrents, DOMAIN torrents \ {id})

\* A mutant: two torrents of one hash are told apart by their ids.
ExistingById(id, h) == DOMAIN torrents \cap {id}

\* The managed torrent that stops an add: the one with this id, else the one with this hash.
Existing(id, h) == {i \in DOMAIN torrents : i = id \/ torrents[i].hash = h}

----------------------------------------------------------------------------
(* Session::add_torrent *)

\* The torrent's metadata is at hand (a .torrent file, or a resolved magnet).
AddTorrent(t, h, paused) ==
    /\ Call(t)
    /\ task' = [task EXCEPT ![t] = [pc |-> "nextId", op |-> "add", id |-> NoId,
                                    entry |-> [hash |-> h, paused |-> paused]]]
    /\ gone' = gone \ {h}
    /\ UNCHANGED <<running, torrents, content, lock, disk, restoring, crashes, failures, acked, blurred>>

\* next_id: one above the largest id of the store, read under the lock; nothing is reserved.
NextIdOf(db) == IF db = Empty THEN 0 ELSE Max(DOMAIN db) + 1
NextId(t) ==
    /\ At(t, "nextId") /\ lock = None
    /\ NextIdOf(content) \in Ids
    /\ GoOn(t, "insert", NextIdOf(content), task[t].entry)
    /\ UNCHANGED <<running, torrents, content, lock, disk, restoring, bounds, history>>

\* Under the session's lock: an existing torrent is answered, else the new one is inserted.
\* An add whose storage create_and_init cannot open is answered with the error, and nothing is
\* inserted; Session::new only logs that of a torrent it adds back, whose entry stays in the store.
AddInsert(t) ==
    /\ At(t, "insert")
    /\ \/ /\ Existing(task[t].id, task[t].entry.hash) = {}
          /\ PutTorrent(task[t].id, task[t].entry)
          /\ GoTo(t, "bytes")
          /\ UNCHANGED blurred
       \/ /\ task' = [task EXCEPT ![t] = Idle]
          /\ blurred' = IF task[t].op = "restore" THEN blurred \cup {task[t].entry.hash} ELSE blurred
          /\ UNCHANGED torrents
    /\ UNCHANGED <<running, content, lock, disk, restoring, bounds, acked, gone>>

\* update_db takes its copy of the torrent, then writes the .torrent file; an error there is a warning.
WriteBytes(t) ==
    /\ At(t, "bytes")
    /\ \E done \in BOOLEAN :
         bytes' = IF done THEN bytes \cup {task[t].entry.hash} ELSE bytes
    /\ TakeCopy(t)
    /\ UNCHANGED <<running, torrents, content, lock, file, lagging, restoring, bounds, history>>

\* The copy goes into the store's map.
Stale(t) == LET id == task[t].id IN id \notin DOMAIN torrents \/ torrents[id] # task[t].entry

\* A mutant: the map is changed, and left to a later flush.
PutWithoutFlush(t) ==
    /\ At(t, "put") /\ lock = None
    /\ content' = InsertAt(content, task[t].id, task[t].entry)
    /\ GoTo(t, "reply")
    /\ UNCHANGED <<running, torrents, lock, disk, restoring, bounds, history>>

Put(t) ==
    /\ At(t, "put") /\ lock = None
    /\ content' = InsertAt(content, task[t].id, task[t].entry)
    /\ GoTo(t, "flush")
    /\ blurred' = IF Stale(t)
                  THEN blurred \cup {task[t].entry.hash} \cup HashAt(torrents, task[t].id)
                               \cup HashAt(content, task[t].id)
                  ELSE blurred
    /\ UNCHANGED <<running, torrents, lock, disk, restoring, bounds, acked, gone>>

----------------------------------------------------------------------------
(* JsonSessionPersistenceStore::flush *)

\* The write lock is taken, session.json.tmp truncated and its data handed to a blocking thread.
FlushOpen(t) ==
    /\ At(t, "flush") /\ lock = None
    /\ lock' = t
    /\ GoTo(t, "rename")
    /\ UNCHANGED <<running, torrents, content, disk, restoring, bounds, history>>

\* The temporary file takes the place of session.json; the lock is released.
FlushRename(t) ==
    /\ At(t, "rename")
    /\ file' = [state |-> "whole", db |-> content]
    /\ lagging' \in BOOLEAN
    /\ lock' = None
    /\ GoTo(t, IF task[t].op = "delete" THEN "rmFiles" ELSE "reply")
    /\ UNCHANGED <<running, torrents, content, bytes, restoring, bounds, history>>

\* An error of open, write or rename ends flush() with the map as changed.
\* A failed add leaves the session again; a failed delete is only logged.
FlushFails(t) ==
    /\ (At(t, "flush") /\ lock = None) \/ At(t, "rename")
    /\ failures < MaxFailures
    /\ failures' = failures + 1
    /\ lock' = None
    /\ IF Adding(t) THEN RemoveTorrent(task[t].id) ELSE UNCHANGED torrents
    /\ task' = [task EXCEPT ![t] = Idle]
    /\ blurred' = blurred \cup {task[t].entry.hash} \cup HashAt(torrents, task[t].id)
    /\ UNCHANGED <<running, content, disk, restoring, crashes, calls, acked, gone>>

\* The blocking thread writes the data of the renamed file.
DataLands ==
    /\ running /\ lagging
    /\ lagging' = FALSE
    /\ UNCHANGED <<running, torrents, content, lock, file, bytes, task, restoring, bounds, history>>

\* The call returns.
Reply(t) ==
    /\ At(t, "reply")
    /\ task' = [task EXCEPT ![t] = Idle]
    /\ acked' = IF Adding(t) /\ task[t].entry.hash \in HashesOf(torrents) /\ Alone(t)
                THEN acked \cup {task[t].entry.hash} ELSE acked
    /\ UNCHANGED <<running, torrents, content, lock, disk, restoring, bounds, gone, blurred>>

----------------------------------------------------------------------------
(* Session::delete *)

\* The torrent leaves the session first.
Delete(t, id) ==
    /\ Call(t) /\ id \in DOMAIN torrents
    /\ RemoveTorrent(id)
    /\ task' = [task EXCEPT ![t] = [pc |-> "dbRemove", op |-> "delete", id |-> id,
                                    entry |-> torrents[id]]]
    /\ acked' = acked \ {torrents[id].hash}
    /\ UNCHANGED <<running, content, lock, disk, restoring, crashes, failures, gone, blurred>>

\* What a removal by id confuses: the torrent that has been given the id since,
\* and the deleted one when the store holds no entry of it under the id.
Confused(t) ==
    LET managed == HashAt(torrents, task[t].id)  stored == HashAt(content, task[t].id) IN
    managed \cup ({task[t].entry.hash} \ stored) \cup (IF managed = {} THEN {} ELSE stored)

\* The store drops its entry; an unknown id is an error that is only logged.
DbRemove(t) ==
    /\ At(t, "dbRemove") /\ lock = None
    /\ LET id == task[t].id IN
       IF id \in DOMAIN content
       THEN /\ content' = Restrict(content, DOMAIN content \ {id})
            /\ GoOn(t, "flush", id, content[id])
       ELSE /\ task' = [task EXCEPT ![t] = Idle]
            /\ UNCHANGED content
    /\ blurred' = blurred \cup Confused(t)
    /\ UNCHANGED <<running, torrents, lock, disk, restoring, bounds, acked, gone>>

\* The .torrent file of the removed entry goes (its .bitv file too: module Resume).
RemoveFiles(t) ==
    /\ At(t, "rmFiles")
    /\ bytes' = bytes \ {task[t].entry.hash}
    /\ gone' = IF Alone(t) THEN gone \cup ({task[t].entry.hash} \ HashesOf(torrents)) ELSE gone
    /\ task' = [task EXCEPT ![t] = Idle]
    /\ UNCHANGED <<running, torrents, content, lock, file, lagging, restoring, bounds, acked, blurred>>

----------------------------------------------------------------------------
(* Session::pause / unpause and the other callers of try_update_persistence_metadata *)

Toggled(e) == [hash |-> e.hash, paused |-> ~e.paused]

\* A mutant: the store is not told.
ChangePausedOnly(t, id) ==
    /\ Call(t) /\ id \in DOMAIN torrents
    /\ torrents' = [torrents EXCEPT ![id] = Toggled(torrents[id])]
    /\ UNCHANGED <<running, content, lock, disk, task, restoring, crashes, failures, history>>

\* The handle changes state; update_metadata has not yet taken its copy.
ChangePaused(t, id) ==
    /\ Call(t) /\ id \in DOMAIN torrents
    /\ torrents' = [torrents EXCEPT ![id] = Toggled(torrents[id])]
    /\ task' = [task EXCEPT ![t] = [pc |-> "copy", op |-> "update", id |-> id,
                                    entry |-> Toggled(torrents[id])]]
    /\ UNCHANGED <<running, content, lock, disk, restoring, crashes, failures, history>>

\* update_db copies the handle's fields, whether or not the session still manages it.
CopyTorrent(t) ==
    /\ At(t, "copy")
    /\ TakeCopy(t)
    /\ UNCHANGED <<running, torrents, content, lock, disk, restoring, bounds, history>>

----------------------------------------------------------------------------
(* Crash and Session::new *)

\* The process dies: memory and unwritten data are lost.
Crash ==
    /\ running /\ crashes < MaxCrashes
    /\ crashes' = crashes + 1
    /\ running' = FALSE
    /\ file' = IF lagging THEN [state |-> "torn", db |-> file.db] ELSE file
    /\ lagging' = FALSE
    /\ torrents' = Empty /\ content' = Empty /\ lock' = None
    /\ task' = [t \in Tasks |-> Idle]
    /\ restoring' = {}
    /\ UNCHANGED <<bytes, failures, calls, history>>

\* stream_all lists every entry of the store.
StreamAll(db) == DOMAIN db

\* JsonSessionPersistenceStore::new: no file is an empty database, an unreadable one stops the start.
OpenStore ==
    /\ ~running
    /\ file.state \in {"absent", "whole"}
    /\ running' = TRUE
    /\ content' = file.db
    /\ restoring' = StreamAll(file.db)
    /\ UNCHANGED <<torrents, lock, disk, task, bounds, history>>

\* into_add_torrent: the stored fields become the options of an add under the same id.
AddAgain(id) == [pc |-> "insert", op |-> "restore", id |-> id, entry |-> content[id]]

\* stream_all and get: each entry is added back under its id, as a magnet when
\* its .torrent file is missing; a magnet nobody answers stays in the store only.
RestoreOne(t, id) ==
    /\ running /\ At(t, "idle") /\ id \in restoring
    /\ restoring' = restoring \ {id}
    /\ \/ /\ task' = [task EXCEPT ![t] = AddAgain(id)]
          /\ UNCHANGED blurred
       \/ /\ content[id].hash \notin bytes
          /\ blurred' = blurred \cup {content[id].hash}
          /\ UNCHANGED task
    /\ UNCHANGED <<running, torrents, content, lock, disk, bounds, acked, gone>>

----------------------------------------------------------------------------
Init ==
    /\ running = TRUE
    /\ torrents = Empty /\ content = Empty /\ lock = None
    /\ file = [state |-> "absent", db |-> Empty] /\ lagging = FALSE /\ bytes = {}
    /\ task = [t \in Tasks |-> Idle] /\ restoring = {}
    /\ crashes = 0 /\ failures = 0 /\ calls = 0
    /\ acked = {} /\ gone = {} /\ blurred = {}

\* What a call that has begun does by itself.
Step(t) ==
    \/ NextId(t) \/ AddInsert(t) \/ WriteBytes(t) \/ Put(t)
    \/ FlushOpen(t) \/ FlushRename(t) \/ Reply(t)
    \/ DbRemove(t) \/ RemoveFiles(t) \/ CopyTorrent(t)

Next ==
    \/ \E t \in Tasks, h \in Hashes : AddTorrent(t, h, FALSE)
    \/ \E t \in Tasks, id \in Ids : Delete(t, id) \/ ChangePaused(t, id) \/ RestoreOne(t, id)
    \/ \E t \in Tasks : Step(t) \/ FlushFails(t)
    \/ DataLands \/ Crash \/ OpenStore

Spec == Init /\ [][Next]_vars

----------------------------------------------------------------------------
(* Properties *)

Clear(db) == {<<i, db[i]>> : i \in {j \in DOMAIN db : db[j].hash \notin blurred}}

\* When no call is in progress the store holds exactly the managed torrents, each with its
\* present paused flag, but for the torrents a stale or failed write touched (update_db copies
\* the handle before it takes the lock, json.rs:145-199) and those a start could not add back
\* (nobody answers the magnet, the storage does not open, the hash is managed already), whose
\* entries stay in the store with no torrent.  An add that fails leaves neither.
StoreMirrorsSession ==
    running /\ Quiet /\ restoring = {} => Clear(content) = Clear(torrents)

\* A torrent whose add was answered is in session.json, through every later flush of other
\* calls and every crash, unless a stale or failed write touched it, a start could not add it
\* back, or the crash tore the file.
AckedIsOnFile ==
    file.state # "torn" => acked \ blurred \subseteq HashesOf(file.db)

\* A torrent whose deletion was answered does not come back from session.json, with
\* the same exceptions (an entry that was not added back is a second one beside a later add's).
DeletedStaysDeleted ==
    (gone \ blurred) \cap HashesOf(file.db) = {}

\* Once no add is in progress next_id (max + 1 over the store) names no managed torrent, so that
\* an add alone is never answered AlreadyManaged with somebody else's torrent.
NextIdIsFree ==
    running /\ restoring = {} /\ (\A t \in Tasks : ~Adding(t))
        /\ (\A i \in DOMAIN torrents : torrents[i].hash \notin blurred)
        => NextIdOf(content) \notin DOMAIN torrents

\* No two entries of the session carry the same hash, whatever calls overlap and whatever
\* session.json was restored from: add_torrent_internal checks and inserts under one lock.
OneTorrentPerHash ==
    \A i, j \in DOMAIN torrents : torrents[i].hash = torrents[j].hash => i = j

\* What was answered is what a restart finds: an added torrent is in session.json, a deleted one
\* is not, and the next id is a free one.
AnsweredIsDurable == AckedIsOnFile /\ DeletedStaysDeleted /\ NextIdIsFree
=============================================================================
