------------------------------ MODULE QbitApi -------------------------------
(***************************************************************************)
(* The qBittorrent-compatible API (qbit_compat.rs) over the native one     *)
(* (api.rs): what its requests do to the torrents of the session, and what *)
(* it keeps for itself: tags, share limits and the tasks that create       *)
(* torrents.  A request names torrents by hash, or all of them; the list   *)
(* is resolved first, and each torrent is looked up again when its turn    *)
(* comes.  Requests run concurrently, a step per lock or await.            *)
(*                                                                         *)
(* The torrents' own states are those of ManagedTorrent, seen from here.   *)
(***************************************************************************)
EXTENDS Integers, Sequences, FiniteSets, SequencesExt

CONSTANTS Hashes, Tags, Trackers, BadUrls, Files, Tasks,
          Requests,   \* concurrent requests
          Ops,        \* the endpoints in use
          MaxCalls,   \* bound: requests made
          Cap         \* largest time a client is told (8640000 in the code)

VARIABLES torrents,       \* of the session: hash -> its state
          all, per,       \* QbitTags: the tags, and those of a torrent
          share,          \* QbitShareLimits
          tasks, jobs,    \* QbitTorrentCreator, and the spawned creations
          req,            \* the requests being served
          calls,
          stray, emptied, forgotten, asked, crossed  \* histories

kept == <<all, per, share>>
creator == <<tasks, jobs>>
past == <<stray, emptied, forgotten, asked, crossed>>
vars == <<torrents, kept, creator, req, calls, past>>

Idle == [op |-> "idle", todo |-> {}, what |-> {}, new |-> {}, none |-> FALSE]
Serving(r, op) == req[r].op = op
Ends(r) == req' = [req EXCEPT ![r] = Idle]
Known == DOMAIN torrents
Put(h, t) == (h :> t) @@ torrents
Without(f, S) == [x \in DOMAIN f \ S |-> f[x]]

----------------------------------------------------------------------------
\* What a request asks: the torrents it names, and a set of tags, trackers or files.
Names == {{h} : h \in Hashes} \cup {Hashes}
Ask(op, todo, what, new, none) == [op |-> op, todo |-> todo, what |-> what, new |-> new, none |-> none]
Bulk == {"pause", "start", "recheck", "delete", "addTags", "setTags", "removeTags", "shareLimits", "setLocation"}
Asks ==
    {Ask(op, n, {}, {}, FALSE) : op \in Bulk \ {"addTags", "setTags", "removeTags"}, n \in Names}
      \cup {Ask(op, n, s, {}, FALSE) : op \in {"addTags", "setTags", "removeTags"}, n \in Names,
                                       s \in {{t} : t \in Tags} \cup {{}}}
      \cup {Ask(op, {}, {t}, {}, FALSE) : op \in {"createTags", "deleteTags"}, t \in Tags}
      \cup {Ask("add", {h}, {}, {}, p) : h \in Hashes, p \in BOOLEAN}
      \cup {Ask("addTrackers", {h}, {t}, {}, FALSE) : h \in Hashes, t \in Trackers \cup BadUrls}
      \cup {Ask("removeTrackers", {h}, {t}, {}, FALSE) : h \in Hashes, t \in Trackers}
      \cup {Ask("editTracker", {h}, {t}, {n}, FALSE) : h \in Hashes, t \in Trackers, n \in Trackers \cup BadUrls}
      \cup {Ask("filePrio", {h}, {f}, {}, p) : h \in Hashes, f \in Files, p \in BOOLEAN}
      \cup {Ask("rename", {h}, {}, {}, FALSE) : h \in Hashes}
      \cup {Ask("addTask", {}, {}, {}, FALSE), Ask("deleteTask", {}, {}, {}, FALSE)}

\* A request arrives.  (resolve_hashes: all the torrents of the moment, or the named ones.)
ResolveHashes(n) == IF n = Hashes THEN Known ELSE n

Begin(r) ==
    /\ Serving(r, "idle") /\ calls < MaxCalls
    /\ \E a \in Asks :
          /\ a.op \in Ops
          /\ req' = [req EXCEPT ![r] = [a EXCEPT !.todo = ResolveHashes(@)]]
          /\ asked' = IF a.op = "filePrio"
                      THEN [h \in Hashes |-> IF h \in a.todo \cap Known
                                             THEN IF a.none THEN asked[h] \ a.what ELSE asked[h] \cup a.what
                                             ELSE asked[h]]
                      ELSE asked
          /\ crossed' = (crossed \/ \E q \in Requests : ~Serving(q, "idle"))
    /\ calls' = calls + 1
    /\ UNCHANGED <<torrents, kept, creator, stray, emptied, forgotten>>

----------------------------------------------------------------------------
\* Actions on one torrent (api.rs): the state is looked up, an action may refuse.
Fresh(paused) == [st |-> "init", paused |-> paused, trackers |-> Trackers, only |-> Files, root |-> TRUE,
                  moved |-> FALSE, named |-> FALSE]

ActionPause(t) ==
    CASE t.st = "live" -> [t EXCEPT !.st = "paused", !.paused = TRUE]
      [] t.st = "init" -> [t EXCEPT !.st = "error", !.paused = TRUE]
      [] OTHER -> t

ActionStart(t) ==
    CASE t.st = "paused" -> [t EXCEPT !.st = "live", !.paused = FALSE]
      [] t.st \in {"error", "init"} -> [t EXCEPT !.st = "init", !.paused = FALSE]
      [] OTHER -> t

\* Session::force_recheck: prepare_force_recheck takes a live, paused or failed torrent.
ActionRecheck(t) == IF t.st = "init" THEN t ELSE [t EXCEPT !.st = "init", !.paused = t.st # "live"]

\* ManagedTorrent::set_location, for a stopped torrent.
ActionSetLocation(t) == IF t.st = "paused" THEN [t EXCEPT !.moved = TRUE] ELSE t

Act(op, t) ==
    CASE op = "pause" -> ActionPause(t) [] op = "start" -> ActionStart(t)
      [] op = "recheck" -> ActionRecheck(t) [] op = "setLocation" -> ActionSetLocation(t)

\* The loop of h_torrents_pause, resume, recheck and set_location: errors are passed over.
BulkStep(r) ==
    /\ req[r].op \in {"pause", "start", "recheck", "setLocation"}
    /\ IF req[r].todo = {} THEN Ends(r) /\ UNCHANGED torrents
       ELSE \E h \in req[r].todo :
              /\ req' = [req EXCEPT ![r].todo = @ \ {h}]
              /\ torrents' = IF h \in Known THEN Put(h, Act(req[r].op, torrents[h])) ELSE torrents
    /\ UNCHANGED <<kept, creator, calls, past>>

\* h_torrents_delete, through api_torrent_action_delete or forget.
Delete(r) ==
    /\ Serving(r, "delete")
    /\ IF req[r].todo = {} THEN Ends(r) /\ UNCHANGED <<torrents, asked>>
       ELSE \E h \in req[r].todo :
              /\ req' = [req EXCEPT ![r].todo = @ \ {h}]
              /\ torrents' = Without(torrents, {h})
              /\ asked' = [asked EXCEPT ![h] = Files]
    /\ UNCHANGED <<kept, creator, calls, stray, emptied, forgotten, crossed>>

\* h_torrents_add: a torrent that is there already is no error.
Add(r) ==
    /\ Serving(r, "add")
    /\ \E h \in req[r].todo :
          /\ torrents' = IF h \in Known THEN torrents ELSE Put(h, Fresh(req[r].none))
          /\ emptied' = IF h \in Known THEN emptied ELSE emptied \ {h}
    /\ Ends(r)
    /\ UNCHANGED <<kept, creator, calls, stray, forgotten, asked, crossed>>

\* A check of a torrent ends (one that was spawned with paused set leaves it
\* paused, whatever was asked since), or a live torrent fails.
Changes(h) ==
    /\ h \in Known
    /\ \/ /\ torrents[h].st = "init"
          /\ \E st \in {"paused", "live"} : (torrents[h].paused => st = "paused") /\ torrents' = [torrents EXCEPT ![h].st = st]
       \/ torrents[h].st \in {"init", "live"} /\ torrents' = [torrents EXCEPT ![h].st = "error"]
    /\ UNCHANGED <<kept, creator, req, calls, past>>

----------------------------------------------------------------------------
\* Session::add_trackers: all the URLs are parsed first.
ActionAddTrackers(t, urls) ==
    IF urls \subseteq Trackers THEN [t EXCEPT !.trackers = @ \cup urls] ELSE t

AddTrackers(r) ==
    /\ Serving(r, "addTrackers")
    /\ torrents' = [h \in Known |-> IF h \in req[r].todo THEN ActionAddTrackers(torrents[h], req[r].what)
                                    ELSE torrents[h]]
    /\ Ends(r)
    /\ UNCHANGED <<kept, creator, calls, past>>

\* Session::remove_trackers: the URLs that are there.
ActionRemoveTrackers(t, urls) == [t EXCEPT !.trackers = @ \ urls]

RemoveTrackers(r) ==
    /\ Serving(r, "removeTrackers")
    /\ torrents' = [h \in Known |-> IF h \in req[r].todo THEN ActionRemoveTrackers(torrents[h], req[r].what)
                                    ELSE torrents[h]]
    /\ emptied' = emptied \cup {h \in req[r].todo \cap Known : torrents'[h].trackers = {}}
    /\ Ends(r)
    /\ UNCHANGED <<kept, creator, calls, stray, forgotten, asked, crossed>>

\* A mutant: the new URL is looked at only when it is added.
EditRemovesFirst(r) ==
    /\ Serving(r, "editTracker")
    /\ \E h \in req[r].todo :
          IF h \notin Known \/ req[r].what \cap torrents[h].trackers = {}
          THEN Ends(r) /\ UNCHANGED torrents
          ELSE /\ torrents' = [torrents EXCEPT ![h] = ActionRemoveTrackers(@, req[r].what)]
               /\ req' = [req EXCEPT ![r].op = "editAdds"]
    /\ UNCHANGED <<kept, creator, calls, past>>

\* h_torrents_edit_tracker: the new URL is validated before the old one is removed.
EditTracker(r) ==
    /\ Serving(r, "editTracker")
    /\ \E h \in req[r].todo :
          IF h \notin Known \/ ~(req[r].new \subseteq Trackers) \/ req[r].what \cap torrents[h].trackers = {}
          THEN Ends(r) /\ UNCHANGED torrents
          ELSE /\ torrents' = [torrents EXCEPT ![h] = ActionRemoveTrackers(@, req[r].what)]
               /\ req' = [req EXCEPT ![r].op = "editAdds"]
    /\ UNCHANGED <<kept, creator, calls, past>>

\* Then the torrent is looked up again, and the new URL added.
EditAdds(r) ==
    /\ Serving(r, "editAdds")
    /\ torrents' = [h \in Known |-> IF h \in req[r].todo THEN ActionAddTrackers(torrents[h], req[r].new)
                                    ELSE torrents[h]]
    /\ Ends(r)
    /\ UNCHANGED <<kept, creator, calls, past>>

----------------------------------------------------------------------------
\* h_torrents_file_prio: the selection is read, changed, and written back.
FilePrio(r) ==
    /\ Serving(r, "filePrio")
    /\ \E h \in req[r].todo :
          IF h \notin Known THEN Ends(r)
          ELSE req' = [req EXCEPT ![r] = [@ EXCEPT !.op = "fileSet",
                         !.what = IF req[r].none THEN torrents[h].only \ @ ELSE torrents[h].only \cup @]]
    /\ UNCHANGED <<torrents, kept, creator, calls, past>>

\* ManagedTorrent::update_only_files refuses while the torrent is checked.
ActionUpdateOnlyFiles(t, files) == IF t.st = "init" THEN t ELSE [t EXCEPT !.only = files]

FileSet(r) ==
    /\ Serving(r, "fileSet")
    /\ torrents' = [h \in Known |-> IF h \in req[r].todo THEN ActionUpdateOnlyFiles(torrents[h], req[r].what)
                                    ELSE torrents[h]]
    /\ asked' = [h \in Hashes |-> IF h \in req[r].todo \cap Known /\ torrents[h].st = "init"
                                  THEN torrents[h].only ELSE asked[h]]
    /\ Ends(r)
    /\ UNCHANGED <<kept, creator, calls, stray, emptied, forgotten, crossed>>

\* h_torrents_rename: the name a client sees.
Rename(r) ==
    /\ Serving(r, "rename")
    /\ torrents' = [h \in Known |-> IF h \in req[r].todo THEN [torrents[h] EXCEPT !.named = TRUE] ELSE torrents[h]]
    /\ Ends(r)
    /\ UNCHANGED <<kept, creator, calls, past>>

----------------------------------------------------------------------------
\* resolve_info_hashes: those of them that are there now.
ResolveInfoHashes(r) == req[r].todo \cap Known

\* QbitTags::create.
CreateTags(r) ==
    /\ Serving(r, "createTags")
    /\ all' = all \cup req[r].what
    /\ Ends(r)
    /\ UNCHANGED <<torrents, per, share, creator, calls, past>>

\* QbitTags::delete, with both locks.
DeleteTags(r) ==
    /\ Serving(r, "deleteTags")
    /\ all' = all \ req[r].what
    /\ per' = [h \in DOMAIN per |-> per[h] \ req[r].what]
    /\ stray' = stray \cup (req[r].what \cap UNION {req[q].what : q \in {x \in Requests : Serving(x, "tagTorrents")}})
    /\ Ends(r)
    /\ UNCHANGED <<torrents, share, creator, calls, emptied, forgotten, asked, crossed>>

\* QbitTags::add_to and set: the tags are created under one lock ...
TagCreates(r) ==
    /\ req[r].op \in {"addTags", "setTags"}
    /\ IF req[r].op = "addTags" /\ req[r].what = {}
       THEN Ends(r) /\ UNCHANGED all
       ELSE /\ all' = all \cup req[r].what
            /\ req' = [req EXCEPT ![r] = [@ EXCEPT !.op = "tagTorrents", !.todo = ResolveInfoHashes(r),
                                                   !.none = req[r].op = "setTags"]]
    /\ UNCHANGED <<torrents, per, share, creator, calls, past>>

\* ... and given to the torrents under the other.
TagTorrents(r) ==
    /\ Serving(r, "tagTorrents")
    /\ per' = [h \in DOMAIN per \cup req[r].todo |->
                 IF h \notin req[r].todo THEN per[h]
                 ELSE IF req[r].none \/ h \notin DOMAIN per THEN req[r].what ELSE per[h] \cup req[r].what]
    /\ Ends(r)
    /\ UNCHANGED <<torrents, all, share, creator, calls, past>>

\* QbitTags::remove_from: an empty list clears all of them.
RemoveTags(r) ==
    /\ Serving(r, "removeTags")
    /\ per' = [h \in DOMAIN per |->
                 IF h \notin ResolveInfoHashes(r) THEN per[h]
                 ELSE IF req[r].what = {} THEN {} ELSE per[h] \ req[r].what]
    /\ Ends(r)
    /\ UNCHANGED <<torrents, all, share, creator, calls, past>>

\* QbitShareLimits::set.
ShareLimits(r) ==
    /\ Serving(r, "shareLimits")
    /\ share' = share \cup ResolveInfoHashes(r)
    /\ Ends(r)
    /\ UNCHANGED <<torrents, all, per, creator, calls, past>>

----------------------------------------------------------------------------
\* h_torrentcreator_add_task: a task under a random number, and a spawned creation.
AddTask(r) ==
    /\ Serving(r, "addTask")
    /\ \E id \in Tasks \ (DOMAIN tasks \cup jobs \cup forgotten) :
          tasks' = (id :> "Running") @@ tasks /\ jobs' = jobs \cup {id}
    /\ Ends(r)
    /\ UNCHANGED <<torrents, kept, calls, past>>

\* QbitTorrentCreator::finish and fail.
Finish(id) ==
    /\ id \in jobs /\ jobs' = jobs \ {id}
    /\ \E s \in {"Finished", "Failed"} : tasks' = [t \in DOMAIN tasks |-> IF t = id THEN s ELSE tasks[t]]
    /\ UNCHANGED <<torrents, kept, req, calls, past>>

\* h_torrentcreator_delete_task: the creation goes on.
DeleteTask(r) ==
    /\ Serving(r, "deleteTask")
    /\ \E id \in Tasks : tasks' = Without(tasks, {id}) /\ forgotten' = forgotten \cup ({id} \cap DOMAIN tasks)
    /\ Ends(r)
    /\ UNCHANGED <<torrents, kept, jobs, calls, stray, emptied, asked, crossed>>

----------------------------------------------------------------------------
\* What is reported.  A torrent is finished when it has all it wants, which is known while live or paused.
MapState(st, fin) ==
    CASE st = "init" -> "metaDL" [] st = "error" -> "error"
      [] st = "live" -> IF fin THEN "uploading" ELSE "downloading"
      [] st = "paused" -> IF fin THEN "stoppedUP" ELSE "stoppedDL"

MatchesFilter(f, s) ==
    CASE f = "downloading" -> s \in {"downloading", "metaDL"} [] f = "seeding" -> s = "uploading"
      [] f = "stopped" -> s \in {"stoppedDL", "stoppedUP"} [] f = "running" -> s \notin {"stoppedDL", "stoppedUP"}
      [] f = "active" -> s \in {"downloading", "uploading"} [] f = "inactive" -> s \notin {"downloading", "uploading"}
      [] f = "errored" -> s = "error" [] OTHER -> TRUE

\* apply_offset_limit: a limit of 0 is none.
ApplyOffsetLimit(items, offset, limit) ==
    IF offset >= Len(items) THEN <<>>
    ELSE LET rest == SubSeq(items, offset + 1, Len(items)) IN
         IF limit = 0 \/ limit >= Len(rest) THEN rest ELSE SubSeq(rest, 1, limit)

\* api_torrent_list_ext: skip and take.
ListExt(items, offset, limit) ==
    LET rest == SubSeq(items, offset + 1, Len(items)) IN SubSeq(rest, 1, IF limit < Len(rest) THEN limit ELSE Len(rest))

TagsFor(h) == IF h \in DOMAIN per THEN per[h] ELSE {}
HasTag(h, t) == h \in DOMAIN per /\ t \in per[h]

\* qbit_save_path and qbit_file_name, of a torrent of several files: paths are sequences.
OutputFolder == <<"root", "name">>
Location(t) == IF t.moved THEN <<"elsewhere">> ELSE OutputFolder
SavePath(t) == IF Location(t) # OutputFolder THEN Location(t) ELSE IF t.root THEN <<"root">> ELSE OutputFolder
FileName(t, f) == IF t.root THEN <<IF t.named THEN "display" ELSE "name", f>> ELSE <<f>>

\* build_torrent_info: what is left, and the time it takes at a speed, at most Cap.
Eta(size, done, speed) ==
    LET left == IF size > done THEN size - done ELSE 0 IN
    IF speed = 0 THEN Cap ELSE IF left \div speed < Cap THEN left \div speed ELSE Cap
Info(h, fin) == [hash |-> h, state |-> MapState(torrents[h].st, fin), tags |-> TagsFor(h),
                 limited |-> h \in share, trackers |-> Cardinality(torrents[h].trackers)]

\* What a torrent's statistics say of its bytes, and what the endpoints make of them.  Ratios are pairs.
Stats == [total : 0..4, progress : 0..4, up : {0, 3}, speed : {0, 1, 2}, added : {1}, completion : {0, 2}, piece : {0, 2}]
Ratio(s) == IF s.progress = 0 THEN <<0, 1>> ELSE <<s.up, s.progress>>
InfoOf(s, now) ==
    [left |-> IF s.total > s.progress THEN s.total - s.progress ELSE 0, eta |-> Eta(s.total, s.progress, s.speed),
     ratio |-> Ratio(s), seeding |-> IF s.completion >= s.added THEN now - s.completion ELSE 0,
     completed |-> IF s.completion > 0 THEN s.completion ELSE -1]

\* h_torrents_properties: the same, computed again; the time is not capped here.
PropertiesOf(s, now) ==
    [ratio |-> Ratio(s), eta |-> IF s.speed = 0 THEN Cap ELSE (IF s.total > s.progress THEN s.total - s.progress ELSE 0) \div s.speed,
     seeding |-> IF s.completion > 0 THEN now - s.completion ELSE 0,
     completed |-> IF s.completion > 0 THEN s.completion ELSE -1,
     have |-> IF s.piece = 0 THEN 0 ELSE s.progress \div s.piece]

\* h_torrents_piece_states: 2 for a piece that is there.
PieceStates(have, n) == [p \in 1..n |-> IF p \in have THEN 2 ELSE 0]

\* h_torrents_files: progress of a file of length 0 is 1, priority 0 is one not selected.
FilesOf(t, fin, len, done) ==
    {[name |-> FileName(t, f), priority |-> IF f \in t.only THEN 1 ELSE 0, seed |-> fin,
      progress |-> IF len = 0 THEN <<1, 1>> ELSE <<done, len>>] : f \in Files}

\* h_torrents_info, with a filter and a tag, and h_sync_maindata, for torrents none of which is finished.
TorrentsInfo(f, tag) ==
    {i \in {Info(h, FALSE) : h \in Known} : MatchesFilter(f, i.state) /\ (tag = {} \/ \A t \in tag : HasTag(i.hash, t))}
MainData == [torrents |-> {Info(h, FALSE) : h \in Known}, tags |-> all]

----------------------------------------------------------------------------
Init ==
    /\ torrents = [h \in Hashes |-> [Fresh(FALSE) EXCEPT !.st = "live"]]
    /\ all = {} /\ per = <<>> /\ share = {}
    /\ tasks = <<>> /\ jobs = {}
    /\ req = [r \in Requests |-> Idle] /\ calls = 0
    /\ stray = {} /\ emptied = {} /\ forgotten = {} /\ asked = [h \in Hashes |-> Files] /\ crossed = FALSE

Serve(r) ==
    \/ BulkStep(r) \/ Delete(r) \/ Add(r) \/ AddTrackers(r) \/ RemoveTrackers(r) \/ EditTracker(r) \/ EditAdds(r)
    \/ FilePrio(r) \/ FileSet(r) \/ Rename(r) \/ CreateTags(r) \/ DeleteTags(r) \/ TagCreates(r) \/ TagTorrents(r)
    \/ RemoveTags(r) \/ ShareLimits(r) \/ AddTask(r) \/ DeleteTask(r)

Next ==
    \/ \E r \in Requests : Begin(r) \/ Serve(r)
    \/ \E h \in Hashes : Changes(h)
    \/ \E id \in Tasks : Finish(id)

Spec == Init /\ [][Next]_vars

----------------------------------------------------------------------------
\* Between concurrent requests: a torrent carries no tag that is not listed,
\* unless the tag was deleted while it was being given out; an edit of a tracker
\* never leaves a torrent without any, save between its two halves; a torrent
\* downloads the files last asked for as long as requests do not overlap; a
\* creation is reported to run as long as it does, and a deleted one never
\* comes back.
RequestsAreHonest ==
    /\ \A h \in DOMAIN per : per[h] \subseteq all \cup stray
    /\ \A h \in Known : torrents[h].trackers = {} =>
          h \in emptied \/ \E r \in Requests : Serving(r, "editAdds") /\ h \in req[r].todo
    /\ ~crossed => \A h \in Known : (\A r \in Requests : req[r].op \notin {"filePrio", "fileSet"}) => torrents[h].only = asked[h]
    /\ {id \in DOMAIN tasks : tasks[id] = "Running"} = jobs \ forgotten
    /\ DOMAIN tasks \cap forgotten = {}

\* What is reported agrees with itself: every torrent is in exactly one of the
\* lists of downloading, seeding, stopped and failed ones, active or inactive,
\* stopped or running; a query by tag finds those reported with the tag, and
\* the main data hold every one; pages of a list put together are the list, in
\* both APIs; torrents/info and torrents/properties, which compute ratio, times and
\* pieces each for itself, agree up to the cap on the remaining time; the path of a
\* file is where it lies, for a torrent that was neither moved nor renamed.
ViewsAgree ==
    /\ \A h \in Known, fin \in BOOLEAN :
          LET s == MapState(torrents[h].st, fin) IN
          /\ Cardinality({f \in {"downloading", "seeding", "stopped", "errored"} : MatchesFilter(f, s)}) = 1
          /\ MatchesFilter("active", s) # MatchesFilter("inactive", s)
          /\ MatchesFilter("stopped", s) # MatchesFilter("running", s)
    /\ \A t \in Tags : TorrentsInfo("all", {t}) = {i \in MainData.torrents : t \in i.tags}
    /\ \A n \in 1..3, size \in 0..4 :
          LET items == [i \in 1..size |-> i] IN
          /\ ApplyOffsetLimit(items, 0, n) \o ApplyOffsetLimit(items, n, 0) = items
          /\ ListExt(items, 0, n) = ApplyOffsetLimit(items, 0, n)
          /\ ListExt(items, 0, n) \o ListExt(items, n, size) = items
    /\ \A size, done, speed \in 0..3 : Eta(size, done, speed) <= Cap /\ (done >= size /\ speed > 0 => Eta(size, done, speed) = 0)
    /\ calls = 0 => \A s \in Stats : LET i == InfoOf(s, 3) p == PropertiesOf(s, 3) IN
          /\ i.ratio = p.ratio /\ i.completed = p.completed /\ i.seeding = p.seeding
          /\ i.eta = p.eta \/ p.eta > Cap
          /\ \A n \in 0..2 : s.piece > 0 /\ s.progress = n * s.piece =>
                p.have = Cardinality({x \in DOMAIN PieceStates(1..n, 3) : PieceStates(1..n, 3)[x] = 2})
    /\ \A h \in Known : {x \in FilesOf(torrents[h], FALSE, 0, 0) : x.priority = 1} = {x \in FilesOf(torrents[h], FALSE, 0, 0) :
          \E f \in torrents[h].only : x.name = FileName(torrents[h], f)}
    /\ \A h \in Known, f \in Files : LET t == torrents[h] IN
          ~t.moved /\ ~t.named => SavePath(t) \o FileName(t, f) = Location(t) \o <<f>>
=============================================================================
