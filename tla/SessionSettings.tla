--------------------------- MODULE SessionSettings ---------------------------
(* The settings of a session: the categories with their file, the folders with *)
(* their place in session.json, and what follows from them: the folder a new   *)
(* torrent gets and the place its files are moved to when it completes.        *)
(* A path is a sequence of components; the component "{category}" is the       *)
(* placeholder of a template.                                                  *)
EXTENDS Integers, Sequences, SequencesExt, FiniteSets

CONSTANTS Tasks, Categories, SavePaths,  \* requests in flight, names, save paths
          Sanitized,                     \* a category as the component of a path
          Folders, Completed,            \* default folders and completed folders that are set
          Torrents,                      \* what may be added: [multi, name, files, matched]
          Options,                       \* with which options
          MaxCalls, MaxCrashes           \* bounds

VARIABLES cats, outputFolder, completedFolder,   \* in memory; a category maps to its save path
          inode, catFile, catTmp,                \* categories.json and categories.json.tmp, 0 if absent
          lagging,                               \* inodes whose data is still being written
          opts, content, file,                   \* the folders of the command line, of db_content
                                                 \* and of session.json, a torn one included
          task,
          possible, disturbed, wiped,            \* history: what a crash may leave; requests overlapped
                                                 \* or failed; a crash tore categories.json
          torrents, stale,                       \* stale: history, folders changed under a torrent
          calls, crashes

store == <<cats, inode, catFile, catTmp, lagging, opts, content, file, task, possible, disturbed, wiped>>
vars == <<store, outputFolder, completedFolder, torrents, stale, calls, crashes>>

Absent == "absent"
NoCategories == [c \in Categories |-> Absent]
Inodes == 1 .. Cardinality(Tasks) + 2
Data(c, t) == [cats |-> c, torn |-> t]
Idle == [pc |-> "idle", name |-> "", path |-> "", snap |-> NoCategories, inode |-> 0, folders |-> <<<<>>, {}>>]
Busy == {t \in Tasks : task[t].pc # "idle"}
Json == 0                      \* session.json among the files whose data is on its way
history == <<possible, disturbed, wiped>>

(* SessionSettings is stored once folders are set. Session::new takes the default     *)
(* folder from it, and the completed folder when the command line names none.         *)
Stored(output, completed) == [output |-> {output}, completed |-> completed]
NothingStored == [output |-> {}, completed |-> {}]
Resolved(given, stored) ==
    <<IF stored.output = {} THEN given[1] ELSE CHOOSE x \in stored.output : TRUE,
      IF given[2] = {} THEN stored.completed ELSE given[2]>>

Init == /\ cats = NoCategories /\ outputFolder \in Folders /\ completedFolder \in Completed
        /\ inode = [i \in Inodes |-> Data(NoCategories, FALSE)] /\ catFile = 0 /\ catTmp = 0 /\ lagging = {}
        /\ opts = <<outputFolder, completedFolder>>
        /\ content = NothingStored /\ file = [settings |-> content, torn |-> FALSE]
        /\ task = [t \in Tasks |-> Idle]
        /\ possible = {NoCategories} /\ disturbed = FALSE /\ wiped = FALSE
        /\ torrents = [t \in DOMAIN Torrents |-> {}] /\ stale = {}
        /\ calls = 0 /\ crashes = 0

------------------------------------------------------------------------------
(* The requests. `Begin' stands for the arrival of one.                        *)
folderVars == <<opts, outputFolder, completedFolder, torrents, stale>>
fileVars == <<inode, catFile, catTmp, lagging>>

Begin(t, pc, n, p, f) ==
    /\ task[t] = Idle /\ ~file.torn /\ calls < MaxCalls /\ calls' = calls + 1
    /\ task' = [task EXCEPT ![t] = [Idle EXCEPT !.pc = pc, !.name = n, !.path = p, !.folders = f]]
    /\ disturbed' = (disturbed \/ Busy # {})
    /\ UNCHANGED <<cats, fileVars, content, file, possible, wiped, folderVars, crashes>>

CreateOrEditCategory(t) == \E n \in Categories, p \in SavePaths : Begin(t, "exists", n, p, <<<<>>, {}>>)
RemoveCategory(t) == \E n \in Categories : Begin(t, "remove", n, "", <<<<>>, {}>>)
SetFolders(t) == \E o \in Folders, c \in Completed : Begin(t, "setOutput", "", "", <<o, c>>)

GoTo(t, pc) == task' = [task EXCEPT ![t].pc = pc]
Answer(t) == task' = [task EXCEPT ![t] = Idle]

(* A request that fails is answered without anything being stored; the ones    *)
(* that go on persist what they changed.                                       *)
Exists(t) == /\ task[t].pc = "exists"
             /\ GoTo(t, IF cats[task[t].name] # Absent THEN "edit" ELSE "create")
             /\ UNCHANGED <<cats, fileVars, content, file, history, folderVars, calls, crashes>>
Change(t, ok, new) ==
    /\ IF ok THEN cats' = [cats EXCEPT ![task[t].name] = new] /\ possible' = possible \union {cats'} /\ GoTo(t, "snapshot")
       ELSE Answer(t) /\ UNCHANGED <<cats, possible>>
    /\ UNCHANGED <<fileVars, content, file, disturbed, wiped, folderVars, calls, crashes>>
Edit(t) == task[t].pc = "edit" /\ Change(t, cats[task[t].name] # Absent, task[t].path)
Create(t) == task[t].pc = "create" /\ Change(t, cats[task[t].name] = Absent, task[t].path)
RemoveUnsaved(t) == /\ task[t].pc = "remove" /\ cats[task[t].name] # Absent /\ Answer(t)
                    /\ cats' = [cats EXCEPT ![task[t].name] = Absent] /\ possible' = possible \union {cats'}
                    /\ UNCHANGED <<fileVars, content, file, disturbed, wiped, folderVars, calls, crashes>>
Forget(t) == task[t].pc = "remove" /\ Change(t, cats[task[t].name] # Absent, Absent)

Snapshot(t) == /\ task[t].pc = "snapshot"
               /\ task' = [task EXCEPT ![t].snap = cats, ![t].pc = "open"]
               /\ UNCHANGED <<cats, fileVars, content, file, history, folderVars, calls, crashes>>

(* store_categories: the temporary file is one for all, and nothing keeps two   *)
(* requests from writing it together.                                          *)
OpenTmp(t) ==
    /\ task[t].pc = "open"
    /\ \E i \in IF catTmp # 0 THEN {catTmp} ELSE Inodes \ ({catFile} \union {task[u].inode : u \in Tasks}) :
         /\ catTmp' = i /\ inode' = [inode EXCEPT ![i] = Data(NoCategories, TRUE)]    \* truncated
         /\ task' = [task EXCEPT ![t].inode = i, ![t].pc = "write"]
    /\ UNCHANGED <<cats, catFile, lagging, content, file, history, folderVars, calls, crashes>>

(* Over what another has written, the rest of it may stay behind.              *)
Written(old, snap) == IF old = Data(NoCategories, TRUE) \/ old = Data(snap, FALSE) THEN {Data(snap, FALSE)}
                      ELSE {Data(snap, FALSE), Data(snap, TRUE)}
WriteTmp(t) ==
    /\ task[t].pc = "write"
    /\ \E d \in Written(inode[task[t].inode], task[t].snap) : inode' = [inode EXCEPT ![task[t].inode] = d]
    /\ lagging' = lagging \union {task[t].inode}
    /\ GoTo(t, "rename")
    /\ UNCHANGED <<cats, catFile, catTmp, content, file, history, folderVars, calls, crashes>>
Settle == \E i \in lagging : /\ lagging' = lagging \ {i}
                             /\ UNCHANGED <<cats, inode, catFile, catTmp, content, file, task, history, folderVars, calls, crashes>>

RenameTmp(t) ==
    /\ task[t].pc = "rename"
    /\ IF catTmp = 0 THEN UNCHANGED <<catFile, catTmp>>      \* an error, answered as one
       ELSE catFile' = catTmp /\ catTmp' = 0
    /\ Answer(t)
    /\ IF Busy = {t} /\ ~disturbed THEN possible' = {cats} /\ wiped' = FALSE
       ELSE UNCHANGED <<possible, wiped>>
    /\ UNCHANGED <<cats, inode, lagging, content, file, disturbed, folderVars, calls, crashes>>

(* An error of open, write or rename is answered; memory keeps the change.     *)
StoreFails(t) ==
    /\ task[t].pc \in {"open", "write", "rename", "flush"}
    /\ Answer(t)
    /\ disturbed' = TRUE
    /\ UNCHANGED <<cats, fileVars, content, file, possible, wiped, folderVars, calls, crashes>>

(* api_set_folders: two writes, two reads, and the store with its flush.        *)
SetOutput(t) == /\ task[t].pc = "setOutput" /\ outputFolder' = task[t].folders[1] /\ GoTo(t, "setCompleted")
                /\ stale' = stale \union {u \in DOMAIN Torrents : torrents[u] # {}}
                /\ UNCHANGED <<cats, fileVars, opts, content, file, history, completedFolder, torrents, calls, crashes>>
SetCompleted(t) == /\ task[t].pc = "setCompleted" /\ completedFolder' = task[t].folders[2] /\ GoTo(t, "read")
                   /\ stale' = stale \union {u \in DOMAIN Torrents : torrents[u] # {}}
                   /\ UNCHANGED <<cats, fileVars, opts, content, file, history, outputFolder, torrents, calls, crashes>>
ReadFolders(t) == /\ task[t].pc = "read"
                  /\ task' = [task EXCEPT ![t].pc = "put", ![t].folders = <<outputFolder, completedFolder>>]
                  /\ UNCHANGED <<cats, fileVars, content, file, history, folderVars, calls, crashes>>
PutSettings(t) == /\ task[t].pc = "put" /\ content' = Stored(task[t].folders[1], task[t].folders[2])
                  /\ GoTo(t, "flush")
                  /\ UNCHANGED <<cats, fileVars, file, history, folderVars, calls, crashes>>
Flush(t) == /\ task[t].pc = "flush" /\ file' = [settings |-> content, torn |-> FALSE]
            /\ lagging' = lagging \union {Json} /\ Answer(t)
            /\ UNCHANGED <<cats, inode, catFile, catTmp, content, history, folderVars, calls, crashes>>

(* A crash, and Session::new: categories that cannot be read are dropped, and  *)
(* with a session.json that cannot be read there is no session.                *)
Loaded == IF catFile = 0 THEN NoCategories
          ELSE IF inode[catFile].torn THEN NoCategories ELSE inode[catFile].cats
Crash ==
    /\ Tasks # {} /\ ~file.torn /\ crashes < MaxCrashes /\ crashes' = crashes + 1
    /\ \E lost \in SUBSET lagging :
         /\ inode' = [i \in Inodes |-> IF i \in lost THEN Data(inode[i].cats, TRUE) ELSE inode[i]]
         /\ file' = [file EXCEPT !.torn = Json \in lost]
         /\ wiped' = (wiped \/ catFile \in lost \ {Json})
    /\ UNCHANGED <<catFile, catTmp>>
    /\ lagging' = {}
    /\ task' = [t \in Tasks |-> Idle]
    /\ cats' = Loaded'
    /\ content' = file.settings
    /\ outputFolder' = Resolved(opts, content')[1] /\ completedFolder' = Resolved(opts, content')[2]
    /\ UNCHANGED <<possible, disturbed, opts, torrents, stale, calls>>

------------------------------------------------------------------------------
(* Where torrents go.                                                          *)
CategoryName(c) == IF c = {} THEN "uncategorized" ELSE Sanitized[CHOOSE x \in c : TRUE]
ExpandFolderTemplate(folder, c) == [i \in DOMAIN folder |-> IF folder[i] = "{category}" THEN CategoryName(c) ELSE folder[i]]

(* compute_only_files.                                                         *)
ValidSelection(t, o) == /\ o.only = {} \/ ~o.regex
                        /\ \A s \in o.only : \A f \in s : f < Torrents[t].files
                        /\ o.regex => Torrents[t].matched # {}
OnlyFiles(t, o) == IF o.regex THEN {Torrents[t].matched} ELSE o.only

(* A torrent of several files gets a folder of its own, named after itself.     *)
DefaultSubfolder(t) == IF Torrents[t].multi THEN <<Torrents[t].name>> ELSE <<>>
FolderOf(t, o, c) ==
    LET default == ExpandFolderTemplate(outputFolder, c)
    IN  CASE o.folder # {} -> ExpandFolderTemplate(CHOOSE x \in o.folder : TRUE, c)
          [] o.sub # {} -> default \o ExpandFolderTemplate(CHOOSE x \in o.sub : TRUE, c)
          [] o.root # {} -> ExpandFolderTemplate(CHOOSE x \in o.root : TRUE, c) \o DefaultSubfolder(t)
          [] OTHER -> default \o DefaultSubfolder(t)
Exclusive(o) == Cardinality({x \in {<<1, o.folder>>, <<2, o.sub>>, <<3, o.root>>} : x[2] # {}}) <= 1

AddTorrent(t) ==
    /\ torrents[t] = {}
    /\ \E o \in Options, c \in {{}} \union {{x} : x \in Categories} :
         /\ ValidSelection(t, o) /\ Exclusive(o)
         /\ LET f == FolderOf(t, o, c) IN
            torrents' = [torrents EXCEPT ![t] = {[folder |-> f, at |-> f, category |-> c, only |-> OnlyFiles(t, o),
                                                  own |-> o.folder # {} \/ o.root # {}, moved |-> FALSE]}]
    /\ UNCHANGED <<store, outputFolder, completedFolder, stale, calls, crashes>>

The(t) == CHOOSE x \in torrents[t] : TRUE
SetTorrentCategory(t) ==
    /\ torrents[t] # {} /\ calls < MaxCalls /\ calls' = calls + 1
    /\ \E c \in Categories : torrents' = [torrents EXCEPT ![t] = {[The(t) EXCEPT !.category = {c}]}]
    /\ stale' = stale \union {t}
    /\ UNCHANGED <<store, outputFolder, completedFolder, crashes>>

(* api_set_folders again, for torrents that stand by: nothing is in flight.     *)
ChangeFolders ==
    /\ Tasks = {} /\ calls < MaxCalls /\ calls' = calls + 1
    /\ outputFolder' \in Folders /\ completedFolder' \in Completed
    /\ content' = Stored(outputFolder', completedFolder') /\ file' = [file EXCEPT !.settings = content']
    /\ stale' = IF UNCHANGED <<outputFolder, completedFolder>> THEN stale ELSE {u \in DOMAIN Torrents : torrents[u] # {}} \union stale
    /\ UNCHANGED <<cats, fileVars, opts, task, history, torrents, crashes>>

(* move_completed_torrent: the path below the default folder is kept below the  *)
(* completed one; the category and the default folder are those of now.         *)
RelativeNever(folder, base) == <<>>
Relative(folder, base) == IF IsPrefix(base, folder) THEN SubSeq(folder, Len(base) + 1, Len(folder)) ELSE <<>>
Destination(t) == ExpandFolderTemplate(CHOOSE x \in completedFolder : TRUE, The(t).category)
                  \o Relative(The(t).folder, ExpandFolderTemplate(outputFolder, The(t).category))
MoveCompleted(t) ==
    /\ torrents[t] # {} /\ ~The(t).moved
    /\ torrents' = [torrents EXCEPT ![t] =
         {[The(t) EXCEPT !.moved = TRUE,
                         !.at = IF completedFolder = {} THEN @
                                ELSE IF The(t).folder = ExpandFolderTemplate(CHOOSE x \in completedFolder : TRUE, The(t).category) THEN @
                                ELSE Destination(t)]}]
    /\ UNCHANGED <<store, outputFolder, completedFolder, stale, calls, crashes>>

TaskStep(t) == \/ CreateOrEditCategory(t) \/ RemoveCategory(t) \/ SetFolders(t)
               \/ Exists(t) \/ Edit(t) \/ Create(t) \/ Forget(t) \/ Snapshot(t)
               \/ OpenTmp(t) \/ WriteTmp(t) \/ RenameTmp(t) \/ StoreFails(t)
               \/ SetOutput(t) \/ SetCompleted(t) \/ ReadFolders(t) \/ PutSettings(t) \/ Flush(t)
TorrentStep(t) == AddTorrent(t) \/ SetTorrentCategory(t) \/ MoveCompleted(t)
Next == (\E t \in Tasks : TaskStep(t)) \/ Settle \/ Crash \/ ChangeFolders \/ (\E t \in DOMAIN Torrents : TorrentStep(t))

Spec == Init /\ [][Next]_vars

------------------------------------------------------------------------------
\* Requests that neither overlap nor fail leave the categories stored as they are in memory
\* when they are answered. A crash leaves those of before or of after the request it cuts
\* short, even through a torn temporary file, or none at all: store_categories answers before
\* its data is written, and a crash then loses every category that was ever answered.
\* The folders in use are those session.json holds for the last request that set them, or, from
\* a start to the first such request, those with the completed folder of the command line.
SettingsAreStored ==
    ~disturbed => /\ Loaded \in possible \/ (wiped /\ Loaded = NoCategories)
                  /\ Busy = {} /\ ~file.torn =>
                       /\ Loaded = cats
                       /\ \/ file.settings = Stored(outputFolder, completedFolder)
                          \/ Resolved(opts, file.settings) = <<outputFolder, completedFolder>>

\* Torrents of several files that were added below the default folder, each in a folder
\* of its own, are still apart after they were moved to the completed folder, as long as
\* neither the folders nor their category were changed on the way.
CompletedStayApart ==
    \A t, u \in DOMAIN Torrents : \A x \in torrents[t], y \in torrents[u] :
        t # u /\ x.folder # y.folder /\ x.moved /\ y.moved /\ ~x.own /\ ~y.own /\ {t, u} \intersect stale = {}
          /\ x.category = y.category
        => x.at # y.at

\* The move keeps torrents apart whatever was configured ("We want to replicate the relative
\* structure under the completed folder").
MoveKeepsStructure ==
    \A t, u \in DOMAIN Torrents : \A x \in torrents[t], y \in torrents[u] :
        t # u /\ x.folder # y.folder /\ x.moved /\ y.moved => x.at # y.at
=============================================================================
