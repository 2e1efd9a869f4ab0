------------------------------- MODULE Storage ------------------------------
(***************************************************************************)
(* Where the files of a torrent lie: the filesystem storage (fs.rs,        *)
(* opened_file.rs), renaming files and moving the torrent while it is      *)
(* stopped (torrent_state/mod.rs), removing the files of a deleted torrent *)
(* (helpers.rs), and the task that moves a completed torrent elsewhere     *)
(* without telling the storage (session/mod.rs).                           *)
(*                                                                         *)
(* A rename can fail, other programs put files in the way, and the task    *)
(* takes no lock: what a rename found free may be taken when it replaces   *)
(* the destination.  A path is a folder and a sequence of names under it.    *)
(***************************************************************************)
EXTENDS Naturals, Sequences, FiniteSets, SequencesExt, FiniteSetsExt

CONSTANTS Files,      \* 1..n, the files of the torrent
          Padding,    \* those that exist only in the metadata
          Roots, Completed,  \* folders; the one for completed torrents
          Names,      \* relative paths
          NameOf,     \* the name of each file in the torrent
          AllowOverwrite,
          MaxFaults, MaxJobs, MaxStrangers  \* bounds

VARIABLES st,        \* the torrent: "live", "paused", "error", "deleted"
          disk,      \* path -> what is there: {}, a file of the torrent {f}, another program's {0}
          dirs,      \* folders under a root that exist: <<root, names>>
          handle,    \* opened_files: path and whether it is open
          root, override, names,  \* the storage's root, output_folder_override, relative_filename
          job,       \* the rename or move under way, under the torrent's lock; free: the destination was
          mover,     \* the task for a completed torrent
          faults, jobs, strangers,
          torn, moved,  \* histories: a file left behind by a failed step; the mover ran;
          taken, lost   \* a destination was taken after it was found free; what was overwritten or removed, by what

vars == <<st, disk, dirs, handle, root, override, names, job, mover, faults, jobs, strangers, torn, moved, taken, lost>>

Paths == Roots \X Names
NoPath == <<"", <<>>>>
Dummy == [path |-> NoPath, open |-> FALSE]
Real == Files \ Padding
Parent(n) == Front(n)
Free(p) == disk[p] = {} /\ p \notin dirs
\* create_dir_all of a path's parent fails where a file is in the way.
ParentBlocked(p) == \E q \in Paths : q[1] = p[1] /\ disk[q] # {} /\ q[2] = Parent(p[2])
WithParent(D, p) == IF Parent(p[2]) = <<>> THEN D ELSE D \cup {<<p[1], Parent(p[2])>>}
\* remove_directory_if_empty.
Pruned(D, dk, r, S) == {d \in D : ~(d[1] = r /\ d[2] \in S /\ \A q \in Paths : q[1] = r /\ Parent(q[2]) = d[2] => dk[q] = {})}
Moves(dk, a, b) == [dk EXCEPT ![a] = {}, ![b] = dk[a]]
Idle == [op |-> "idle", todo |-> <<>>, done |-> <<>>, to |-> "", free |-> FALSE]

----------------------------------------------------------------------------
(* opened_file.rs *)

Present(f, p) == handle[f].open /\ p # handle[f].path
Replaces(f, p) ==
    /\ disk' = Moves(disk, handle[f].path, p)
    /\ dirs' = WithParent(dirs, p)
    /\ lost' = lost \cup disk[p] \X {"rename"}

\* A mutant: nobody looks at the destination.
RenameClobbers(f, p) ==
    /\ Replaces(f, p)
    /\ handle' = [handle EXCEPT ![f].path = p]

\* rename_locked, when it succeeds: try_exists has said no (job.free), and the rename
\* replaces what lies there by now ...
RenameLocked(f, p) ==
    /\ \/ ~Present(f, p) /\ UNCHANGED <<disk, dirs, lost>>
       \/ /\ Present(f, p) /\ job.free /\ ~ParentBlocked(p) /\ p \notin dirs /\ disk[handle[f].path] # {}
          /\ Replaces(f, p)
    /\ handle' = [handle EXCEPT ![f].path = p]

\* ... and when it fails: the destination exists; its parent cannot be made; the rename is refused
\* (no such file, a folder in the way, another device); or the renamed file cannot be opened
\* again, which leaves the handle with the old path.
RenameFails(f, p) ==
    /\ Present(f, p)
    /\ UNCHANGED handle
    /\ \/ ~job.free /\ ~Free(p) /\ UNCHANGED <<disk, dirs, lost, faults>>
       \/ job.free /\ ParentBlocked(p) /\ UNCHANGED <<disk, dirs, lost, faults>>
       \/ /\ job.free /\ ~ParentBlocked(p) /\ dirs' = WithParent(dirs, p)
          /\ \/ disk[handle[f].path] = {} /\ UNCHANGED faults
             \/ p \in dirs /\ UNCHANGED faults
             \/ faults < MaxFaults /\ faults' = faults + 1
          /\ UNCHANGED <<disk, lost>>
       \/ /\ job.free /\ ~ParentBlocked(p) /\ p \notin dirs /\ disk[handle[f].path] # {}
          /\ faults < MaxFaults /\ faults' = faults + 1
          /\ Replaces(f, p)

\* rebase strips the old root first.
Under(f, r) == handle[f].path[1] = r
Rebased(f, r) == <<r, handle[f].path[2]>>

----------------------------------------------------------------------------
(* rename_files and set_location: one rename at a time, and back again after a failure *)

\* validate_renames: the ids exist, and the paths stay distinct.
After(batch) == [f \in Files |-> LET at == {i \in DOMAIN batch : batch[i][1] = f} IN
                                 IF at = {} THEN names[f] ELSE batch[Max(at)][2]]
ValidateRenames(batch) == batch # <<>> /\ LET new == After(batch) IN \A f, g \in Files : f # g => new[f] # new[g]

Begin(j) == st = "paused" /\ job = Idle /\ jobs < MaxJobs /\ jobs' = jobs + 1 /\ job' = j

\* h_torrents_rename_file, and h_torrents_rename_folder: every file under a prefix.
FileBatches == {<<<<f, n>>>> : f \in Files, n \in Names}
Suffix(n, k) == SubSeq(n, k + 1, Len(n))
FolderBatch(old, new) ==
    LET under == {f \in Files : IsPrefix(old, names[f])} IN
    [i \in 1..Cardinality(under) |->
       LET f == SetToSortSeq(under, <)[i] IN <<f, new \o Suffix(names[f], Len(old))>>]
FolderBatches == {FolderBatch(o, n) : o, n \in {Parent(x) : x \in Names} \ {<<>>}}

RenameFiles ==
    /\ \E b \in FileBatches \cup FolderBatches :
          /\ ValidateRenames(b) /\ \A i \in DOMAIN b : b[i][2] \in Names
          /\ Begin([Idle EXCEPT !.op = "rename", !.todo = b])
    /\ UNCHANGED <<st, disk, dirs, handle, root, override, names, mover, faults, strangers, torn, moved, taken, lost>>

SetLocation ==
    /\ \E r \in Roots \ {root} : Begin([Idle EXCEPT !.op = "move", !.todo = [i \in 1..Cardinality(Files) |-> <<i>>], !.to = r])
    /\ UNCHANGED <<st, disk, dirs, handle, root, override, names, mover, faults, strangers, torn, moved, taken, lost>>

File == Head(job.todo)[1]
Target ==
    CASE job.op \in {"rename", "unrename"} -> <<root, Head(job.todo)[2]>>
      [] job.op = "move" -> Rebased(File, job.to)
      [] job.op = "unmove" -> Rebased(File, root)
Stripped == job.op \in {"rename", "unrename"} \/ Under(File, IF job.op = "move" THEN root ELSE job.to)

\* try_exists says that nothing is at the destination.
Look ==
    /\ job.op # "idle" /\ job.todo # <<>> /\ ~job.free
    /\ Stripped /\ Present(File, Target) /\ Free(Target)
    /\ job' = [job EXCEPT !.free = TRUE]
    /\ UNCHANGED <<st, disk, dirs, handle, root, override, names, mover, faults, jobs, strangers, torn, moved, taken, lost>>

\* One file is moved.
Step ==
    /\ job.op # "idle" /\ job.todo # <<>>
    /\ Stripped /\ RenameLocked(File, Target)
    /\ job' = [job EXCEPT !.todo = Tail(@), !.free = FALSE,
                          !.done = IF job.op \in {"rename", "move"} THEN <<<<File, names[File]>>>> \o @ ELSE @]
    /\ UNCHANGED <<st, root, override, names, mover, faults, jobs, strangers, torn, moved, taken>>

\* It cannot be: those before it are put back, the last one first.
BackOp == IF job.op = "rename" THEN "unrename" ELSE "unmove"
StepFails ==
    /\ job.op \in {"rename", "move"} /\ job.todo # <<>>
    /\ IF Stripped THEN RenameFails(File, Target) ELSE UNCHANGED <<disk, dirs, handle, faults, lost>>
    /\ torn' = (torn \/ disk' # disk)
    /\ job' = [job EXCEPT !.op = BackOp, !.todo = job.done, !.done = <<>>, !.free = FALSE]
    /\ UNCHANGED <<st, root, override, names, mover, jobs, strangers, moved, taken>>

\* A file cannot be put back: that is ignored (rename_files) or logged (move_root).
BackFails ==
    /\ job.op \in {"unrename", "unmove"} /\ job.todo # <<>>
    /\ IF Stripped THEN RenameFails(File, Target) ELSE UNCHANGED <<disk, dirs, handle, faults, lost>>
    /\ torn' = TRUE
    /\ job' = [job EXCEPT !.todo = Tail(@), !.free = FALSE]
    /\ UNCHANGED <<st, root, override, names, mover, jobs, strangers, moved, taken>>

\* The end: with_renamed_files and the pruning of empty folders, or the new root.
NewNames == [f \in Files |-> IF \E i \in DOMAIN job.done : job.done[i][1] = f /\ handle[f].path # NoPath
                             THEN handle[f].path[2] ELSE names[f]]
End ==
    /\ job.op # "idle" /\ job.todo = <<>> /\ job' = Idle
    /\ names' = IF job.op = "rename" THEN NewNames ELSE names
    /\ dirs' = IF job.op = "rename" THEN Pruned(dirs, disk, root, {Parent(names[job.done[i][1]]) : i \in DOMAIN job.done}) ELSE dirs
    /\ root' = IF job.op = "move" THEN job.to ELSE root
    /\ override' = IF job.op = "move" THEN job.to ELSE override
    /\ UNCHANGED <<st, disk, handle, mover, faults, jobs, strangers, torn, moved, taken, lost>>

----------------------------------------------------------------------------
\* A file comes to lie where the rename under way has just found nothing.
Arrives == job.free /\ disk[Target] = {} /\ disk'[Target] # {}

\* move_completed_torrent: from the folder and under the names of the moment it starts.
MoverStarts ==
    /\ mover.op = "idle" /\ ~moved /\ st \in {"live", "paused"} /\ override # Completed
    /\ mover' = [op |-> "moving", from |-> override, names |-> names, todo |-> Real]
    /\ moved' = TRUE
    /\ UNCHANGED <<st, disk, dirs, handle, root, override, names, job, faults, jobs, strangers, torn, taken, lost>>

\* One file, by rename or by copying; whatever was at the destination is gone.
MoverStep ==
    /\ mover.op = "moving" /\ mover.todo # {}
    /\ LET f == CHOOSE x \in mover.todo : \A y \in mover.todo : x <= y
           src == <<mover.from, mover.names[f]>>  dst == <<Completed, mover.names[f]>> IN
       IF disk[src] = {} \/ ParentBlocked(dst) \/ dst \in dirs
       THEN mover' = [mover EXCEPT !.op = "failed"] /\ UNCHANGED <<disk, dirs, lost>>
       ELSE /\ disk' = Moves(disk, src, dst) /\ dirs' = WithParent(dirs, dst)
            /\ lost' = lost \cup disk[dst] \X {"mover"}
            /\ mover' = [mover EXCEPT !.todo = @ \ {f}]
    /\ taken' = (taken \/ Arrives)
    /\ UNCHANGED <<st, handle, root, override, names, job, faults, jobs, strangers, torn, moved>>

----------------------------------------------------------------------------
\* The torrent is paused, started, or fails; a paused one keeps its storage (take_clone), a failed one drops it.
Toggle ==
    /\ job = Idle
    /\ \/ st = "live" /\ st' = "paused" /\ UNCHANGED handle
       \/ st = "paused" /\ st' = "live" /\ UNCHANGED handle
       \/ st = "live" /\ st' = "error" /\ handle' = [f \in Files |-> Dummy]
    /\ UNCHANGED <<disk, dirs, root, override, names, job, mover, faults, jobs, strangers, torn, moved, taken, lost>>

\* FilesystemStorageFactory::create and init: the files are opened one after the other, or created
\* where they are missing.  With allow_overwrite off a file must be missing.  The first one that
\* cannot be opened ends it: those before it stay.
FilesystemInit ==
    /\ st = "error"
    /\ LET at(f) == <<override, names[f]>>
           fine(f) == ~ParentBlocked(at(f)) /\ at(f) \notin dirs /\ (Free(at(f)) \/ AllowOverwrite)
           opened == {f \in Real : \A g \in Real : g <= f => fine(g)} IN
       /\ disk' = [p \in Paths |-> IF \E f \in opened : p = at(f) THEN {CHOOSE f \in opened : p = at(f)} ELSE disk[p]]
       /\ lost' = lost \cup (UNION {disk[at(f)] \ {f} : f \in opened}) \X {"start"}
       /\ dirs' = dirs \cup UNION {WithParent({}, at(f)) : f \in {g \in Real : ~ParentBlocked(at(g)) /\ \A h \in Real : h < g => h \in opened}}
       /\ IF opened = Real
          THEN /\ handle' = [f \in Files |-> IF f \in Padding THEN Dummy ELSE [path |-> at(f), open |-> TRUE]]
               /\ root' = override /\ st' = "paused"
          ELSE UNCHANGED <<handle, root, st>>
    /\ UNCHANGED <<override, names, job, mover, faults, jobs, strangers, torn, moved, taken>>

\* Session::delete with files: remove_files_and_dirs, by name, and then the folders left empty.
Delete ==
    /\ st # "deleted" /\ job = Idle
    /\ LET r == IF st = "error" THEN override ELSE root
           gone == {<<r, names[f]>> : f \in Real} IN
       /\ disk' = [p \in Paths |-> IF p \in gone THEN {} ELSE disk[p]]
       /\ lost' = lost \cup (UNION {disk[p] : p \in gone} \ Files) \X {"delete"}
       /\ dirs' = Pruned(dirs, disk', r, {Parent(names[f]) : f \in Real})
    /\ st' = "deleted" /\ handle' = [f \in Files |-> Dummy]
    /\ UNCHANGED <<root, override, names, job, mover, faults, jobs, strangers, torn, moved, taken>>

\* Another program creates a file.
Stranger ==
    /\ strangers < MaxStrangers /\ strangers' = strangers + 1
    /\ \E p \in Paths : Free(p) /\ ~ParentBlocked(p) /\ disk' = [disk EXCEPT ![p] = {0}] /\ dirs' = WithParent(dirs, p)
    /\ taken' = (taken \/ Arrives)
    /\ UNCHANGED <<st, handle, root, override, names, job, mover, faults, jobs, torn, moved, lost>>

----------------------------------------------------------------------------
Init ==
    /\ st = "paused" /\ root \in Roots \ {Completed} /\ override = root
    /\ names = NameOf
    /\ handle = [f \in Files |-> IF f \in Padding THEN Dummy ELSE [path |-> <<root, NameOf[f]>>, open |-> TRUE]]
    /\ disk = [p \in Paths |-> {f \in Real : p = <<root, NameOf[f]>>}]
    /\ dirs = UNION {WithParent({}, <<root, NameOf[f]>>) : f \in Real}
    /\ job = Idle /\ mover = [op |-> "idle", from |-> root, names |-> NameOf, todo |-> {}]
    /\ faults = 0 /\ jobs = 0 /\ strangers = 0 /\ torn = FALSE /\ moved = FALSE
    /\ taken = FALSE /\ lost = {}

Next ==
    \/ RenameFiles \/ SetLocation \/ Look \/ Step \/ StepFails \/ BackFails \/ End
    \/ MoverStarts \/ MoverStep \/ Toggle \/ FilesystemInit \/ Delete \/ Stranger

Spec == Init /\ [][Next]_vars

----------------------------------------------------------------------------
Settled == job = Idle /\ st \in {"paused", "live"}

\* Renaming and moving are all or nothing: unless a file could not be put back
\* or opened again, or the mover took them, every file lies under the storage's
\* root at the name the metadata give, and its handle knows.  No file of the
\* torrent is lost before it is deleted, even so, as long as the mover, which
\* overwrites, has not run.  A rename destroys nothing that was at its destination when
\* it looked (rename_locked "never clobbers"): only what came between the look and the
\* rename.  Starting again and deleting go by names, and reach files that are not the
\* torrent's only when a failed step or the mover left its own elsewhere.
StorageIsSound ==
    /\ Settled /\ ~torn /\ ~moved => /\ root = override
                                     /\ \A f \in Real : handle[f] = [path |-> <<root, names[f]>>, open |-> TRUE]
                                     /\ \A f \in Real : disk[<<root, names[f]>>] = {f}
    /\ ~moved /\ st # "deleted" => \A f \in Real : \E p \in Paths : disk[p] = {f}
    /\ \A l \in lost : l[2] = "rename" => taken
    /\ \A l \in lost : l[2] \in {"start", "delete"} => torn \/ moved
    /\ \A f, g \in Files : f # g => names[f] # names[g]

\* set_location relocates a stopped torrent when nothing is in the way and no step fails.
RelocationSucceeds == job.op = "unmove" => faults > 0 \/ strangers > 0 \/ moved
=============================================================================
