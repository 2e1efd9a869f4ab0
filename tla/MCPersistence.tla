--------------------------- MODULE MCPersistence ---------------------------
(***************************************************************************)
(* What survives a restart, for TLC: the session's database with its JSON  *)
(* store, the fast resume record of one torrent, the stored settings, and the*)
(* folders torrents are placed in.  They share no state but files of different*)
(* names, so a behaviour moves one of them (`part').                       *)
(***************************************************************************)
EXTENDS SessionStore, Resume, TLC

CONSTANTS SettingsTasks, Categories, SavePaths, Sanitized, Folders, Completed, Torrents,
          Options, SettingsMaxCalls, SettingsMaxCrashes, FoldersTasks, FoldersCategories,
          FoldersSavePaths, FoldersSanitized, FoldersFolders, FoldersCompleted,
          FoldersTorrents, FoldersOptions, FoldersMaxCalls, FoldersMaxCrashes

VARIABLES part, cats, outputFolder, completedFolder, inode, catFile, catTmp, settingsLagging,
          settingsContent, settingsFile, settingsTask, opts, possible, disturbed, wiped,
          settingsTorrents, stale, settingsCalls, settingsCrashes, foldersCats,
          foldersOutputFolder, foldersCompletedFolder, foldersInode, foldersCatFile,
          foldersCatTmp, foldersLagging, foldersContent, foldersFile, foldersTask,
          foldersOpts, foldersPossible, foldersDisturbed, foldersWiped, foldersTorrents,
          foldersStale, foldersCalls, foldersCrashes

C == INSTANCE SessionSettings WITH Tasks <- SettingsTasks, MaxCalls <- SettingsMaxCalls,
       MaxCrashes <- SettingsMaxCrashes, lagging <- settingsLagging,
       content <- settingsContent, file <- settingsFile, task <- settingsTask,
       torrents <- settingsTorrents, calls <- settingsCalls, crashes <- settingsCrashes
F == INSTANCE SessionSettings WITH Tasks <- FoldersTasks, Categories <- FoldersCategories,
       SavePaths <- FoldersSavePaths, Sanitized <- FoldersSanitized,
       Folders <- FoldersFolders, Completed <- FoldersCompleted,
       Torrents <- FoldersTorrents, Options <- FoldersOptions, MaxCalls <- FoldersMaxCalls,
       MaxCrashes <- FoldersMaxCrashes, cats <- foldersCats,
       outputFolder <- foldersOutputFolder, completedFolder <- foldersCompletedFolder,
       inode <- foldersInode, catFile <- foldersCatFile, catTmp <- foldersCatTmp,
       lagging <- foldersLagging, content <- foldersContent, file <- foldersFile,
       task <- foldersTask, opts <- foldersOpts, possible <- foldersPossible,
       disturbed <- foldersDisturbed, wiped <- foldersWiped,
       torrents <- foldersTorrents, stale <- foldersStale, calls <- foldersCalls,
       crashes <- foldersCrashes

settingsVars == <<cats, outputFolder, completedFolder, inode, catFile, catTmp,
                  settingsLagging, settingsContent, settingsFile, settingsTask, opts,
                  possible, disturbed, wiped, settingsTorrents, stale, settingsCalls, settingsCrashes>>
foldersVars == <<foldersCats, foldersOutputFolder, foldersCompletedFolder, foldersInode,
                 foldersCatFile, foldersCatTmp, foldersLagging, foldersContent,
                 foldersFile, foldersTask, foldersOpts, foldersPossible, foldersDisturbed,
                 foldersWiped, foldersTorrents, foldersStale, foldersCalls, foldersCrashes>>
allVars == <<part, vars, resumeVars, settingsVars, foldersVars>>

TwoFiles == <<0..1, 1..2>>
Plain == [c \in Categories |-> c]
TwoFolders == {<<"d">>, <<"e">>}
NoneOrDone == {{}, {<<"done">>}}
NoTorrents == <<>>

Underscored == [c \in {"x", "x/y"} |-> IF c = "x/y" THEN "x_y" ELSE c]
CategoryFolders == {<<"d">>, <<"d", "{category}">>}
CompletedFolders == {{}, {<<"done">>}, {<<"done", "{category}">>}}
TwoTorrents == <<[multi |-> TRUE, name |-> "m", files |-> 2, matched |-> {1}],
                 [multi |-> TRUE, name |-> "n", files |-> 2, matched |-> {}]>>
With(f, s, r, l, x) == [folder |-> f, sub |-> s, root |-> r, only |-> l, regex |-> x]
AddOptions == {With({}, {}, {}, {}, FALSE), With({<<"e", "{category}">>}, {}, {}, {{1}}, FALSE),
               With({}, {<<"{category}">>}, {}, {}, TRUE), With({}, {}, {<<"r">>}, {{0}}, FALSE),
               With({<<"e">>}, {}, {<<"r">>}, {}, FALSE)}

Symmetry == Permutations(Hashes) \union Permutations(Tasks)

\* The variables of a part that does not move.
settingsOff == cats = 0 /\ outputFolder = 0 /\ completedFolder = 0 /\ inode = 0 /\ catFile = 0 /\
               catTmp = 0 /\ settingsLagging = 0 /\ settingsContent = 0 /\ settingsFile = 0 /\
               settingsTask = 0 /\ opts = 0 /\ possible = 0 /\ disturbed = 0 /\ wiped = 0 /\ settingsTorrents = 0 /\
               stale = 0 /\ settingsCalls = 0 /\ settingsCrashes = 0
foldersOff == foldersCats = 0 /\ foldersOutputFolder = 0 /\ foldersCompletedFolder = 0 /\
              foldersInode = 0 /\ foldersCatFile = 0 /\ foldersCatTmp = 0 /\ foldersLagging = 0 /\
              foldersContent = 0 /\ foldersFile = 0 /\ foldersTask = 0 /\ foldersOpts = 0 /\
              foldersPossible = 0 /\ foldersDisturbed = 0 /\ foldersWiped = 0 /\ foldersTorrents = 0 /\ foldersStale = 0 /\
              foldersCalls = 0 /\ foldersCrashes = 0

MCInit ==
    /\ part \in {"store", "resume", "settings", "folders"}
    /\ Init
    /\ ResumeInit
    /\ IF part = "settings" THEN C!Init ELSE settingsOff
    /\ IF part = "folders" THEN F!Init ELSE foldersOff
MCNext ==
    /\ UNCHANGED part
    /\ \/ part = "store" /\ Next /\ UNCHANGED <<resumeVars, settingsVars, foldersVars>>
       \/ part = "resume" /\ ResumeNext /\ UNCHANGED <<vars, settingsVars, foldersVars>>
       \/ part = "settings" /\ C!Next /\ UNCHANGED <<vars, resumeVars, foldersVars>>
       \/ part = "folders" /\ F!Next /\ UNCHANGED <<vars, resumeVars, settingsVars>>
MCSpec == MCInit /\ [][MCNext]_allVars

\* Categories and folders that a request was told are stored are there after a restart, unless
\* requests overlapped or one failed, the crash came before their data was written (then no
\* category is left), or the command line names the completed folder; and torrents that had
\* folders of their own still have them when they are moved to the completed folder.
SettingsHold ==
    /\ part = "settings" => C!SettingsAreStored /\ C!CompletedStayApart
    /\ part = "folders" => F!SettingsAreStored /\ F!CompletedStayApart
=============================================================================
