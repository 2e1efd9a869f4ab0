SPECIFICATION MCSpec
CONSTANTS
    Hashes = {h1, h2}
    Tasks = {t1, t2}
    MaxId = 2
    MaxCrashes = 1
    MaxFailures = 1
    MaxCalls = 4
    LastPiece = 2
    Files <- TwoFiles
    Touch = {"lose"}
    MaxTouch = 1
    MaxStops = 2
    SettingsTasks = {"a", "b"}
    Categories = {"x", "y"}
    SavePaths = {"p"}
    Sanitized <- Plain
    Folders <- TwoFolders
    Completed <- NoneOrDone
    Torrents <- NoTorrents
    Options = {}
    SettingsMaxCalls = 2
    SettingsMaxCrashes = 1
    FoldersTasks = {}
    FoldersCategories = {"x", "x/y"}
    FoldersSavePaths = {"p", "q"}
    FoldersSanitized <- Underscored
    FoldersFolders <- CategoryFolders
    FoldersCompleted <- CompletedFolders
    FoldersTorrents <- TwoTorrents
    FoldersOptions <- AddOptions
    FoldersMaxCalls = 1
    FoldersMaxCrashes = 1
SYMMETRY Symmetry
INVARIANTS StoreMirrorsSession AnsweredIsDurable OneTorrentPerHash ResumeIsTruthful
    SettingsHold
CHECK_DEADLOCK FALSE
