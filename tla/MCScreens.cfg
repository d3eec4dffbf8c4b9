CONSTANTS
    DetectedPlatform = {"macos", "windows", "linux", "unknown"}
    Path = {d1, d2}
    Query = {"q"}
    Medium = {"video"}
    MaxChanges = 3
    MaxPasses = 3
    ShareId = {s1}
    ConnectionId = {c1}
    File = {f1, f2, f3}
    Project = {p1}
    MAX_RECENT_FILES = 2
    Week = 2
    MaxDay = 4
    MaxAssets = 2
    Transfer = {t1, t2}
    MaxChunks = 2
    NoAsset = NoAsset
    CodeLength = {5, 6, 13}
    NoCode = NoCode
    MaxOpen = 1
    MaxCopies = 2
    NotLoaded = NotLoaded
SPECIFICATION ScreensFairSpec
INVARIANTS   IndexInv  PanelInv SiteInv JoinInv
PROPERTIES  IndexCatchesUp EveryExportReported
