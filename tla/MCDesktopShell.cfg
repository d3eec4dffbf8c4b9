CONSTANTS
    s1 = s1
    c1 = c1
    Source = {s1, c1}
    Share = {s1}
    NoSource = NoSource
    RootOf <- MCRootOf
    Name = {"a", "b", "f", "x"}
    Tree <- MCTree
    Folder <- MCFolder
    MaxCalls = 2
    MaxFavorites = 1
SPECIFICATION ShellFairSpec
INVARIANTS BrowserInv ShowsLastAsked SourcesInv
PROPERTIES  SpinnerEnds
