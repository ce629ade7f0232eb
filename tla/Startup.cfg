\* Two generated pairs, any number of starts and crashes.
SPECIFICATION Spec
CONSTANTS
    Text <- MCText
    Inside <- MCInside
    Number <- MCNumber
    Resolves <- MCResolves
    Shared <- MCShared
    Files <- MCFiles
    Layouts <- MCLayouts
    Pairs <- MCPairs
INVARIANTS
    TypeOK
    SavedConfigReadsBack
    PairsStayTogether
    RestartKeepsKeys
    IniMatchesDaemon
