SPECIFICATION FairSpec
CONSTANTS
    A1 = A1
    A2 = A2
    Other = Other
    Discord = Discord
    Missing = Missing
    Arenas <- OneArena
    Linked <- OneArena
    Others <- MCOthers
    InitialLibraries <- MCInitialLibraries
    DllMaxLoaded = 2
    MaxRelays = 2
    MaxAsked = 2
    MaxLines = 4
PROPERTIES RelaysInOrder NothingLeftBehind
CHECK_DEADLOCK FALSE
