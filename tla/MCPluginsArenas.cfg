SPECIFICATION Spec
CONSTANTS
    A1 = A1
    A2 = A2
    Other = Other
    Discord = Discord
    Missing = Missing
    Arenas <- TwoArenas
    Linked <- OneArena
    Others <- MCOthers
    InitialLibraries <- MCInitialLibraries
    DllMaxLoaded = 2
    MaxRelays = 2
    MaxAsked = 2
    MaxLines = 2
INVARIANTS TypeOK 
CHECK_DEADLOCK FALSE
