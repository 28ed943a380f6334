SPECIFICATION Spec
CONSTANTS
    Ann = Ann
    Bob = Bob
    Colon = Colon
    DefaultName = DefaultName
    Names <- MCNames
    Passwords <- MCPasswords
    Cut <- MCCut
    AskedLevels <- MCLevels
    InitialFiles <- MCFiles
    RunSilent = FALSE
    MaxChanges = 3
INVARIANTS TypeOK Ceiling SurvivesRestart
