SPECIFICATION Spec
CONSTANTS
    Ids = {1, 2, 3}
    Teams = {0, 1}
    FlagIds = {1, 2}
    Spots = {"here", "there"}
    NoTeam = 65535
    MaxInbox = 2
INVARIANTS TypeOK FlagsMatch NoFlagTwice
