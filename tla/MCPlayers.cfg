SPECIFICATION Spec
CONSTANTS
    Ids = {1, 2}
    Names = {"ann", "bob"}
    Operators = {"ann"}
    UnassignedId = 65535
    Overtaking = FALSE
    MaxRiders = 1
    Commands = {"own", "give", "ownbot", "follow", "login", "logout"}
    MaxInbox = 2
INVARIANTS TypeOK PlayersMatch OwnerTracked FollowsSomebody
