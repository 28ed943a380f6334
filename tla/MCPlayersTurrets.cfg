SPECIFICATION Spec
CONSTANTS
    ann = ann
    bob = bob
    cid = cid
    Ids = {1, 2, 3}
    Names = {ann, bob, cid}
    Operators = {}
    UnassignedId = 65535
    Overtaking = FALSE
    MaxRiders = 2
    Commands = {}
    MaxInbox = 2
SYMMETRY Alike
INVARIANT TurretsMatch
