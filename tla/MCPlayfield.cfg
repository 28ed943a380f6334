SPECIFICATION FairSpec
CONSTANTS
    TileMax = 4
    TileSize = 4
    Maps <- MCMaps
    Cached <- MCCached
    Garbage = {2}
    FieldTeams = {0, 1}
    UnassignedTeam = 65535
    BrickIds = {7, 8}
    BrickTime = 1
    BallIds = {0, 1}
    SoccerMaps <- MCSoccer
    BallDelay = 0
    MaxTime = 2
INVARIANTS FieldTypeOK TurfTeams BrickOnce
PROPERTIES BricksStand ItemsGo
