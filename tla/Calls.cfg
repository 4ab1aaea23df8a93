SPECIFICATION CallsSpec
CONSTANTS
    MaxPcs = 2
    MaxRestarts = 1
    Members = {1, 2, 3}
    MaxRematches = 1
    MaxLeavers = 1
    MaxSockets = 2
    MaxClicks = 2
    MaxPushes = 1
    MaxReadies = 2
    MaxFrames = 1
    MaxSeatings = 2
    MaxRefusals = 1
INVARIANTS
    CallsTypeOK
    NoConnectionLeaks
    NoCandidateLost
    SocketsAgree
    SessionIsTrue
PROPERTIES
    SoloConnects
    MeshConnects
    SessionObeys
    GameIsServed
CHECK_DEADLOCK FALSE
