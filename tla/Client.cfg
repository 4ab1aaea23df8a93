SPECIFICATION ClientSpec
CONSTANTS
    Acquirers = {1, 2}
    Cameras = {1, 2}
    Mics = {1}
    MaxAcquires = 2
    MaxPlugs = 1
    MaxToggles = 1
    Publishers = {1, 2}
    MaxMics = 3
    MaxPublishes = 3
    Links = {1, 2}
    MaxLinkings = 2
    MaxPackets = 1
    MaxSamples = 1
    Opening = 5
    MaxMoves = 4
    MaxResets = 2
    MaxGameReloads = 1
    MaxCalls = 2
    MaxGroups = 2
    MaxGames = 2
    MaxInvites = 1
    MaxPartings = 1
    Speakers = {1, 2}
    Loudness = {0, 60}
    HoldSamples = 1
    MaxLevelSamples = 3
    MaxJoins = 2
    Accounts = {1, 2}
    BirthOf <- Births
    MaxLogins = 1
    MaxReloads = 1
    MaxExpiries = 1
    MaxLost = 1
    Strangers = {1, 2, 3}
    Guests = {3}
    MaxMeetings = 2
    MaxOrders = 1
    MaxNotices = 1
    ChatGroups = {"g"}
    ChatFriends = {"f"}
    KeptNotes = 1
    MaxMessages = 2
    MaxOpens = 2
    MaxLoads = 2
    People = {1}
    Invitable = {2}
    MaxChanges = 3
    MaxReads = 3
    MaxTexts = 2
    MaxPhotos = 1
    MaxMounts = 2
    MaxEdits = 2
    MaxFaults = 1
    Profiles = {1, 2}
    MaxVisits = 2
    MaxToggled = 2
    MaxPageFaults = 1
    Purse = 1
    Reward = 1
    Price = 1
    MaxAsks = 3
    MaxSpends = 1
    Reported = {1}
    Bannable = {2}
    MaxConsoleAsks = 3
    MaxFilters = 1
    Members = {1}
    Values = {0, 1}
    MaxPicks = 2
    MaxPatches = 1
    MaxReturns = 1
    MaxSignIns = 1
    MaxStrays = 1
INVARIANTS
    ClientTypeOK
    MediaIsTrue
    GamesAreTrue
    StageIsTrue
    IdentityIsTrue
    ReportsHitTheirTile
    SocialIsTrue
    ChosenIsKept
    QuietPagesAreTrue
CHECK_DEADLOCK FALSE
