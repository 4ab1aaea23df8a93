SPECIFICATION ServerSpec
CONSTANTS
    Sockets = {s1, s2}
    Users = {u1, u2}
    NoUser = NoUser
    GuestId = GuestId
    NoSession = NoSession
    Countries = {"any", "es", "fr"}
    Languages = {"any"}
    Interests = {}
    RawPreferences <- MCRawPreferences
    Malformed = Malformed
    first_socket = s1
    second_socket = s2
    NoPeer = NoPeer
    Pages = {1, 2}
    People = {1, 2}
    AccountOf <- Owners
    Befriended <- Friendship
    MaxConns = 3
    Capacity = 2
    Holders = {1, 2}
    Veterans = {1}
    Kinds = {"signup", "claim", "daily", "gift", "search", "adjust", "delete"}
    StartGrant = 2
    DailyReward = 1
    AdReward = 1
    Gift = 2
    MatchCost = 2
    Penalty = 1
    Cooldown = 2
    AdCap = 1
    DayTicks = 3
    MaxClock = 3
    MaxRequests = 2
    MaxFaults = 1
    MaxCrashes = 1
    Players = {1, 2, 3}
    Seated0 = {1, 2}
    MaxPlayers = 2
    MaxActive = 2
    MaxCalls = 3
    MaxGamesEver = 3
    MaxRows = 3
    MaxOpenCalls = 3
    MaxBondCalls = 6
    Folk = {1, 2, 3}
    MaxGroupsMade = 2
    MaxOffers = 1
    MaxOpenErrands = 2
    MaxErrands = 3
INVARIANTS
    TypeOK
    ServerTypeOK
    MutualAcceptance
    GuestFiltersDropped
    AggregateFaithful
    PresenceSettles
    LedgerIsTrue
    RecordsAreTrue
CHECK_DEADLOCK FALSE
