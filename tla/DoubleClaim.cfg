SPECIFICATION Spec
CONSTANTS
    s1 = s1
    s2 = s2
    s3 = s3
    s4 = s4
    u1 = u1
    u2 = u2
    u3 = u3
    u4 = u4
    Sockets = {s1, s2, s3}
    Users = {u1, u2, u3}
    NoUser = NoUser
    GuestId = GuestId
    NoSession = NoSession
    Countries = {"any"}
    Languages = {"any"}
    Interests = {"music"}
    MaxRooms = 2
    NoSocket = NoSocket
    NoRoom = NoRoom
    NoGroup = NoGroup
    NoPair = NoPair
    UserOf <- OpenUserOf
    PrefsOf <- OpenPrefsOf
    MessagesOf <- DirectMessagesOf
    CooldownEnds = FALSE
INVARIANT
    OneClaim
CHECK_DEADLOCK FALSE
