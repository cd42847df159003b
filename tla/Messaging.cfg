SPECIFICATION Spec
CONSTANTS
    Threads = {h1, h2}
    Ttl = 2
    Resend = 1
    Hour = 2
    MaxPerHour = 2
    MaxTries = 1
    MaxCodes = 3
    MaxUses = 2
    MaxClock = 3
    Phones = {p1, p2}
    Chats = {c1, c2}
    NoChat = NoChat
    MaxAttempts = 2
    MaxMessages = 1
    MaxShares = 2
    MaxMishaps = 2
    Editors = {e1, e2}
    Steps = {1, 2}
    MaxBalance = 3
    MaxMoves = 2
    MaxEdits = 2
    NoBand = NoBand
    Nobody = Nobody
INVARIANTS
    CodeAdmitsOnce
    GuessesBounded
    HeardOnce
    TextIsMoneyUnlessOvertaken
PROPERTIES
    MessagesSettle
    LinkedAreTold
    CrossingsAreTold
CHECK_DEADLOCK FALSE
