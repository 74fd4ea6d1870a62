CONSTANTS
    o1 = o1  o2 = o2  c1 = c1  c2 = c2  t1 = t1  r1 = r1  r2 = r2  s1 = s1  s2 = s2
    Ops = {o1, o2}
    Cookies = {c1, c2}
    States = {t1}
    Subjects = {s1, s2}
    Requests = {r1, r2}
    Intents <- MCIntents
    Commands <- MCCommands
    Upkeep <- MCUpkeep
    LegacyDocument <- MCLegacy
    Directories <- MCDirectories
    MAX_PENDING_ACTIVATIONS = 2
    OAuthCapacity = 1
    MaxUpkeep = 1
    MaxServed = 3
    MaxPasswords = 2
    MaxTasks = 3
    MaxChanges = 3
    MaxCalls = 1
    FETCH_LIMIT = 2
    PageLimit = 1
SYMMETRY MCSymmetry
SPECIFICATION AccessSpec
CHECK_DEADLOCK FALSE
INVARIANTS
    DirectoryIsSound SessionsAreSound PagesAreComplete DetailIsOneMoment
PROPERTIES
    AuthorityIsCurrent AccessStoresAgree
