SPECIFICATION Spec
CONSTANTS
    usr = usr
    adm = adm
    p1 = p1
    p2 = p2
    g1 = g1
    g2 = g2
    c1 = c1
    c2 = c2
    c3 = c3
    k1 = k1
    k2 = k2
    s1 = s1
    s2 = s2
    Users = {usr, adm}
    Admins = {adm}
    Config = {adm}
    Logins = {p1, p2}
    Toggles = {g1, g2}
    maxLoginAttempts = 2
    NoEntry = NoEntry
    NoUser = NoUser
    Sessions = {s1, s2}
    sessionActiveSeconds = 2
    sessionCleanupAge = 3
    DayLength = 5
    Clock = 9
    Absent = Absent
    logBufferSize = 2
    logFlushSize = 2
    MaxEntries = 6
    Calls = {c1, c2, c3}
    Conns = {k1, k2}
    NoConn = NoConn
    NoCall = NoCall
INVARIANTS TypeOK  AllowedAgrees OnlyActiveListed  OneConnection
           CredentialsWork PlayAsAsked
PROPERTIES LogSpec Drains 
