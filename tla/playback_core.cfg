SPECIFICATION Spec
CONSTANTS
    n1 = n1
    n2 = n2
    v1 = v1
    v2 = v2
    c1 = c1
    c2 = c2
    g1 = g1
    g2 = g2
    Nvrs = {n1}
    Servers = {v1, v2}
    Central = v1
    ServerOf <- MCServerOf
    maxSessionsPerNVR = 1
    Clients = {c1, c2}
    Sweeper = Sweeper
    Purgers = {g1, g2}
    BootPurger = g1
    Faults = {"add", "delete", "list"}
    MaxSessions = 2
    MaxReboots = 1
    Nobody = Nobody
    NoNvr = NoNvr
    NoSession = NoSession
INVARIANTS TypeOK SessionLimit SessionStreamed RelayMatches
SYMMETRY MCSymmetry
