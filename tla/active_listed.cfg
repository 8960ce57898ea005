SPECIFICATION Spec
CONSTANTS
    Sessions = {s1, s2}
    sessionActiveSeconds = 2
    sessionCleanupAge = 3
    DayLength = 5
    Clock = 9
    Absent = Absent
INVARIANT ActiveListed
CHECK_DEADLOCK FALSE
