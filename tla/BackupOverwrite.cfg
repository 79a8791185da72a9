CONSTANTS
    Moves = {"backup"}
    Process = {b1, b2}
    Path = {p1}
    MaxRows = 1
    MaxCrashes = 2
    MaxDamages = 1
    Absent = Absent
    Torn = Torn
    Idle = Idle
    MaxRequests = 4
    Histories <- MCHistories
    Draft = {"draft"}
    Feedback = {"feedback"}
    RetentionDays = 1
    MaxDay = 4
    MaxSessions = 2
    MaxPages = 1
    Worker = {w1, w2}
    Owner <- MCOwner
    Demo = {}
    MaxRevisions = 3
    MaxVersion = 2
    Action = {"a1", "a2"}
    Releases <- MCReleases
    MaxAccounts = 2
SPECIFICATION Spec
SYMMETRY Interchangeable
CHECK_DEADLOCK FALSE
INVARIANT
    SnapshotsAreKept
