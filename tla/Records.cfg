CONSTANTS
    Moves = {"legacy", "evidence", "weekly", "contexts", "wizard"}
    None = None
    Worker = {w1, w2}
    MaxRequests = 3
    Run = {"r1", "r2"}
    LegacyProtocol = {"p1", "p2"}
    LegacyCheckIn = {"e1", "e2", "e3"}
    RunOf <- MCRunOf
    ProtocolOf <- MCProtocolOf
    Counts = {"e1", "e3"}
    NoBaseline = {"e3"}
    RunOrder <- MCRunOrder
    MaxHistory = 3
    CheckIn = {1, 2, 3, 4}
    Group = {"g1", "g2"}
    GroupOf <- MCGroupOf
    MaxWall = 4
    ClockMayGoBack = TRUE
    Sprint = {"s1"}
    Action = {"a1"}
    SprintOf <- MCSprintOf
    Day = {1, 2}
    Decision = {1}
    WeekLength = 4
    MaxTime = 5
    MaxPlans = 2
    MaxEvents = 1
    ReviewsFirst = 2
    Protocol = {"protocol"}
    Value = {"unknown", "chosen"}
    Unknown = "unknown"
    MaxEpoch = 2
    MaxRevisions = 3
    Tab = {"t1", "t2"}
    Label = {1}
    MaxDay = 2
SPECIFICATION Spec
SYMMETRY Interchangeable
CHECK_DEADLOCK FALSE
INVARIANTS
    LegacyScoresAreVerified
    EvidenceIsComplete
    WeeklyReviewsStayTrue
    RevisionsAreTrue
    StartsOnlyWhatWasReviewed
PROPERTIES
    RecordsAreKept
