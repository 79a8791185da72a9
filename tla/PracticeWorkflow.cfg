\* The finite stock of sprints, check-ins and runs can be used up.
CHECK_DEADLOCK FALSE
CONSTANTS
    s1 = s1
    s2 = s2
    legacy = legacy
    c1 = c1
    c2 = c2
    c3 = c3
    a1 = a1
    a2 = a2
    m1 = m1
    m2 = m2
    p = p
    strict = strict
    MinimumCredit = 7500
    FullCredit = 10000
    Sprint = {s1, s2, legacy}
    CheckIn = {c1, c2, c3}
    Protocol = {p, strict}
    Action = {a1, a2}
    Marker = {m1, m2}
    ProtocolOf <- MCProtocolOf
    RunOf <- MCRunOf
    Composite = {s1, s2}
    Available = {p, strict}
    ActionsOf <- MCActionsOf
    MinimumOf <- MCMinimumOf
    MarkersOf <- MCMarkersOf
    AllMarkers = {strict}
    Observable <- MCObservable
    NoSprint = NoSprint
    NoAction = NoAction
    NoReview = NoReview
    MaxRuns = 2
SPECIFICATION Spec
SYMMETRY CheckInSymmetry
INVARIANTS
    OneCurrentPractice
    ReviewsStayTrue
    CreditMatchesEvidence
    RepetitionsAreNumbered
PROPERTIES
    EvidenceFreezes
    ReadinessIsKept
