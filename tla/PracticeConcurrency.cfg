CONSTANTS
    w1 = w1
    w2 = w2
    s1 = s1
    s2 = s2
    c1 = c1
    c2 = c2
    a1 = a1
    a2 = a2
    m1 = m1
    p = p
    MinimumCredit = 7500
    FullCredit = 10000
    Worker = {w1, w2}
    Nobody = Nobody
    Sprint = {s1, s2}
    CheckIn = {c1, c2}
    Protocol = {p}
    Action = {a1, a2}
    Marker = {m1}
    ProtocolOf <- MCProtocolOf
    RunOf <- MCRunOf
    Composite = {s1, s2}
    Available = {p}
    ActionsOf <- MCActionsOf
    MinimumOf <- MCMinimumOf
    MarkersOf <- MCMarkersOf
    AllMarkers = {}
    Observable <- MCObservable
    NoSprint = NoSprint
    NoAction = NoAction
    NoReview = NoReview
    MaxRuns = 1
SPECIFICATION ConcurrentSpec
SYMMETRY Interchangeable
INVARIANTS
    WriterIsUpToDate
PROPERTIES
    Serialisable
