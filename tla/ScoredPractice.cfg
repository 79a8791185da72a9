\* The finite stock of sprints, check-ins and runs can be used up.
CHECK_DEADLOCK FALSE
CONSTANTS
    s1 = s1
    s2 = s2
    c1 = c1
    c2 = c2
    a1 = a1
    a2 = a2
    m1 = m1
    p = p
    q = q
    k1 = k1
    MinimumCredit = 7500
    FullCredit = 10000
    Sprint = {s1, s2}
    CheckIn = {c1, c2}
    Protocol = {p, q}
    Action = {a1, a2}
    Marker = {m1}
    ProtocolOf <- MCProtocolOf
    RunOf <- MCRunOf
    Composite = {s1, s2}
    Available = {p, q}
    ActionsOf <- MCActionsOf
    MinimumOf <- MCMinimumOf
    MarkersOf <- MCMarkersOf
    AllMarkers = {}
    Observable <- MCObservable
    NoSprint = NoSprint
    NoAction = NoAction
    NoReview = NoReview
    MaxRuns = 2
    Competency = {k1}
    ParentOf <- SharedParent
    NoState = NoState
SPECIFICATION PersistentSpec
PROPERTIES
    PublishesWhatIsEarned
    CloseoutOnlyRaises
    ReadyPracticesClose
