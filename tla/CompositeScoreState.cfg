CONSTANTS
    r1 = r1
    s1 = s1
    s2 = s2
    c1 = c1
    Run = {r1}
    Sprint = {s1, s2}
    Competency = {c1}
    RunOf <- OneRun
    CompetencyOf <- OneCompetency
    Credit = {3, 4}
    NoState = NoState
    NoSprint = NoSprint
    MaxRebuilds = 1
SPECIFICATION FairSpec
INVARIANTS
    TypeOK
    HistoryReplays
    BestStandingCredit
    OnlyDamageIsRejected
PROPERTIES
    OnlyAppends
    DamageBlocksCloseout
    KeepsPromise
    
