CONSTANTS
    None = None
    Moves = {"typed"}
    Field = {"f1", "f2", "f3", "f4"}
    EvidenceRules <- MCEvidenceRules
    MaxIndex = 5
    Support = {"guided", ""}
    Practice = {1, 2}
    Form <- MCForm
    Base = {0, 2, 5000}
    Capacity <- MCCapacity
    Levers = {1, 2}
    Competencies = {1, 2}
    Weight <- MCWeight
    Protocol = {1, 2, 3, 4, 5}
    ParentOf <- MCParentOf
    Active = {1, 2, 3, 5}
    Gap = {None, 0, 7, 10}
    Confidence = {0, 100}
    Remaining = {0, 3000}
    Core <- MCCore
    Capability = {"k1", "k2"}
    Orientation = {"o1"}
    AllowsNA = {"c2", "k1"}
    CapabilityLimit = 1
    OrientationLimit = 1
    SmallCell = 2
    MinRetest = 2
    Inputs <- MCInputs
    Posted <- MCPosted
    MaxPosts = 2
    Actions <- MCActions
    Facts <- MCFacts
    Values <- MCValues
    States = {"observed", "withheld"}
    Event = {1, 2, 3}
    Candidate <- MCCandidate
    Policy <- MCPolicy
    Today = 2
    LeverShare <- MCShare
    Baseline <- MCBaseline
    Policies <- MCPolicies
    Catalogs <- MCCatalogs
    Assessments <- MCAssessments
    Credits = {7500, 10000}
SPECIFICATION Spec
CHECK_DEADLOCK FALSE
INVARIANT
    DraftsAreRestored
