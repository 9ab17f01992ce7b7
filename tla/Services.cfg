SPECIFICATION ServiceSpec
CONSTANTS
    dispatch = dispatch
    lookup = lookup
    None = None
    Calls = {c1, c2}
    Tools <- MCTools
    Keys = {k1}
    Inputs = {i1, i2}
    External <- MCOne
    ApprovalTools <- MCOne
    IdempotentTools = {lookup}
    MaxRetries <- MCMaxRetries
    MaxFaults = 1
    WorkRuns = {r1, r2}
    NumActions = 2
    MaxRaises = 1
    Kinds <- MCKinds
    MaxNetFaults = 1
    MaxRestarts = 1
    WatchedCases = {w1, w2}
    LegalPositions = {p1, p2}
    Unverified = Unverified
    ReviewLimit = 1
    MaxLawMoves = 2
    MaxAmends = 1
    MaxSilences = 1
    MaxAborts = 1
CHECK_DEADLOCK FALSE
INVARIANTS OneAnswerPerKey AnswersOwnInput DispatchIsSound NoUpdateIsLost ReportsAreSound
PROPERTY NothingWaitsForever
