SPECIFICATION FairSpec
CONSTANTS
    reminder = reminder
    support = support
    draft = draft
    moved = moved
    None = None
    AnyState = AnyState
    Workers = {w1, w2}
    Jobs <- MCJobs
    CaseStates <- MCCaseStates
    Expected <- MCExpected
    DueIn <- MCDueIn
    Unmapped <- MCUnmapped
    MaxAttempts = 2
    MaxDelay = 2
    StaleAfter = 1
    MaxAbandons = 1
INVARIANTS Exclusive SentIsPosted AttemptsBounded
PROPERTIES TerminalIsFinal EveryCardEnds
