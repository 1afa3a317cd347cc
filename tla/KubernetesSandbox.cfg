SPECIFICATION FairSpec
CONSTANT Runs = {r}
\* A call of run_test ends, and then nothing more happens.
CHECK_DEADLOCK FALSE
INVARIANTS
    IsolatedUntilCleanedUp
    NothingLeftBehind
    VerdictExplained
PROPERTIES
    RunEnds
