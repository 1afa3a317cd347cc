SPECIFICATION ReleaseSpec
CONSTANTS
    Null = Null
    Resolution = 1000
    NoQuestion = NoQuestion
    Dataset <- ThreeCases
    Evaluators <- AllEvaluators
    Concurrency = 2
    Trials <- SmallTrials
CHECK_DEADLOCK FALSE
INVARIANT CreditEarned
