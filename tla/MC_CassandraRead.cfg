CONSTANTS
    Searches <- MCSearches
    Workers <- MCWorkers
    ReadQueueSize = 2
    ResultsSize = 1
SPECIFICATION Spec
INVARIANT TypeOK CanceledBeforeCheckNoQuery
PROPERTY SearchReturns WorkerNeverBlocked
CHECK_DEADLOCK FALSE
