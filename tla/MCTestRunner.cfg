SPECIFICATION FairSpec
CONSTANTS
    None = None
    Work <- MCWork
    Worker = {w1, w2}
    Valgrind = TRUE
    Translate = TRUE
    Outcome <- MCOutcome
INVARIANTS
    TypeOK
    EachJobOnce
    LeavesNoWork
    SuccessIsComplete
    ResultsComplete
PROPERTIES
    Ends
