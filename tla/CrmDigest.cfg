\* One job, whose feed cuts unacknowledged events anew each time, or keeps its
\* digests while the job is created anew.
CONSTANTS
    MaxEvents = 2
    MaxDigests = 2
    MaxClaims = 3
    MaxKept = 1
    MaxKeptClaims = 2
SPECIFICATION Spec
INVARIANTS
    PendingIsComplete
    NothingOutstanding
PROPERTY PromiseKept
CHECK_DEADLOCK FALSE
