\* A test notification beside an alert, or the alert of a role's wake-up that died, whose
\* payload the daemon refuses: one job of either kind, up to archive; two daemon incarnations.
CONSTANTS
    j1 = j1  j2 = j2  o1 = o1  o2 = o2  p1 = p1
    Jobs = {j1, j2}
    Owners = {o1, o2}
    Parties = {p1}
    NoOwner = NoOwner
    NoParty = NoParty
    HoldReasons = {}
    Template <- DigestAndRole
    Schedules <- OneSchedule
    Default <- EverySecond
    InWindow <- Always
    NextActive <- Same
    Delays = {}
    LeaseSeconds = 1
    RetrySeconds = 1
    MaxJobs = 1
    MaxTime = 3
    MaxRevision = 3
    MaxRuns = 1
    MaxTests = 1
    MaxIncidents = 1
SPECIFICATION OutboxSpec
INVARIANTS
    StatusIsTrue
    NeverBlindlyResent
PROPERTIES
    ArchivedSendsNothing
SYMMETRY Incarnations
CHECK_DEADLOCK FALSE
