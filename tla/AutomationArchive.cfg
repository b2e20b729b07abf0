\* What archive leaves behind.
CONSTANTS
    j1 = j1  j2 = j2  o1 = o1  o2 = o2  p1 = p1  p2 = p2
    Jobs = {j1}
    Owners = {o1}
    Parties = {p1}
    NoOwner = NoOwner
    NoParty = NoParty
    HoldReasons = {"release"}
    Template <- AllSingletons
    Schedules <- OneSchedule
    Default <- AlwaysOn
    InWindow <- MCInWindow
    NextActive <- MCNextActive
    Delays = {}
    LeaseSeconds = 1
    MaxJobs = 1
    MaxTime = 3
    MaxRevision = 4
    MaxRuns = 2
    MaxTests = 1
    MaxIncidents = 1
SPECIFICATION Spec
INVARIANT ArchivedHasNoPendingDelivery
