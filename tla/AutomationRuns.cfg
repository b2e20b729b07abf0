\* One job, managed or a role's, over its whole life; leases of two seconds, so that a
\* heartbeat extends them.
CONSTANTS
    j1 = j1  j2 = j2  o1 = o1  o2 = o2  p1 = p1  p2 = p2
    Jobs = {j1, j2}
    Owners = {o1}
    Parties = {p1}
    NoOwner = NoOwner
    NoParty = NoParty
    HoldReasons = {"release"}
    Template <- DigestAndRole
    Schedules <- TwoSchedules
    Default <- AlwaysOn
    InWindow <- MCInWindow
    NextActive <- MCNextActive
    Delays = {}
    LeaseSeconds = 2
    MaxJobs = 1
    MaxTime = 4
    MaxRevision = 4
    MaxRuns = 2
    MaxTests = 1
    MaxIncidents = 2
SPECIFICATION Spec
INVARIANTS
    RunningHoldsFence
    NoDuplicateWork
    ScheduleFollowsSwitch
    IncidentAlertedOnce
    StatusTellsIncident
PROPERTIES
    ActiveLeaseNeverStolen
    OffRevokesClaim
