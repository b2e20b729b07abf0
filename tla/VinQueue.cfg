\* A VIN job and a public one, one call at a time, two troubles.
CONSTANTS
    VinJobs = {v1}
    PublicJobs = {p1}
    Units = {u1, u2}
    Callers = {c1}
    None = None
    Lost = Lost
    Seconds = 2
    MaxTroubles = 2
SPECIFICATION QueueSpec
INVARIANTS
    WorkIsScheduled
    OneActive
    TriedTwiceAtMost
    FinalIsQuiet
SYMMETRY Alike
