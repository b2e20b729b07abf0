\* The VIN job alone, one trouble: work is added while the worker starts again.
CONSTANTS
    VinJobs = {v1}
    PublicJobs = {}
    Units = {u1, u2}
    Callers = {c1}
    None = None
    Lost = Lost
    Seconds = 2
    MaxTroubles = 1
SPECIFICATION QueueSpec
PROPERTY AddedIsCollected
