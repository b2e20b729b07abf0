SPECIFICATION TurnsSpec
CONSTANTS
    Peers = {p1}
    Events = {e1, e2}
    Jobs = {j1, j2}
    Effects = {f1, f2}
    Kinds = {"result"}
    NoPeer = NoPeer
    NoJob = NoJob
    MaxTroubles = 2
SYMMETRY Alike
INVARIANT ContinuationAdopted
CHECK_DEADLOCK FALSE
