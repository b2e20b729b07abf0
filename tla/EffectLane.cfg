\* Four submissions for two jobs and none, one place in the queue.
CONSTANTS
    i1 = i1  i2 = i2  i3 = i3  i4 = i4  j1 = j1  j2 = j2
    Items = {i1, i2, i3, i4}
    Jobs = {j1, j2}
    NoJob = NoJob
    JobOf <- Shared
    Capacity = 1
SPECIFICATION Spec
INVARIANTS
    OneOperation
    RefusedNeverBegins
    JobWorkIsVisible
PROPERTIES
    AnsweredWhileOpen
    RefusedIsWoken
    CloseEnds
CHECK_DEADLOCK FALSE
