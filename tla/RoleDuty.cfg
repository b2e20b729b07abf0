\* The duty and an owner event, two launches, one trouble.
CONSTANTS
    o1 = o1  n1 = n1
    OwnerEvents = {o1}
    Notices = {}
    None = None
    Native = Native
    MaxDispatches = 2
    MaxTroubles = 1
SPECIFICATION DutySpec
INVARIANTS
    TurnsAreKnown
    ActiveStands
    ReceiptIsTrue
    GoalIsOwned
PROPERTY StopEnds
