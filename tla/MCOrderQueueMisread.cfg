\* One order; one lookup fails.
CONSTANTS
    o1 = o1
    s1 = s1
    s2 = s2
    Orders = {o1}
    Slots = {s1, s2}
    Stamps = {1}
    NoMsg = NoMsg
    Nobody = Nobody
    Orphan = Orphan
    Consumers = 2
    SubmitCap = 1
    SubmitWorkers = 1
    ConfirmCap = 1
    ConfirmWorkers = 1
    ResubmitOn = FALSE
    RetryOnTimeout = TRUE
    MaxAttempts = 2
    DlqAuto = FALSE
    SameSecond = FALSE
    FaultKinds = {"read"}
    MaxFaults = 1
    MaxTries = 2
SPECIFICATION Spec
SYMMETRY Symmetry
INVARIANT RecordedWasAccepted
\* The queue rests when no order is to do.
CHECK_DEADLOCK FALSE
