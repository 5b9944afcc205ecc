\* One order, resubmission and the scan of the dead letter queue switched on.
\* Two enqueue times tell copies of the order apart.
CONSTANTS
    o1 = o1
    s1 = s1
    s2 = s2
    Orders = {o1}
    Slots = {s1, s2}
    Stamps = {1, 2}
    NoMsg = NoMsg
    Nobody = Nobody
    Orphan = Orphan
    Consumers = 2
    SubmitCap = 1
    SubmitWorkers = 1
    ConfirmCap = 1
    ConfirmWorkers = 1
    ResubmitOn = TRUE
    RetryOnTimeout = TRUE
    MaxAttempts = 2
    DlqAuto = TRUE
    SameSecond = FALSE
    FaultKinds = {}
    MaxFaults = 0
    MaxTries = 3
SPECIFICATION Spec
SYMMETRY Symmetry
INVARIANTS ProcessingOwned FailedIsListed
PROPERTY LifecycleSpec
\* The queue rests when no order is to do.
CHECK_DEADLOCK FALSE
