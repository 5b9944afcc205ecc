\* Two calls at a time, and a channel that may have one to three workers.
CONSTANTS
    c1 = c1
    c2 = c2
    Calls = {c1, c2}
    BootWorkers = 1
    MinWorkers = 1
    MaxWorkers = 3
    Deltas <- Steps
SPECIFICATION FairSpec
INVARIANTS TypeOK WorkersCounted WorkersBounded
PROPERTY SettlesInBounds
