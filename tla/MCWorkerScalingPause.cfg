\* One call at a time: a pause, and the loops.
CONSTANTS
    c1 = c1
    Calls = {c1}
    BootWorkers = 1
    MinWorkers = 1
    MaxWorkers = 3
    Deltas <- Steps
SPECIFICATION FairSpec
PROPERTY PauseLasts
