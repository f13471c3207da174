CONSTANTS
    Worker = {w1, w2}
    NoWorker = NoWorker
    NMap = 2
    NReduce = 1
    Emits <- MCEmits
    ihash <- MCihash
    MaxCrashes = 1
    MaxHangs = 0
    CrashAnywhere = TRUE
    Stalls = TRUE
    EarlyWorkers = FALSE
SPECIFICATION FairSpec
INVARIANTS
    PhaseMatchesTasks
    BucketsKept
PROPERTIES
    DoneStays
    JobFinishes
