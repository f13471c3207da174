CONSTANTS
    Worker = {w1, w2}
    NoWorker = NoWorker
    NMap = 2
    NReduce = 1
    Emits <- MCEmits
    ihash <- MCihash
    MaxCrashes = 0
    MaxHangs = 1
    CrashAnywhere = FALSE
    Stalls = FALSE
    EarlyWorkers = FALSE
SPECIFICATION FairSpec
PROPERTIES
    JobFinishes
