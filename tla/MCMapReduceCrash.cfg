CONSTANTS
    Worker = {w1, w2}
    NoWorker = NoWorker
    NMap = 2
    NReduce = 1
    Emits <- MCEmits
    ihash <- MCihash
    MaxCrashes = 1
    MaxHangs = 0
    CrashAnywhere = TRUE
    Stalls = FALSE
    EarlyWorkers = FALSE
SYMMETRY Symmetry
SPECIFICATION Spec
INVARIANTS
    OutputComplete
