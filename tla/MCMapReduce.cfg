CONSTANTS
    Worker = {w1, w2, w3}
    NoWorker = NoWorker
    NMap = 2
    NReduce = 2
    Emits <- MCEmits
    ihash <- MCihash
    MaxCrashes = 2
    MaxHangs = 1
    CrashAnywhere = FALSE
    Stalls = FALSE
    EarlyWorkers = TRUE
SYMMETRY Symmetry
SPECIFICATION Spec
INVARIANTS
    OwnerInv
    OutputComplete
    InputsComplete
    SoleExecutor
