CONSTANTS
    Key = {k1, k2}
    Value = {v1, v2, v3}
    NoValue = NoValue
    Client = {c1, c2}
    Disconnects = TRUE
    MaxDrops = 3
    MaxVersion = 2
SYMMETRY Symmetry
SPECIFICATION TestSpec
INVARIANTS
    AtMostOnce
    TruthfulOutcome
    Linearizable
    MaybeMeansTaken
    NoneFatal
    PutsCounted
    CheckPorcupine
