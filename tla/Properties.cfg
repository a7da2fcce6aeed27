SPECIFICATION Spec
CONSTANTS
    k1 = k1
    v1 = v1
    v2 = v2
    w1 = w1
    w2 = w2
    w3 = w3
    NoKey = NoKey
    NoValue = NoValue
    Unconditional = Unconditional
    AllowChangeMaster = TRUE
    MaxActor = 2
    Keys <- Keys1
    Values <- Values2
    Writes <- Writes3
    Silence = FALSE
INVARIANT TypeOK
INVARIANT ViewsCurrent
INVARIANT NoLostUpdate
SYMMETRY Symmetry
CHECK_DEADLOCK FALSE
