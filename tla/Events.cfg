SPECIFICATION Spec
CONSTANTS
    e1 = e1
    e2 = e2
    AllowChangeMaster = TRUE
    Codes = {7}
    MaxActor = 2
    Raises <- Raises2
    Asks <- AllAsks
    Groups = {1}
    MaxChanges = 1
INVARIANT TypeOK
INVARIANT CacheDelivered
INVARIANT CacheOrder
INVARIANT PurgedUnlessLate
SYMMETRY Symmetry
CHECK_DEADLOCK FALSE
