SPECIFICATION FairSpec
CONSTANTS
    parent = parent
    child = child
    m1 = m1
    g1 = g1
    g2 = g2
    Processes <- Processes2
    Neighbours <- Neighbours2
    Conns <- Conns3
    ProcessOf <- ProcessOf3
    Role <- Role3
    MaxToken = 2
    MaxGeneration = 2
INVARIANT HandedOver
INVARIANT KeptExpires
INVARIANT ConsumedOnce
PROPERTY WaitEnds
CHECK_DEADLOCK FALSE
