SPECIFICATION FairSpec
CONSTANTS
    r1 = r1
    r2 = r2
    r3 = r3
    row1 = row1
    row2 = row2
    None = None
    Request <- ThreeRequests
    Watched <- FirstRequest
    MaxConns = 2
    Row <- TwoRows
CHECK_DEADLOCK FALSE
INVARIANT TypeOK
INVARIANT ExitCutsNoTransaction
INVARIANT CleanExitCutsNobody
INVARIANT OnlyRowsMakeCircles
PROPERTY Progress
PROPERTY ShutdownEnds
