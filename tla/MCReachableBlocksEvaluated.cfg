CONSTANTS
    r = r
    a = a
    b = b
    c = c
    d = d
    Keys <- MCKeys
    Root <- r
    Chi0 <- MCChi0
    Par0 <- MCPar0
SPECIFICATION Spec
INVARIANT ReachableBlocksEvaluated
CHECK_DEADLOCK FALSE
