CONSTANTS
    r = r
    a = a
    b = b
    c = c
    d = d
    Keys <- MCKeys
    Root <- r
    Chi0 <- MCChi0
    Par0 <- MCPar0
SPECIFICATION Spec
INVARIANTS
    TypeOK
    StructureConsistent
    SkippedOnlyBelowRemoved
PROPERTIES
    Terminates
    ImplementsBlockGraph
\* remove_block_if returns once the traversal stack is empty.
CHECK_DEADLOCK FALSE
