CONSTANTS
    root = root   a = a   b = b   c = c
    p1 = p1   p2 = p2   g1 = g1   g2 = g2
    cohort = cohort   enrollment = enrollment
    None = None   Universe = Universe   NoGroup = NoGroup   NotComputed = NotComputed
    Blocks <- MCBlocks
    Root = root
    Parents <- MCParents
    Partitions <- MCPartitions
    Groups <- MCGroups
    Schemes <- MCSchemes
    Scheme <- MCScheme
    IncludeSchemes <- MCIncludeSchemes
    Settings <- MCSettings
SPECIFICATION Spec
INVARIANTS TypeOK DeniedByAllParentsDenied NeverWiderThanIntended
\* Once every block is merged, or a constructor has raised, nothing is left
\* to do: the computation stops.
CHECK_DEADLOCK FALSE
