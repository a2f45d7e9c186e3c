--------------------------- MODULE MCGroupAccess ----------------------------
EXTENDS GroupAccess, TLC

CONSTANTS root, a, b, c, p1, p2, g1, g2, cohort, enrollment

\* A diamond: root -> a, root -> b, a -> c, b -> c.
MCBlocks == {root, a, b, c}
MCParents == (root :> {}) @@ (a :> {root}) @@ (b :> {root}) @@ (c :> {a, b})
MCPartitions == {p1, p2}
MCGroups == {g1, g2}
MCSchemes == {cohort, enrollment}
\* p1 is a cohort partition, p2 one of a scheme INCLUDE_SCHEMES leaves out.
MCScheme == (p1 :> cohort) @@ (p2 :> enrollment)
MCIncludeSchemes == {cohort}
\* A partition left out of group_access or set to [], one group, the other
\* group, and None.
MCSettings == {{}, {g1}, {g2}, None}
=============================================================================
