---------------------------- MODULE GroupAccess -----------------------------
(***************************************************************************)
(* Merged group access of the blocks of a course (user_partitions.py):    *)
(* MergedGroupAccess.__init__ builds, for one block, the groups allowed    *)
(* per user partition from the block's own group_access and the merged     *)
(* access of its parents; _intersection reads None as the universe set;    *)
(* check_group_access decides whether a user's groups pass every           *)
(* restricted partition; UserPartitionTransformer._get_user_partition_groups*)
(* computes a user's groups.                                               *)
(*                                                                         *)
(* The constructor takes its parents' MergedGroupAccess objects, so a      *)
(* block is merged only once every parent is: ComputeAccess is enabled for *)
(* a block whose parents are all merged, in any order that allows.         *)
(*                                                                         *)
(* Data abstraction.  A group_access list is the set of its ids (the code  *)
(* applies set() to it); a partition missing from group_access and the     *)
(* list [] take the same path (.get(partition.id, [])), so both are {}.    *)
(* The value None is kept apart: set(None) raises TypeError.  A merged     *)
(* access maps every partition to a set of group ids, or to Universe when  *)
(* the partition is not a key of _access.                                  *)
(***************************************************************************)
EXTENDS FiniteSets

CONSTANTS
    Blocks,         \* usage keys of the course
    Root,           \* the course block
    Parents,        \* Parents[b]: keys get_parents(b) returns
    Partitions,     \* ids of the course's user_partitions
    Groups,         \* group ids
    Schemes,        \* partition schemes
    Scheme,         \* Scheme[p]: the scheme of partition p
    IncludeSchemes, \* INCLUDE_SCHEMES
    None,           \* Python None as a group_access value
    Universe,       \* "partition not in _access": every group allowed
    Settings,       \* the group_access values the blocks are given
    NoGroup,        \* get_group_for_user returned None
    NotComputed     \* no MergedGroupAccess built yet for the block

ASSUME GroupAccessAssumption ==
    /\ Root \in Blocks
    /\ Parents \in [Blocks -> SUBSET Blocks]
    /\ Parents[Root] = {}
    /\ Scheme \in [Partitions -> Schemes]
    /\ IncludeSchemes \subseteq Schemes
    /\ \A v \in Settings : v = None \/ v \subseteq Groups

\* The sentinels are none of the values they stand apart from.
ASSUME SentinelAssumption ==
    /\ None # Universe
    /\ \A S \in SUBSET Groups : S # None /\ S # Universe
    /\ \A f \in [Partitions -> (SUBSET Groups) \cup {Universe}] : f # NotComputed

\* What get_group_for_user may return for a partition.
Assignments == [Partitions -> Groups \cup {NoGroup}]

VARIABLES
    groupAccess,    \* groupAccess[b][p]: the xblock's group_access setting
    merged,         \* merged[b]: the block's MergedGroupAccess._access
    failed          \* a constructor raised TypeError

vars == <<groupAccess, merged, failed>>

(***************************************************************************)
(* MergedGroupAccess._intersection of two sets, None being the universe.   *)
(***************************************************************************)
Intersection(x, y) ==
    IF x = Universe THEN y
    ELSE IF y = Universe THEN x
    ELSE x \cap y

\* set(block_group_access.get(partition.id, [])) or None
BlockGroupIds(b, p) ==
    IF groupAccess[b][p] = {} THEN Universe ELSE groupAccess[b][p]

\* parents_group_ids: the parents whose _access has the partition.
ParentsGroupIds(b, p) ==
    {merged[q][p] : q \in {q \in Parents[b] : merged[q][p] # Universe}}

\* set().union(*parents_group_ids) if parents_group_ids != [] else None
MergedParentGroupIds(b, p) ==
    IF ParentsGroupIds(b, p) = {} THEN Universe
    ELSE UNION ParentsGroupIds(b, p)

\* Mutant: the block's own groups replace its parents' instead of
\* intersecting them ("block_group_ids or merged_parent_group_ids").
MergeOwnOverridesParents(b) ==
    [p \in Partitions |->
        IF BlockGroupIds(b, p) # Universe THEN BlockGroupIds(b, p)
        ELSE MergedParentGroupIds(b, p)]

\* The _access MergedGroupAccess.__init__ builds for block b.
Merge(b) ==
    [p \in Partitions |->
        Intersection(BlockGroupIds(b, p), MergedParentGroupIds(b, p))]

(***************************************************************************)
(* check_group_access(user_groups): a restricted partition the user has no *)
(* group in, or whose allowed groups miss the user's group, denies.        *)
(***************************************************************************)
CheckGroupAccess(acc, userGroups) ==
    \A p \in {q \in Partitions : acc[q] # Universe} :
        p \in DOMAIN userGroups /\ userGroups[p] \in acc[p]

\* _get_user_partition_groups: the included schemes' partitions in which
\* get_group_for_user (assign=False) found a group.
GetUserPartitionGroups(assignment) ==
    LET withGroup == {p \in Partitions :
                        Scheme[p] \in IncludeSchemes /\ assignment[p] # NoGroup}
    IN  [p \in withGroup |-> assignment[p]]

Init ==
    /\ groupAccess \in [Blocks -> [Partitions -> Settings]]
    /\ merged = [b \in Blocks |-> NotComputed]
    /\ failed = FALSE

\* Mutant: the constructor runs on a None setting as if it were a list.
ComputeAccessIgnoringNone(b) ==
    /\ ~failed
    /\ merged[b] = NotComputed
    /\ \A q \in Parents[b] : merged[q] # NotComputed
    /\ merged' = [merged EXCEPT ![b] = Merge(b)]
    /\ UNCHANGED <<groupAccess, failed>>

\* MergedGroupAccess(user_partitions, xblock, parent_access) for block b.
ComputeAccess(b) ==
    /\ ~failed
    /\ merged[b] = NotComputed
    /\ \A q \in Parents[b] : merged[q] # NotComputed
    /\ \A p \in Partitions : groupAccess[b][p] # None
    /\ merged' = [merged EXCEPT ![b] = Merge(b)]
    /\ UNCHANGED <<groupAccess, failed>>

\* The same constructor on a group_access holding None: set(None) raises.
ComputeRaises(b) ==
    /\ ~failed
    /\ merged[b] = NotComputed
    /\ \A q \in Parents[b] : merged[q] # NotComputed
    /\ \E p \in Partitions : groupAccess[b][p] = None
    /\ failed' = TRUE
    /\ UNCHANGED <<groupAccess, merged>>

Next == \E b \in Blocks : ComputeAccess(b) \/ ComputeRaises(b)

Spec == Init /\ [][Next]_vars

Computed == {b \in Blocks : merged[b] # NotComputed}

-----------------------------------------------------------------------------
(***************************************************************************)
(* Properties.                                                             *)
(***************************************************************************)

\* Type correctness of the group_access settings and the merged accesses:
\* an _access value is a set of group ids, never None.
TypeOK ==
    /\ DOMAIN groupAccess = Blocks
    /\ DOMAIN merged = Blocks
    /\ \A b \in Blocks, p \in Partitions :
          groupAccess[b][p] = None \/ groupAccess[b][p] \subseteq Groups
    /\ \A b \in Blocks :
          \/ merged[b] = NotComputed
          \/ /\ DOMAIN merged[b] = Partitions
             /\ \A p \in Partitions :
                   \/ merged[b][p] = Universe
                   \/ merged[b][p] # None /\ merged[b][p] \subseteq Groups
    /\ failed \in BOOLEAN

\* A child cannot be seen by a user every parent hides it from on one
\* partition: when each parent of a merged block restricts partition p and
\* the user's group on p (if any) is allowed by none of them,
\* check_group_access denies the block whatever the block's own setting.
DeniedByAllParentsDenied ==
    \A b \in Computed \ {Root}, p \in Partitions, asg \in Assignments :
        LET ug == GetUserPartitionGroups(asg) IN
        ( /\ Parents[b] # {}
          /\ \A q \in Parents[b] :
                /\ merged[q][p] # Universe
                /\ ~(p \in DOMAIN ug /\ ug[p] \in merged[q][p]) )
        => ~CheckGroupAccess(merged[b], ug)

\* What the constructor's comment promises ("None <=> Universe set <=> no
\* access restriction"): a parent that does not restrict partition p
\* contributes the universe to the union of the parents' groups, so the
\* child is restricted on p by its parents only if all of them restrict p.
IntendedMerge(b) ==
    [p \in Partitions |->
        Intersection(BlockGroupIds(b, p),
                     IF \/ Parents[b] = {}
                        \/ \E q \in Parents[b] : merged[q][p] = Universe
                     THEN Universe
                     ELSE UNION {merged[q][p] : q \in Parents[b]})]

\* Access value v allows no group that w does not: w is the universe, or v
\* is a set of groups inside w.
NoWiderThan(v, w) == w = Universe \/ (v # Universe /\ v \subseteq w)

\* The merge may deny more than the constructor's comment intends (run
\* unrestricted_parent_dropped), but never less: every group a merged
\* access allows on a partition, the intended merge of the same parents'
\* accesses and the block's own setting allows too, so the divergence at
\* the union of the parents' groups can hide content, never expose it.
NeverWiderThanIntended ==
    \A b \in Computed, p \in Partitions :
        NoWiderThan(merged[b][p], IntendedMerge(b)[p])

\* Every merged block's access is the intended merge of its parents'.
MergeMatchesIntent ==
    \A b \in Computed : merged[b] = IntendedMerge(b)

\* The constructor's comment: group_access[partition_id] None means all
\* groups have access, so merging such a block never fails.
NoneMeansUnrestricted == ~failed

=============================================================================
