------------------------- MODULE GroupAccessProofs -------------------------
(***************************************************************************)
(* Proofs about the merge of group access (GroupAccess), for every course  *)
(* DAG, every set of partitions, groups and schemes, and every group_access *)
(* setting the assumptions allow.                                          *)
(*                                                                         *)
(* TypeOK and DeniedByAllParentsDenied are not inductive on their own: the *)
(* second is a fact about a block and its parents that holds because each  *)
(* block was merged from its parents' final accesses.  IInv says so: every *)
(* merged block has merged parents and holds Merge of them.  A merged      *)
(* access is never written again, and a block's parents were merged before *)
(* it, so Merge(b) keeps its value once b is merged.                       *)
(***************************************************************************)
EXTENDS GroupAccess, TLAPS

\* Every merged block has no None setting, was merged from merged parents,
\* and still equals the merge of their (unchanged) accesses.
MergedFromParents ==
    \A b \in Computed :
        /\ \A p \in Partitions : groupAccess[b][p] # None
        /\ \A q \in Parents[b] : q \in Computed
        /\ merged[b] = Merge(b)

IInv == TypeOK /\ MergedFromParents

USE GroupAccessAssumption, SentinelAssumption

\* The values a merged access may take for one partition.
AccessValue(v) == v = Universe \/ (v # None /\ v \subseteq Groups)

(***************************************************************************)
(* The constructor's result is well typed when the block's own setting has *)
(* no None and its parents' accesses are well typed.                        *)
(***************************************************************************)
LEMMA MergeTyped ==
    ASSUME TypeOK,
           NEW b \in Blocks,
           \A p \in Partitions : groupAccess[b][p] # None,
           \A q \in Parents[b] : q \in Computed
    PROVE  /\ DOMAIN Merge(b) = Partitions
           /\ \A p \in Partitions : AccessValue(Merge(b)[p])
           /\ Merge(b) # NotComputed
<1>1. SUFFICES ASSUME NEW p \in Partitions
               PROVE  AccessValue(Merge(b)[p])
  <2>1. Merge(b) \in [Partitions -> (SUBSET Groups) \cup {Universe}]
    BY <1>1 DEF AccessValue, Merge
  <2>2. QED
    BY <1>1, <2>1 DEF Merge
<1>2. BlockGroupIds(b, p) = Universe \/ BlockGroupIds(b, p) \subseteq Groups
  BY DEF TypeOK, BlockGroupIds
<1>3. \A q \in Parents[b] : AccessValue(merged[q][p])
  BY DEF TypeOK, Computed, AccessValue
<1>4. ParentsGroupIds(b, p) \subseteq SUBSET Groups
  BY <1>3 DEF ParentsGroupIds, AccessValue
<1>5. MergedParentGroupIds(b, p) = Universe
      \/ MergedParentGroupIds(b, p) \subseteq Groups
  BY <1>4 DEF MergedParentGroupIds
<1>6. QED
  BY <1>2, <1>5 DEF Merge, Intersection, AccessValue

(***************************************************************************)
(* Merge(b) reads only the block's own setting and its parents' accesses.  *)
(***************************************************************************)
LEMMA MergeFrame ==
    ASSUME NEW b \in Blocks,
           groupAccess' = groupAccess,
           \A q \in Parents[b] : merged'[q] = merged[q]
    PROVE  Merge(b)' = Merge(b)
<1>1. \A p \in Partitions : BlockGroupIds(b, p)' = BlockGroupIds(b, p)
  BY DEF BlockGroupIds
<1>2. \A p \in Partitions :
        {q \in Parents[b] : merged'[q][p] # Universe}
        = {q \in Parents[b] : merged[q][p] # Universe}
  OBVIOUS
<1>3. \A p \in Partitions : ParentsGroupIds(b, p)' = ParentsGroupIds(b, p)
  BY <1>2 DEF ParentsGroupIds
<1>4. \A p \in Partitions :
        MergedParentGroupIds(b, p)' = MergedParentGroupIds(b, p)
  BY <1>3 DEF MergedParentGroupIds
<1>5. QED
  BY <1>1, <1>4 DEF Merge, Intersection

(***************************************************************************)
(* A step that changes neither the settings nor the accesses keeps IInv.   *)
(***************************************************************************)
LEMMA StutterKeepsIInv ==
    ASSUME IInv, groupAccess' = groupAccess, merged' = merged,
           failed' \in BOOLEAN
    PROVE  IInv'
<1>1. TypeOK'
  BY DEF IInv, TypeOK
<1>2. Computed' = Computed
  BY DEF Computed
<1>3. \A b \in Computed : Merge(b)' = Merge(b)
  BY MergeFrame DEF Computed
<1>4. QED
  BY <1>1, <1>2, <1>3 DEF IInv, MergedFromParents

(***************************************************************************)
(* IInv is an invariant: a new MergedGroupAccess is built from merged      *)
(* parents, and building it changes no access the others were built from. *)
(***************************************************************************)
LEMMA MergeInductive == Spec => []IInv
<1>1. Init => IInv
  <2> SUFFICES ASSUME Init PROVE IInv
    OBVIOUS
  <2>1. TypeOK
    <3>1. \A b \in Blocks, p \in Partitions : groupAccess[b][p] \in Settings
      BY DEF Init
    <3>2. \A b \in Blocks, p \in Partitions :
            groupAccess[b][p] = None \/ groupAccess[b][p] \subseteq Groups
      BY <3>1
    <3>3. QED
      BY <3>2 DEF Init, TypeOK
  <2>2. Computed = {}
    BY DEF Init, Computed
  <2>3. QED
    BY <2>1, <2>2 DEF IInv, MergedFromParents
<1>2. IInv /\ [Next]_vars => IInv'
  <2> SUFFICES ASSUME IInv, [Next]_vars PROVE IInv'
    OBVIOUS
  <2>1. CASE \E b0 \in Blocks : ComputeAccess(b0)
    <3>1. PICK b0 \in Blocks : ComputeAccess(b0)
      BY <2>1
    <3>2. \A q \in Parents[b0] : q \in Computed /\ q # b0
      BY <3>1 DEF ComputeAccess, Computed
    <3>3. /\ DOMAIN Merge(b0) = Partitions
          /\ \A p \in Partitions : AccessValue(Merge(b0)[p])
          /\ Merge(b0) # NotComputed
      BY <3>1, <3>2, MergeTyped DEF IInv, ComputeAccess
    <3>4. \A b \in Blocks : merged'[b] = IF b = b0 THEN Merge(b0) ELSE merged[b]
      BY <3>1 DEF ComputeAccess, IInv, TypeOK
    <3>5. TypeOK'
      BY <3>1, <3>3, <3>4 DEF ComputeAccess, IInv, TypeOK, AccessValue
    <3>6. Computed' = Computed \cup {b0}
      BY <3>3, <3>4 DEF Computed
    <3>7. \A b \in Computed' : \A q \in Parents[b] : merged'[q] = merged[q]
      <4> SUFFICES ASSUME NEW b \in Computed', NEW q \in Parents[b]
                   PROVE  merged'[q] = merged[q]
        OBVIOUS
      <4>1. q \in Blocks /\ q # b0
        <5>1. CASE b = b0
          BY <3>2, <5>1
        <5>2. CASE b # b0
          BY <3>1, <3>6, <5>2 DEF IInv, MergedFromParents, Computed, ComputeAccess
        <5>3. QED
          BY <5>1, <5>2
      <4>2. QED
        BY <3>4, <4>1
    <3>8. MergedFromParents'
      <4> SUFFICES ASSUME NEW b \in Computed'
                   PROVE  /\ \A p \in Partitions : groupAccess'[b][p] # None
                          /\ \A q \in Parents[b] : q \in Computed'
                          /\ merged'[b] = Merge(b)'
        BY DEF MergedFromParents
      <4>1. Merge(b)' = Merge(b)
        BY <3>1, <3>6, <3>7, MergeFrame DEF ComputeAccess, Computed
      <4>2. CASE b = b0
        BY <3>1, <3>2, <3>4, <3>6, <4>1, <4>2 DEF ComputeAccess
      <4>3. CASE b # b0
        BY <3>1, <3>4, <3>6, <4>1, <4>3
        DEF IInv, MergedFromParents, Computed, ComputeAccess
      <4>4. QED
        BY <4>2, <4>3
    <3>9. QED
      BY <3>5, <3>8 DEF IInv
  <2>2. CASE \E b0 \in Blocks : ComputeRaises(b0)
    BY <2>2, StutterKeepsIInv DEF ComputeRaises
  <2>3. CASE UNCHANGED vars
    BY <2>3, StutterKeepsIInv DEF vars, IInv, TypeOK
  <2>4. QED
    BY <2>1, <2>2, <2>3 DEF Next
<1>3. QED
  BY <1>1, <1>2, PTL DEF Spec

(***************************************************************************)
(* In a state of IInv, a merged block whose every parent restricts p and   *)
(* excludes the user's group on p excludes it too: the union of the        *)
(* parents' groups then misses the user's group, and intersecting it with  *)
(* the block's own setting only removes groups.                            *)
(***************************************************************************)
LEMMA IInvDenies == IInv => DeniedByAllParentsDenied
<1> SUFFICES ASSUME IInv,
                    NEW b \in Computed \ {Root}, NEW p \in Partitions,
                    NEW asg \in Assignments,
                    Parents[b] # {},
                    \A q \in Parents[b] :
                       /\ merged[q][p] # Universe
                       /\ ~(p \in DOMAIN GetUserPartitionGroups(asg)
                            /\ GetUserPartitionGroups(asg)[p] \in merged[q][p])
             PROVE  ~CheckGroupAccess(merged[b], GetUserPartitionGroups(asg))
  BY DEF DeniedByAllParentsDenied
<1> DEFINE ug == GetUserPartitionGroups(asg)
           par == MergedParentGroupIds(b, p)
<1>1. /\ b \in Blocks
      /\ merged[b] = Merge(b)
      /\ groupAccess[b][p] # None
      /\ \A q \in Parents[b] : q \in Computed
  BY DEF IInv, MergedFromParents, Computed
<1>2. \A q \in Parents[b] : merged[q][p] \subseteq Groups
  BY <1>1 DEF IInv, TypeOK, Computed
<1>3. ParentsGroupIds(b, p) = {merged[q][p] : q \in Parents[b]}
  BY DEF ParentsGroupIds
<1>4. par = UNION {merged[q][p] : q \in Parents[b]}
  BY <1>3 DEF MergedParentGroupIds
<1>5. par \subseteq Groups /\ ~(p \in DOMAIN ug /\ ug[p] \in par)
  BY <1>2, <1>4
<1>6. par # Universe
  BY <1>5
<1>7. BlockGroupIds(b, p) = Universe \/ BlockGroupIds(b, p) \subseteq Groups
  BY <1>1 DEF IInv, TypeOK, BlockGroupIds
<1>8. /\ Merge(b)[p] # Universe
      /\ ~(p \in DOMAIN ug /\ ug[p] \in Merge(b)[p])
  <2>1. Merge(b)[p] = Intersection(BlockGroupIds(b, p), par)
    BY DEF Merge
  <2>2. Merge(b)[p] \subseteq par
    BY <2>1, <1>6, <1>7 DEF Intersection
  <2>3. QED
    BY <1>5, <2>2
<1>9. QED
  BY <1>1, <1>8 DEF CheckGroupAccess

\* Every state of the merge is well typed, for every course and setting.
THEOREM GroupAccessTypeCorrect == Spec => []TypeOK
BY MergeInductive, PTL DEF IInv

(***************************************************************************)
(* For every course DAG and every group_access setting, a user whom every  *)
(* parent of a block denies on one partition is denied the block: the      *)
(* property DeniedByAllParentsDenied of MergedGroupAccess.__init__ and     *)
(* check_group_access that run group_access_merge checks on a diamond.     *)
(***************************************************************************)
THEOREM ParentDenialInherited == Spec => []DeniedByAllParentsDenied
BY MergeInductive, IInvDenies, PTL

-----------------------------------------------------------------------------
(***************************************************************************)
(* The merge is never wider than intended.  Both merges intersect the      *)
(* block's own groups with a value computed from the parents; the code's   *)
(* value is the intended one unless some parent is unrestricted, and then *)
(* the intended value is the universe.  Intersecting with the same own     *)
(* groups keeps the order NoWiderThan.                                     *)
(***************************************************************************)

\* A group-id value other than a merged access: None is not one.
GroupValue(v) == v = Universe \/ v \subseteq Groups

\* Intersecting both sides with the same value keeps NoWiderThan.
LEMMA IntersectionMonotone ==
    ASSUME NEW a, NEW x, NEW y,
           GroupValue(a), GroupValue(x), GroupValue(y),
           NoWiderThan(x, y)
    PROVE  NoWiderThan(Intersection(a, x), Intersection(a, y))
<1>1. CASE y = Universe
  <2>1. CASE a = Universe
    BY <1>1, <2>1 DEF Intersection, NoWiderThan
  <2>2. CASE a # Universe
    <3>1. a \subseteq Groups
      BY <2>2 DEF GroupValue
    <3>2. Intersection(a, x) \subseteq a
      BY <2>2 DEF Intersection
    <3>3. Intersection(a, x) \subseteq Groups
      BY <3>1, <3>2
    <3>4. Intersection(a, x) # Universe
      BY <3>3
    <3>5. QED
      BY <1>1, <2>2, <3>2, <3>4 DEF Intersection, NoWiderThan
  <2>3. QED
    BY <2>1, <2>2
<1>2. CASE y # Universe
  <2>1. x # Universe /\ x \subseteq y /\ y \subseteq Groups
    BY <1>2 DEF NoWiderThan, GroupValue
  <2>2. CASE a = Universe
    BY <1>2, <2>1, <2>2 DEF Intersection, NoWiderThan
  <2>3. CASE a # Universe
    <3>1. a \subseteq Groups
      BY <2>3 DEF GroupValue
    <3>2. Intersection(a, x) = a \cap x /\ Intersection(a, y) = a \cap y
      BY <2>1, <2>3 DEF Intersection
    <3>3. a \cap x \subseteq Groups
      BY <3>1
    <3>4. a \cap x # Universe
      BY <3>3
    <3>5. QED
      BY <2>1, <3>2, <3>4 DEF NoWiderThan
  <2>4. QED
    BY <2>2, <2>3
<1>3. QED
  BY <1>1, <1>2

\* In a state of IInv, the union of the restricting parents' groups is no
\* wider than the value the intended merge takes from the parents.
LEMMA ParentsNoWider ==
    ASSUME IInv, NEW b \in Computed, NEW p \in Partitions
    PROVE  LET ip == IF \/ Parents[b] = {}
                        \/ \E q \in Parents[b] : merged[q][p] = Universe
                     THEN Universe
                     ELSE UNION {merged[q][p] : q \in Parents[b]}
           IN  /\ GroupValue(MergedParentGroupIds(b, p))
               /\ GroupValue(ip)
               /\ NoWiderThan(MergedParentGroupIds(b, p), ip)
<1> DEFINE ip == IF \/ Parents[b] = {}
                    \/ \E q \in Parents[b] : merged[q][p] = Universe
                 THEN Universe
                 ELSE UNION {merged[q][p] : q \in Parents[b]}
<1>1. \A q \in Parents[b] : GroupValue(merged[q][p])
  BY DEF IInv, MergedFromParents, TypeOK, Computed, GroupValue
<1>2. ParentsGroupIds(b, p) \subseteq SUBSET Groups
  BY <1>1 DEF ParentsGroupIds, GroupValue
<1>3. GroupValue(MergedParentGroupIds(b, p))
  BY <1>2 DEF MergedParentGroupIds, GroupValue
<1>4. CASE ip = Universe
  BY <1>3, <1>4 DEF NoWiderThan, GroupValue
<1>5. CASE ip # Universe
  <2>1. Parents[b] # {} /\ \A q \in Parents[b] : merged[q][p] # Universe
    BY <1>5
  <2>2. ParentsGroupIds(b, p) = {merged[q][p] : q \in Parents[b]}
    BY <2>1 DEF ParentsGroupIds
  <2>3. ParentsGroupIds(b, p) # {}
    BY <2>1, <2>2
  <2>4. MergedParentGroupIds(b, p) = ip
    BY <2>1, <2>2, <2>3 DEF MergedParentGroupIds
  <2>5. ip \subseteq Groups
    BY <1>2, <2>1, <2>2
  <2>6. ip # Universe
    BY <2>5
  <2>7. QED
    BY <2>4, <2>5, <2>6 DEF NoWiderThan, GroupValue
<1>6. QED
  BY <1>3, <1>4, <1>5

LEMMA IInvNeverWider == IInv => NeverWiderThanIntended
<1> SUFFICES ASSUME IInv, NEW b \in Computed, NEW p \in Partitions
             PROVE  NoWiderThan(merged[b][p], IntendedMerge(b)[p])
  BY DEF NeverWiderThanIntended
<1> DEFINE ip == IF \/ Parents[b] = {}
                    \/ \E q \in Parents[b] : merged[q][p] = Universe
                 THEN Universe
                 ELSE UNION {merged[q][p] : q \in Parents[b]}
<1>1. merged[b][p] = Intersection(BlockGroupIds(b, p), MergedParentGroupIds(b, p))
  <2>1. merged[b] = Merge(b)
    BY DEF IInv, MergedFromParents
  <2>2. QED
    BY <2>1 DEF Merge
<1>2. IntendedMerge(b)[p] = Intersection(BlockGroupIds(b, p), ip)
  BY DEF IntendedMerge
<1>3. GroupValue(BlockGroupIds(b, p))
  BY DEF IInv, TypeOK, MergedFromParents, Computed, BlockGroupIds, GroupValue
<1>4. /\ GroupValue(MergedParentGroupIds(b, p))
      /\ GroupValue(ip)
      /\ NoWiderThan(MergedParentGroupIds(b, p), ip)
  BY ParentsNoWider
<1>5. QED
  BY <1>1, <1>2, <1>3, <1>4, IntersectionMonotone

(***************************************************************************)
(* For every course DAG and every group_access setting, whatever order the *)
(* blocks are merged in, MergedGroupAccess.__init__ allows no group on a   *)
(* partition that the merge its comment describes would deny: dropping     *)
(* the unrestricted parents from the union (user_partitions.py:58) only    *)
(* ever hides content.  The property NeverWiderThanIntended of run         *)
(* group_access_merge.                                                     *)
(***************************************************************************)
THEOREM MergeNeverWiderThanIntended == Spec => []NeverWiderThanIntended
BY MergeInductive, IInvNeverWider, PTL


=============================================================================
