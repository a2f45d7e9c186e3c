------------------------ MODULE BlockStructureProofs ------------------------
(***************************************************************************)
(* Proofs about remove_block_if (module BlockStructure), for every value   *)
(* of the constants that satisfies StructureAssumption.                    *)
(***************************************************************************)
EXTENDS BlockStructure, WellFoundedInduction, SequenceTheorems,
        FiniteSetTheorems, TLAPS

(***************************************************************************)
(* FirstPos picks the smallest position of a non-empty set of positions:   *)
(* the child stack.pop() returns exists.                                   *)
(***************************************************************************)
LEMMA FirstPosIsLeast ==
    ASSUME NEW S \in SUBSET Nat, S # {}
    PROVE  /\ FirstPos(S) \in S
           /\ \A j \in S : FirstPos(S) <= j
<1>1. \E x \in S : \A y \in S : ~(<<y, x>> \in OpToRel(<, Nat))
    BY NatLessThanWellFounded, WFMin
<1>2. PICK x \in S : \A y \in S : ~(<<y, x>> \in OpToRel(<, Nat))
    BY <1>1
<1>3. \A y \in S : ~(y < x)
    BY <1>2 DEF OpToRel
<1>4. \A y \in S : x <= y
    BY <1>3
<1>5. \E z \in S : \A y \in S : z <= y
    BY <1>4
<1>6. QED
    BY <1>5 DEF FirstPos

(***************************************************************************)
(* Lemmas on lists as built plus live positions.                           *)
(***************************************************************************)
LEMMA OccFinite ==
    ASSUME NEW s \in Seq(Keys), NEW live \in SUBSET DOMAIN s, NEW x
    PROVE  /\ IsFiniteSet(Occ(s, live, x))
           /\ Cardinality(Occ(s, live, x)) \in Nat
<1>1. IsFiniteSet(DOMAIN s)
    BY FS_Interval, LenProperties
<1>2. Occ(s, live, x) \subseteq DOMAIN s
    BY DEF Occ
<1>3. IsFiniteSet(Occ(s, live, x))
    BY <1>1, <1>2, FS_Subset
<1>. QED
    BY <1>3, FS_CardinalityType

\* A list has no live occurrence of x exactly when Count is 0.
LEMMA CountZero ==
    ASSUME NEW s \in Seq(Keys), NEW live \in SUBSET DOMAIN s, NEW x
    PROVE  Count(s, live, x) = 0 <=> \A i \in live : s[i] # x
<1>1. Count(s, live, x) = 0 <=> Occ(s, live, x) = {}
    BY OccFinite, FS_EmptySet DEF Count
<1>. QED
    BY <1>1 DEF Occ

\* Calling remove(x) as many times as x occurs removes every occurrence.
LEMMA RemoveNAll ==
    ASSUME NEW s \in Seq(Keys), NEW live \in SUBSET DOMAIN s, NEW x
    PROVE  \A i \in RemoveN(s, live, x, Count(s, live, x)) : s[i] # x
<1> SUFFICES ASSUME NEW i \in live, s[i] = x
             PROVE  Rank(s, live, x, i) <= Count(s, live, x)
    BY DEF RemoveN, Occ
<1>1. {j \in Occ(s, live, x) : j <= i} \subseteq Occ(s, live, x)
    OBVIOUS
<1>. QED
    BY <1>1, OccFinite, FS_Subset DEF Rank, Count

\* remove(x) leaves the occurrences of every other value alone.
LEMMA RemoveNOther ==
    ASSUME NEW s, NEW live, NEW x, NEW n, NEW y, y # x
    PROVE  Occ(s, RemoveN(s, live, x, n), y) = Occ(s, live, y)
BY DEF RemoveN, Occ

\* remove(x) only removes positions.
LEMMA RemoveNSubset ==
    ASSUME NEW s, NEW live, NEW x, NEW n
    PROVE  RemoveN(s, live, x, n) \subseteq live
BY DEF RemoveN

(***************************************************************************)
(* Popping the top frame of a well-formed stack yields a key and leaves a  *)
(* well-formed stack.                                                      *)
(***************************************************************************)
LEMMA PopType ==
    ASSUME StructureAssumption,
           stack \in Seq(Frame),
           \A i \in DOMAIN stack : FrameOK(stack[i]),
           stack # << >>
    PROVE  /\ NextKey \in Keys
           /\ Popped \in Seq(Frame)
           /\ \A i \in DOMAIN Popped : FrameOK(Popped[i])
<1> DEFINE n == Len(stack)
           p == FirstPos(Top.rest)
<1>1. n \in Nat /\ n >= 1 /\ DOMAIN stack = 1..n
    BY EmptySeq, LenProperties
<1>2. Top \in Frame /\ FrameOK(Top)
    <2>1. n \in 1..Len(stack) /\ n \in DOMAIN stack
        BY <1>1
    <2>2. Top \in Frame
        BY <2>1, ElementOfSeq DEF Top
    <2>. QED
        BY <2>1, <2>2 DEF Top
<1>3. Top.rest \subseteq Nat /\ Top.rest # {}
    BY <1>2 DEF Frame, FrameOK
<1>4. p \in Top.rest
    BY <1>3, FirstPosIsLeast
<1>5. NextKey \in Keys
    BY <1>2, <1>4 DEF NextKey, Frame, FrameOK
<1>6. CASE Top.rest = {p}
    <2>1. Popped = SubSeq(stack, 1, n - 1)
        BY <1>6 DEF Popped
    <2>2. SubSeq(stack, 1, n - 1) \in Seq(Frame)
        BY <1>1, SubSeqProperties
    <2>3. \A i \in 1..(n - 1) : SubSeq(stack, 1, n - 1)[i] = stack[i]
        BY <1>1, SubSeqProperties
    <2>4. DOMAIN SubSeq(stack, 1, n - 1) = 1..(n - 1)
        BY <1>1, SubSeqProperties
    <2>. QED
        BY <1>1, <1>5, <2>1, <2>2, <2>3, <2>4
<1>7. CASE Top.rest # {p}
    <2> DEFINE f == [Top EXCEPT !.rest = Top.rest \ {p}]
    <2>1. Popped = [stack EXCEPT ![n] = f]
        BY <1>7 DEF Popped, Top
    <2>2. f \in Frame /\ FrameOK(f)
        BY <1>2, <1>4, <1>7 DEF Frame, FrameOK
    <2>3. [stack EXCEPT ![n] = f] \in Seq(Frame)
        BY <1>1, <2>2, ExceptSeq
    <2>. QED
        BY <1>1, <1>5, <2>1, <2>2, <2>3
<1>. QED
    BY <1>6, <1>7

(***************************************************************************)
(* Type correctness of remove_block_if.                                    *)
(***************************************************************************)
LEMMA TypeInductive == TypeOK /\ [Next]_vars => TypeOK'
<1> SUFFICES ASSUME TypeOK, [Next]_vars PROVE TypeOK'
    OBVIOUS
<1> USE StructureAssumption
<1>1. CASE VisitNode
    BY <1>1, PopType DEF VisitNode, TypeOK, GetParentsTouch
<1>2. CASE SkipNode
    BY <1>2, PopType DEF SkipNode, TypeOK, GetParentsTouch
<1>3. CASE RemoveBlock
    <2>1. \A s, live, x, m : RemoveN(s, live, x, m) \subseteq live
        BY DEF RemoveN
    <2>. QED
        BY <1>3, <2>1 DEF RemoveBlock, TypeOK
<1>4. CASE KeepBlock
    BY <1>4 DEF KeepBlock, TypeOK
<1>5. CASE Resume
    <2>1. CASE liveC[cur] = {}
        BY <1>5, <2>1 DEF Resume, TypeOK
    <2>2. CASE liveC[cur] # {}
        <3> DEFINE f == [list |-> Chi0[cur], rest |-> liveC[cur]]
        <3>1. f \in Frame /\ FrameOK(f)
            BY <2>2 DEF TypeOK, Frame, FrameOK
        <3>2. Append(stack, f) \in Seq(Frame)
            BY <3>1, AppendProperties DEF TypeOK
        <3>3. \A i \in DOMAIN Append(stack, f) : FrameOK(Append(stack, f)[i])
            BY <3>1, AppendProperties DEF TypeOK
        <3>. QED
            BY <1>5, <2>2, <3>2, <3>3 DEF Resume, TypeOK
    <2>. QED
        BY <2>1, <2>2
<1>6. CASE Finish
    BY <1>6 DEF Finish, TypeOK
<1>7. CASE UNCHANGED vars
    BY <1>7 DEF vars, TypeOK
<1>. QED
    BY <1>1, <1>2, <1>3, <1>4, <1>5, <1>6, <1>7 DEF Next

LEMMA TypeInit == Init => TypeOK
<1> SUFFICES ASSUME Init PROVE TypeOK
    OBVIOUS
<1>1. [list |-> << Root >>, rest |-> {1}] \in Frame
    BY StructureAssumption DEF Frame
<1>2. << [list |-> << Root >>, rest |-> {1}] >> \in Seq(Frame)
    BY <1>1
<1>3. \A k \in Keys : DOMAIN Chi0[k] \subseteq Nat /\ DOMAIN Par0[k] \subseteq Nat
    BY StructureAssumption
<1>4. liveC \in [Keys -> SUBSET Nat] /\ liveP \in [Keys -> SUBSET Nat]
    BY <1>3 DEF Init
<1>5. \A i \in DOMAIN stack : FrameOK(stack[i])
    <2>1. DOMAIN stack = {1} /\ stack[1] = [list |-> << Root >>, rest |-> {1}]
        BY DEF Init
    <2>. QED
        BY <2>1 DEF FrameOK
<1>6. /\ present \subseteq Keys /\ dataKeys \subseteq Keys
      /\ \A k \in Keys : liveC[k] \subseteq DOMAIN Chi0[k]
      /\ \A k \in Keys : liveP[k] \subseteq DOMAIN Par0[k]
    BY DEF Init, Present0
<1>7. /\ visited \subseteq Keys /\ removal_condition \subseteq Keys
      /\ pc \in {"pop", "yielded", "resume", "done"} /\ cur \in Keys
    BY StructureAssumption DEF Init
<1>. QED
    BY <1>2, <1>4, <1>5, <1>6, <1>7 DEF Init, TypeOK

THEOREM TypeCorrect == Spec => []TypeOK
<1>1. Init => TypeOK
    BY TypeInit
<1>2. TypeOK /\ [Next]_vars => TypeOK'
    BY TypeInductive
<1>. QED
    BY <1>1, <1>2, PTL DEF Spec

(***************************************************************************)
(* remove_block keeps the relations consistent: in every state of          *)
(* remove_block_if each edge is recorded as often in the parent's children *)
(* list as in the child's parents list, and no list of a block in the      *)
(* structure names a block that is not in it.  The invariant is inductive  *)
(* together with TypeOK: remove_block(x) calls children_of_p.remove(x) as  *)
(* often as p occurs in x's parents list, which by EdgesBidirectional is   *)
(* as often as x occurs in p's children list, so every occurrence goes.    *)
(***************************************************************************)
IInv == TypeOK /\ StructureConsistent

LEMMA InitConsistent == Init => StructureConsistent
<1> SUFFICES ASSUME Init PROVE StructureConsistent
    OBVIOUS
<1> USE StructureAssumption
<1>1. EdgesBidirectional
    BY BuiltRelationsSymmetric DEF Init, EdgesBidirectional
<1>2. ASSUME NEW k \in present, NEW c \in LiveChildren(k) PROVE c \in present
    <2>1. PICK i \in DOMAIN Chi0[k] : c = Chi0[k][i]
        BY <1>2 DEF LiveChildren, Init, Present0
    <2>2. c \in Keys
        BY <2>1, ElementOfSeq, LenProperties DEF Init, Present0
    <2>3. Count(Chi0[k], DOMAIN Chi0[k], c) # 0
        BY <2>1, CountZero DEF Init, Present0
    <2>4. Count(Par0[c], DOMAIN Par0[c], k) # 0
        BY <2>2, <2>3, BuiltRelationsSymmetric DEF Init, Present0
    <2>5. Par0[c] # << >>
        <3>1. \E j \in DOMAIN Par0[c] : Par0[c][j] = k
            BY <2>2, <2>4, CountZero
        <3>. QED
            BY <3>1
    <2>. QED
        BY <2>2, <2>5 DEF Init, Present0
<1>3. ASSUME NEW k \in present, NEW c \in LiveParents(k) PROVE c \in present
    <2>1. PICK i \in DOMAIN Par0[k] : c = Par0[k][i]
        BY <1>3 DEF LiveParents, Init, Present0
    <2>2. c \in Keys
        BY <2>1, ElementOfSeq, LenProperties DEF Init, Present0
    <2>3. Count(Par0[k], DOMAIN Par0[k], c) # 0
        BY <2>1, CountZero DEF Init, Present0
    <2>4. Count(Chi0[c], DOMAIN Chi0[c], k) # 0
        BY <2>2, <2>3, BuiltRelationsSymmetric DEF Init, Present0
    <2>5. Chi0[c] # << >>
        <3>1. \E j \in DOMAIN Chi0[c] : Chi0[c][j] = k
            BY <2>2, <2>4, CountZero
        <3>. QED
            BY <3>1
    <2>. QED
        BY <2>2, <2>5 DEF Init, Present0
<1>4. AbsentEmpty
    BY DEF Init, AbsentEmpty, Present0
<1>. QED
    BY <1>1, <1>2, <1>3, <1>4 DEF StructureConsistent, NoDanglingReference

\* The steps of the traversal change no list and only add to `present'.
LEMMA TraversalStepConsistent ==
    ASSUME StructureConsistent,
           liveC' = liveC, liveP' = liveP,
           present \subseteq present', present' \subseteq Keys
    PROVE  StructureConsistent'
<1>1. EdgesBidirectional'
    BY DEF StructureConsistent, EdgesBidirectional
<1>2. NoDanglingReference'
    BY DEF StructureConsistent, NoDanglingReference, AbsentEmpty,
           LiveChildren, LiveParents
<1>3. AbsentEmpty'
    BY DEF StructureConsistent, AbsentEmpty
<1>. QED
    BY <1>1, <1>2, <1>3 DEF StructureConsistent

LEMMA RemoveBlockConsistent ==
    ASSUME TypeOK, StructureConsistent, RemoveBlock, StructureAssumption
    PROVE  StructureConsistent'
<1> DEFINE x == cur
<1>1. x \in Keys
    BY DEF TypeOK
<1>2. \A k \in Keys : Chi0[k] \in Seq(Keys) /\ Par0[k] \in Seq(Keys)
    OBVIOUS
<1>3. \A k \in Keys : liveC[k] \subseteq DOMAIN Chi0[k] /\ liveP[k] \subseteq DOMAIN Par0[k]
    BY DEF TypeOK
<1>4. liveC'[x] = {} /\ liveP'[x] = {}
    BY <1>1 DEF RemoveBlock
<1>5. \A k \in Keys \ {x} :
        /\ liveC'[k] = RemoveN(Chi0[k], liveC[k], x, Count(Chi0[k], liveC[k], x))
        /\ liveP'[k] = RemoveN(Par0[k], liveP[k], x, Count(Par0[k], liveP[k], x))
    <2> SUFFICES ASSUME NEW k \in Keys \ {x}
                 PROVE  /\ liveC'[k] = RemoveN(Chi0[k], liveC[k], x, Count(Chi0[k], liveC[k], x))
                        /\ liveP'[k] = RemoveN(Par0[k], liveP[k], x, Count(Par0[k], liveP[k], x))
        OBVIOUS
    <2>1. Count(Chi0[k], liveC[k], x) = Count(Par0[x], liveP[x], k)
        BY <1>1 DEF StructureConsistent, EdgesBidirectional
    <2>2. Count(Chi0[x], liveC[x], k) = Count(Par0[k], liveP[k], x)
        BY <1>1 DEF StructureConsistent, EdgesBidirectional
    <2>3. liveC'[k] = RemoveN(Chi0[k], liveC[k], x, Count(Par0[x], liveP[x], k))
        BY DEF RemoveBlock
    <2>4. liveP'[k] = RemoveN(Par0[k], liveP[k], x, Count(Chi0[x], liveC[x], k))
        BY DEF RemoveBlock
    <2>. QED
        BY <2>1, <2>2, <2>3, <2>4
\* After the step no list of another block holds x.
<1>6. \A k \in Keys \ {x} :
        /\ \A i \in liveC'[k] : Chi0[k][i] # x
        /\ \A i \in liveP'[k] : Par0[k][i] # x
    <2> SUFFICES ASSUME NEW k \in Keys \ {x}
                 PROVE  /\ \A i \in liveC'[k] : Chi0[k][i] # x
                        /\ \A i \in liveP'[k] : Par0[k][i] # x
        OBVIOUS
    <2>1. \A i \in RemoveN(Chi0[k], liveC[k], x, Count(Chi0[k], liveC[k], x)) : Chi0[k][i] # x
        BY <1>2, <1>3, RemoveNAll
    <2>2. \A i \in RemoveN(Par0[k], liveP[k], x, Count(Par0[k], liveP[k], x)) : Par0[k][i] # x
        BY <1>2, <1>3, RemoveNAll
    <2>. QED
        BY <2>1, <2>2, <1>5
<1>7. \A k \in Keys \ {x}, y \in Keys \ {x} :
        /\ Count(Chi0[k], liveC'[k], y) = Count(Chi0[k], liveC[k], y)
        /\ Count(Par0[k], liveP'[k], y) = Count(Par0[k], liveP[k], y)
    BY <1>5, RemoveNOther DEF Count
<1>8. EdgesBidirectional'
    <2> SUFFICES ASSUME NEW a \in Keys, NEW b \in Keys
                 PROVE  Count(Chi0[a], liveC'[a], b) = Count(Par0[b], liveP'[b], a)
        BY DEF EdgesBidirectional
    <2>1. \A s, y : Count(s, {}, y) = 0
        BY FS_EmptySet DEF Count, Occ
    <2>2. CASE a = x
        <3>1. Count(Chi0[a], liveC'[a], b) = 0
            BY <2>1, <2>2, <1>4
        <3>2. Count(Par0[b], liveP'[b], a) = 0
            <4>1. CASE b = x
                BY <2>1, <4>1, <1>4
            <4>2. CASE b # x
                <5>1. liveP'[b] \subseteq DOMAIN Par0[b]
                    <6>1. RemoveN(Par0[b], liveP[b], x, Count(Par0[b], liveP[b], x)) \subseteq liveP[b]
                        BY RemoveNSubset
                    <6>. QED
                        BY <4>2, <6>1, <1>3, <1>5
                <5>. QED
                    BY <2>2, <4>2, <5>1, <1>2, <1>6, CountZero
            <4>. QED
                BY <4>1, <4>2
        <3>. QED
            BY <3>1, <3>2
    <2>3. CASE a # x /\ b = x
        <3>1. Count(Par0[b], liveP'[b], a) = 0
            BY <2>1, <2>3, <1>4
        <3>2. liveC'[a] \subseteq DOMAIN Chi0[a]
            <4>1. RemoveN(Chi0[a], liveC[a], x, Count(Chi0[a], liveC[a], x)) \subseteq liveC[a]
                BY RemoveNSubset
            <4>. QED
                BY <2>3, <4>1, <1>3, <1>5
        <3>3. Count(Chi0[a], liveC'[a], b) = 0
            BY <2>3, <3>2, <1>2, <1>6, CountZero
        <3>. QED
            BY <3>1, <3>3
    <2>4. CASE a # x /\ b # x
        BY <2>4, <1>7 DEF StructureConsistent, EdgesBidirectional
    <2>. QED
        BY <2>2, <2>3, <2>4
<1>9. NoDanglingReference'
    <2> SUFFICES ASSUME NEW k \in present', NEW c \in LiveChildren(k)' \cup LiveParents(k)'
                 PROVE  c \in present'
        BY DEF NoDanglingReference
    <2>1. k \in present /\ k # x /\ k \in Keys
        BY DEF RemoveBlock, TypeOK
    <2>2. liveC'[k] \subseteq liveC[k] /\ liveP'[k] \subseteq liveP[k]
        BY <2>1, <1>5, RemoveNSubset
    <2>3. c \in present
        BY <2>1, <2>2 DEF StructureConsistent, NoDanglingReference,
                          LiveChildren, LiveParents, RemoveBlock
    <2>4. c # x
        BY <2>1, <1>6 DEF LiveChildren, LiveParents, RemoveBlock
    <2>. QED
        BY <2>3, <2>4 DEF RemoveBlock
<1>10. AbsentEmpty'
    <2> SUFFICES ASSUME NEW k \in Keys \ present'
                 PROVE  liveC'[k] = {} /\ liveP'[k] = {}
        BY DEF AbsentEmpty
    <2>1. CASE k = x
        BY <2>1, <1>4
    <2>2. CASE k # x
        <3>1. k \notin present
            BY <2>2 DEF RemoveBlock
        <3>2. liveC[k] = {} /\ liveP[k] = {}
            BY <3>1 DEF StructureConsistent, AbsentEmpty
        <3>. QED
            BY <2>2, <3>2, <1>5, RemoveNSubset
    <2>. QED
        BY <2>1, <2>2
<1>. QED
    BY <1>8, <1>9, <1>10 DEF StructureConsistent

(***************************************************************************)
(* TypeOK /\ StructureConsistent holds in every state of remove_block_if.  *)
(***************************************************************************)
LEMMA IInvInvariant == Spec => []IInv
<1>1. Init => IInv
    BY InitConsistent, TypeInit DEF IInv
<1>2. IInv /\ [Next]_vars => IInv'
    <2> SUFFICES ASSUME TypeOK, StructureConsistent, [Next]_vars
                 PROVE  StructureConsistent'
        BY TypeInductive DEF IInv
    <2>1. TypeOK'
        BY TypeInductive
    <2>2. present' \subseteq Keys
        BY <2>1 DEF TypeOK
    <2>3. CASE VisitNode
        BY <2>2, <2>3, TraversalStepConsistent DEF VisitNode, GetParentsTouch
    <2>4. CASE SkipNode
        BY <2>2, <2>4, TraversalStepConsistent DEF SkipNode, GetParentsTouch
    <2>5. CASE RemoveBlock
        BY <2>5, RemoveBlockConsistent, StructureAssumption
    <2>6. CASE KeepBlock
        BY <2>2, <2>6, TraversalStepConsistent DEF KeepBlock
    <2>7. CASE Resume
        BY <2>2, <2>7, TraversalStepConsistent DEF Resume
    <2>8. CASE Finish
        BY <2>2, <2>8, TraversalStepConsistent DEF Finish
    <2>9. CASE UNCHANGED vars
        BY <2>2, <2>9, TraversalStepConsistent DEF vars
    <2>. QED
        BY <2>3, <2>4, <2>5, <2>6, <2>7, <2>8, <2>9 DEF Next
<1>. QED
    BY <1>1, <1>2, PTL DEF Spec

\* remove_block keeps the relations consistent in every state of
\* remove_block_if (module BlockStructure, StructureConsistent).
THEOREM StructureSafe == Spec => []StructureConsistent
BY IInvInvariant, PTL DEF IInv

(***************************************************************************)
(* remove_block(x) leaves, in the children list of every other block,      *)
(* exactly the positions that do not hold x.                               *)
(***************************************************************************)
LEMMA RemoveNExact ==
    ASSUME NEW s \in Seq(Keys), NEW live \in SUBSET DOMAIN s, NEW x
    PROVE  RemoveN(s, live, x, Count(s, live, x)) = {i \in live : s[i] # x}
<1>1. RemoveN(s, live, x, Count(s, live, x)) \subseteq {i \in live : s[i] # x}
    BY RemoveNAll, RemoveNSubset
<1>2. {i \in live : s[i] # x} \subseteq RemoveN(s, live, x, Count(s, live, x))
    BY DEF RemoveN, Occ
<1>. QED
    BY <1>1, <1>2

LEMMA RemoveBlockChildren ==
    ASSUME TypeOK, StructureConsistent, RemoveBlock, StructureAssumption
    PROVE  \A k \in Keys : liveC'[k] = IF k = cur THEN {}
                                     ELSE {i \in liveC[k] : Chi0[k][i] # cur}
<1> SUFFICES ASSUME NEW k \in Keys
             PROVE  liveC'[k] = IF k = cur THEN {}
                                ELSE {i \in liveC[k] : Chi0[k][i] # cur}
    OBVIOUS
<1>1. CASE k = cur
    BY <1>1 DEF RemoveBlock
<1>2. CASE k # cur
    <2>1. cur \in Keys
        BY DEF TypeOK
    <2>2. Count(Chi0[k], liveC[k], cur) = Count(Par0[cur], liveP[cur], k)
        BY <2>1 DEF StructureConsistent, EdgesBidirectional
    <2>3. liveC'[k] = RemoveN(Chi0[k], liveC[k], cur, Count(Chi0[k], liveC[k], cur))
        BY <1>2, <2>2 DEF RemoveBlock
    <2>4. Chi0[k] \in Seq(Keys) /\ liveC[k] \subseteq DOMAIN Chi0[k]
        BY DEF TypeOK
    <2>. QED
        BY <1>2, <2>3, <2>4, RemoveNExact
<1>. QED
    BY <1>1, <1>2

(***************************************************************************)
(* Seen as a set of edges, remove_block(x) drops exactly the edges that    *)
(* touch x: duplicated edges go all at once.                               *)
(***************************************************************************)
LEMMA RemoveBlockEdges ==
    ASSUME TypeOK, StructureConsistent, RemoveBlock, StructureAssumption
    PROVE  LiveEdges' = {e \in LiveEdges : e[1] # cur /\ e[2] # cur}
<1>1. \A k \in Keys : liveC'[k] = IF k = cur THEN {}
                                  ELSE {i \in liveC[k] : Chi0[k][i] # cur}
    BY RemoveBlockChildren
<1>2. ASSUME NEW e \in LiveEdges'
      PROVE  e \in LiveEdges /\ e[1] # cur /\ e[2] # cur
    <2>1. PICK a \in Keys : \E i \in liveC'[a] : e = << a, Chi0[a][i] >>
        BY DEF LiveEdges
    <2>2. PICK i \in liveC'[a] : e = << a, Chi0[a][i] >>
        BY <2>1
    <2>3. a # cur
        <3>1. CASE a = cur
            <4>1. liveC'[a] = {}
                BY <1>1, <3>1
            <4>. QED
                BY <4>1, <2>2
        <3>. QED
            BY <3>1
    <2>4. liveC'[a] = {j \in liveC[a] : Chi0[a][j] # cur}
        BY <1>1, <2>3
    <2>5. i \in liveC[a] /\ Chi0[a][i] # cur
        BY <2>2, <2>4
    <2>. QED
        BY <2>2, <2>3, <2>5 DEF LiveEdges
<1>3. ASSUME NEW e \in LiveEdges, e[1] # cur, e[2] # cur
      PROVE  e \in LiveEdges'
    <2>1. PICK a \in Keys : \E i \in liveC[a] : e = << a, Chi0[a][i] >>
        BY DEF LiveEdges
    <2>2. PICK i \in liveC[a] : e = << a, Chi0[a][i] >>
        BY <2>1
    <2>3. a # cur /\ Chi0[a][i] # cur
        BY <1>3, <2>2
    <2>4. i \in liveC'[a]
        BY <1>1, <2>2, <2>3
    <2>. QED
        BY <2>2, <2>4 DEF LiveEdges
<1>. QED
    BY <1>2, <1>3

\* A step that does not change the children lists leaves the edges alone.
LEMMA EdgesUnchanged ==
    ASSUME liveC' = liveC
    PROVE  LiveEdges' = LiveEdges
BY DEF LiveEdges

\* Every step of remove_block_if is a BlockGraph step or a stutter of it.
LEMMA StepRefines == IInv /\ [Next]_vars => [BG!Next]_<<present, LiveEdges>>
<1> SUFFICES ASSUME TypeOK, StructureConsistent, [Next]_vars
             PROVE  [BG!Next]_<<present, LiveEdges>>
    BY DEF IInv
<1> USE StructureAssumption
<1>1. CASE VisitNode
    <2>1. NextKey \in Keys /\ LiveEdges' = LiveEdges
        BY <1>1, PopType, EdgesUnchanged DEF VisitNode, TypeOK
    <2>. QED
        BY <1>1, <2>1 DEF VisitNode, GetParentsTouch, BG!Next, BG!TouchBlock
<1>2. CASE SkipNode
    <2>1. NextKey \in Keys /\ LiveEdges' = LiveEdges
        BY <1>2, PopType, EdgesUnchanged DEF SkipNode, TypeOK
    <2>. QED
        BY <1>2, <2>1 DEF SkipNode, GetParentsTouch, BG!Next, BG!TouchBlock
<1>3. CASE RemoveBlock
    <2>1. LiveEdges' = {e \in LiveEdges : e[1] # cur /\ e[2] # cur}
        BY <1>3, RemoveBlockEdges
    <2>2. cur \in Keys
        BY DEF TypeOK
    <2>. QED
        BY <1>3, <2>1, <2>2 DEF RemoveBlock, BG!Next, BG!RemoveBlock
<1>4. CASE Resume
    <2>1. cur \in Keys /\ LiveEdges' = LiveEdges
        BY <1>4, EdgesUnchanged DEF Resume, TypeOK
    <2>. QED
        BY <1>4, <2>1 DEF Resume, BG!Next, BG!TouchBlock
<1>5. CASE KeepBlock \/ Finish \/ UNCHANGED vars
    <2>1. present' = present /\ liveC' = liveC
        BY <1>5 DEF KeepBlock, Finish, vars
    <2>. QED
        BY <2>1, EdgesUnchanged
<1>. QED
    BY <1>1, <1>2, <1>3, <1>4, <1>5 DEF Next

\* remove_block_if implements the BlockGraph abstraction (property
\* ImplementsBlockGraph): every step removes one block with all the edges
\* touching it, adds an edge-less key, or changes neither.
THEOREM RefinesBlockGraph == Spec => ImplementsBlockGraph
<1>1. Init => BG!Init
    BY DEF Init, BG!Init, LiveEdges, Edges0
<1>2. IInv /\ [Next]_vars => [BG!Next]_<<present, LiveEdges>>
    BY StepRefines
<1>. QED
    BY <1>1, <1>2, IInvInvariant, PTL DEF Spec, ImplementsBlockGraph, BG!Spec, BG!gvars

=====
