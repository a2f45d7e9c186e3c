--------------------------- MODULE BlockStructure ---------------------------
(***************************************************************************)
(* BlockStructureBlockData.remove_block_if (block_structure.py) and the    *)
(* lazy topological traversal that drives it.                              *)
(*                                                                         *)
(* The structure's _block_relations is a defaultdict from a usage key to   *)
(* ordered parents / children lists.  Once built, those lists only ever    *)
(* lose elements, so a list is represented by the list it was built as     *)
(* (constants Chi0, Par0) together with the set of its positions still in  *)
(* it (liveC, liveP).  `present' is the set of keys of the defaultdict,    *)
(* `dataKeys' the keys of _block_data_map.                                 *)
(*                                                                         *)
(* The traversal is a generator: it yields a block, the loop body of       *)
(* remove_block_if runs (maybe removing that block), and only then does    *)
(* the generator resume and read the block's children.  The stack holds    *)
(* frames: the children list a block had when it was expanded, and the     *)
(* positions of it not yet popped (stack.extend(reversed(children)) pops   *)
(* them first-child-first).                                                *)
(***************************************************************************)
EXTENDS Naturals, Sequences, FiniteSets

CONSTANTS
    Keys,       \* usage keys of the blocks
    Root,       \* root_block_key
    Chi0,       \* Chi0[k]: children list of k as built (add_relation order)
    Par0        \* Par0[k]: parents list of k as built

ASSUME StructureAssumption ==
    /\ Root \in Keys
    /\ Chi0 \in [Keys -> Seq(Keys)]
    /\ Par0 \in [Keys -> Seq(Keys)]

VARIABLES
    present,            \* keys of _block_relations
    liveC,              \* liveC[k]: positions of Chi0[k] still in k's children list
    liveP,              \* liveP[k]: positions of Par0[k] still in k's parents list
    dataKeys,           \* keys of _block_data_map
    stack,              \* traversal stack of frames
    visited,            \* traversal's visited set
    pc,                 \* "pop" | "yielded" | "resume" | "done"
    cur,                \* the block last yielded
    removal_condition   \* the blocks for which removal_condition(key) is true

vars == <<present, liveC, liveP, dataKeys, stack, visited, pc, cur,
          removal_condition>>

-----------------------------------------------------------------------------
(* Lists as built plus live positions.                                     *)

\* The positions of the live occurrences of x in list s.
Occ(s, live, x) == {i \in live : s[i] = x}

\* The number of live occurrences of x in s.
Count(s, live, x) == Cardinality(Occ(s, live, x))

\* Position i holds the Rank-th live occurrence of x.
Rank(s, live, x, i) == Cardinality({j \in Occ(s, live, x) : j <= i})

\* Live positions left after s.remove(x) is called n times: each call drops
\* the first remaining occurrence.
RemoveN(s, live, x, n) ==
    live \ {i \in Occ(s, live, x) : Rank(s, live, x, i) <= n}

\* add_relation appends the child to the parent's children and the parent to
\* the child's parents, so the lists as built record every edge the same
\* number of times on both sides.
ASSUME BuiltRelationsSymmetric ==
    \A p, c \in Keys : Count(Chi0[p], DOMAIN Chi0[p], c) = Count(Par0[c], DOMAIN Par0[c], p)

LiveChildren(k) == {Chi0[k][i] : i \in liveC[k]}
LiveParents(k) == {Par0[k][i] : i \in liveP[k]}

\* The keys that add_relation put into the defaultdict.
Present0 == {k \in Keys : Chi0[k] # << >> \/ Par0[k] # << >>}

Frame == [list : Seq(Keys), rest : SUBSET Nat]

\* A frame on the stack still has a position of its list to pop.
FrameOK(f) == f.rest # {} /\ f.rest \subseteq DOMAIN f.list

FirstPos(S) == CHOOSE i \in S : \A j \in S : i <= j

Top == stack[Len(stack)]

\* The key stack.pop() returns.
NextKey == Top.list[FirstPos(Top.rest)]

\* Mutation: an exhausted frame is left on the stack.
PoppedKeepsEmptyFrame ==
    LET i == FirstPos(Top.rest) IN
    [stack EXCEPT ![Len(stack)].rest = @ \ {i}]

\* The stack after that pop.
Popped ==
    LET i == FirstPos(Top.rest) IN
    IF Top.rest = {i} THEN SubSeq(stack, 1, Len(stack) - 1)
    ELSE [stack EXCEPT ![Len(stack)].rest = @ \ {i}]

\* traverse_topologically: a block other than the start node is ready once
\* every block of get_parents(block) has been visited.
Ready(c) == c = Root \/ LiveParents(c) \subseteq visited

\* get_parents(c) on the defaultdict inserts c; it is not called for the
\* start node.
GetParentsTouch(c) == IF c = Root THEN present ELSE present \cup {c}

-----------------------------------------------------------------------------
Init ==
    /\ present = Present0
    /\ liveC = [k \in Keys |-> DOMAIN Chi0[k]]
    /\ liveP = [k \in Keys |-> DOMAIN Par0[k]]
    /\ dataKeys = Present0
    /\ stack = << [list |-> << Root >>, rest |-> {1}] >>
    /\ visited = {}
    /\ pc = "pop"
    /\ cur = Root
    /\ removal_condition \in SUBSET Keys

\* The traversal pops a ready, unvisited block, marks it visited and
\* yields it to the loop of remove_block_if.
VisitNode ==
    /\ pc = "pop"
    /\ stack # << >>
    /\ Ready(NextKey)
    /\ NextKey \notin visited
    /\ visited' = visited \cup {NextKey}
    /\ present' = GetParentsTouch(NextKey)
    /\ cur' = NextKey
    /\ stack' = Popped
    /\ pc' = "yielded"
    /\ UNCHANGED <<liveC, liveP, dataKeys, removal_condition>>

\* Mutation: a block that is not ready is looked at but not popped.
SkipNodeWithoutPop ==
    /\ pc = "pop"
    /\ stack # << >>
    /\ ~Ready(NextKey) \/ NextKey \in visited
    /\ present' = GetParentsTouch(NextKey)
    /\ UNCHANGED <<liveC, liveP, dataKeys, stack, visited, pc, cur, removal_condition>>

\* The traversal pops a block that is not ready or already visited and
\* continues.
SkipNode ==
    /\ pc = "pop"
    /\ stack # << >>
    /\ ~Ready(NextKey) \/ NextKey \in visited
    /\ present' = GetParentsTouch(NextKey)
    /\ stack' = Popped
    /\ UNCHANGED <<liveC, liveP, dataKeys, visited, pc, cur, removal_condition>>

\* Mutation: remove_block without its loop over the block's parents.
RemoveBlockKeepsParentLinks ==
    /\ pc = "yielded"
    /\ cur \in removal_condition
    /\ liveP' = [k \in Keys |->
                   IF k = cur THEN {}
                   ELSE RemoveN(Par0[k], liveP[k], cur, Count(Chi0[cur], liveC[cur], k))]
    /\ liveC' = [liveC EXCEPT ![cur] = {}]
    /\ present' = present \ {cur}
    /\ dataKeys' = dataKeys \ {cur}
    /\ pc' = "resume"
    /\ UNCHANGED <<stack, visited, cur, removal_condition>>

\* Loop body of remove_block_if when removal_condition(usage_key) holds:
\* remove_block(usage_key).  Each child's parents list loses one occurrence
\* of the block per occurrence of the child in the block's children list,
\* each parent's children list likewise; then the block's relations entry
\* and its block data are deleted.
RemoveBlock ==
    /\ pc = "yielded"
    /\ cur \in removal_condition
    /\ liveP' = [k \in Keys |->
                   IF k = cur THEN {}
                   ELSE RemoveN(Par0[k], liveP[k], cur, Count(Chi0[cur], liveC[cur], k))]
    /\ liveC' = [k \in Keys |->
                   IF k = cur THEN {}
                   ELSE RemoveN(Chi0[k], liveC[k], cur, Count(Par0[cur], liveP[cur], k))]
    /\ present' = present \ {cur}
    /\ dataKeys' = dataKeys \ {cur}
    /\ pc' = "resume"
    /\ UNCHANGED <<stack, visited, cur, removal_condition>>

\* Loop body of remove_block_if when removal_condition(usage_key) is false.
KeepBlock ==
    /\ pc = "yielded"
    /\ cur \notin removal_condition
    /\ pc' = "resume"
    /\ UNCHANGED <<present, liveC, liveP, dataKeys, stack, visited, cur,
                   removal_condition>>

\* Mutation: the first child is lost when the children are pushed.
ResumeDropsFirstChild ==
    /\ pc = "resume"
    /\ present' = present \cup {cur}
    /\ stack' = IF Cardinality(liveC[cur]) <= 1 THEN stack
                ELSE Append(stack, [list |-> Chi0[cur],
                                    rest |-> liveC[cur] \ {FirstPos(liveC[cur])}])
    /\ pc' = "pop"
    /\ UNCHANGED <<liveC, liveP, dataKeys, visited, cur, removal_condition>>

\* The generator resumes after its yield: get_children(cur) (which inserts
\* cur into the defaultdict again if it was removed) and pushes the
\* children it returns.
Resume ==
    /\ pc = "resume"
    /\ present' = present \cup {cur}
    /\ stack' = IF liveC[cur] = {} THEN stack
                ELSE Append(stack, [list |-> Chi0[cur], rest |-> liveC[cur]])
    /\ pc' = "pop"
    /\ UNCHANGED <<liveC, liveP, dataKeys, visited, cur, removal_condition>>

\* The stack is empty: the generator ends and remove_block_if returns.
Finish ==
    /\ pc = "pop"
    /\ stack = << >>
    /\ pc' = "done"
    /\ UNCHANGED <<present, liveC, liveP, dataKeys, stack, visited, cur,
                   removal_condition>>

Next ==
    \/ VisitNode
    \/ SkipNode
    \/ RemoveBlock
    \/ KeepBlock
    \/ Resume
    \/ Finish

\* remove_block_if runs to completion on one thread.
Spec == Init /\ [][Next]_vars /\ WF_vars(Next)

-----------------------------------------------------------------------------
(* Reachability, for the properties.                                       *)

\* The nodes reachable from the set From along the pairs of E.
ReachVia(E, From) ==
    LET R[n \in 0..Cardinality(Keys)] ==
            IF n = 0 THEN From
            ELSE R[n - 1] \cup {e[2] : e \in {f \in E : f[1] \in R[n - 1]}}
    IN R[Cardinality(Keys)]

Edges0 == UNION {{<<a, Chi0[a][i]>> : i \in DOMAIN Chi0[a]} : a \in Keys}
LiveEdges == UNION {{<<a, Chi0[a][i]>> : i \in liveC[a]} : a \in Keys}

\* Blocks the pass has removed.
Removed == {k \in visited \cap removal_condition : pc # "yielded" \/ k # cur}

-----------------------------------------------------------------------------
(* Properties.                                                             *)

\* Types of the variables.
TypeOK ==
    /\ present \subseteq Keys
    /\ liveC \in [Keys -> SUBSET Nat]
    /\ liveP \in [Keys -> SUBSET Nat]
    /\ \A k \in Keys : liveC[k] \subseteq DOMAIN Chi0[k]
    /\ \A k \in Keys : liveP[k] \subseteq DOMAIN Par0[k]
    /\ dataKeys \subseteq Keys
    /\ stack \in Seq(Frame)
    /\ \A i \in DOMAIN stack : FrameOK(stack[i])
    /\ visited \subseteq Keys
    /\ pc \in {"pop", "yielded", "resume", "done"}
    /\ cur \in Keys
    /\ removal_condition \subseteq Keys

\* remove_block keeps the relations consistent while the traversal runs
\* over them: every edge is recorded on both sides the same number of
\* times (duplicate add_relation calls included), and no list of a block
\* in the structure names a block that is not.
EdgesBidirectional ==
    \A a, b \in Keys : Count(Chi0[a], liveC[a], b) = Count(Par0[b], liveP[b], a)

NoDanglingReference ==
    \A k \in present : LiveChildren(k) \cup LiveParents(k) \subseteq present

\* A key that is not in the relations has empty lists.
AbsentEmpty == \A k \in Keys \ present : liveC[k] = {} /\ liveP[k] = {}

\* The three together: the relations stay consistent across the removals
\* that remove_block_if makes while traversing them.
StructureConsistent == EdgesBidirectional /\ NoDanglingReference /\ AbsentEmpty

\* What remove_block_if does guarantee: when it returns, every block
\* reachable from the root in the structure it started from that
\* removal_condition was never evaluated on lies below a block the pass
\* removed.
SkippedOnlyBelowRemoved ==
    pc = "done" =>
        \A k \in ReachVia(Edges0, {Root}) \ visited :
            \E a \in Removed : k \in ReachVia(Edges0, {a})

\* remove_block_if, seen through the block / edge sets it edits, takes only
\* the steps BlockGraph allows: remove_block(cur) drops cur with every
\* (possibly duplicated) edge touching it at once, and a defaultdict lookup
\* adds an edge-less key.  Duplicate add_relation edges make this depend on
\* list.remove being called once per recorded occurrence on both sides.
BG == INSTANCE BlockGraph
        WITH blocks <- present, edges <- LiveEdges,
             InitBlocks <- Present0, InitEdges <- Edges0

ImplementsBlockGraph == BG!Spec

\* remove_block_if returns.
Terminates == <>(pc = "done")

\* Spec section 8: after remove_block(x), has_block(x) is false.  Stated for
\* the blocks remove_block_if removed, once it has returned.
RemovedBlocksAbsent ==
    pc = "done" => \A k \in Removed : k \notin present

\* Spec sections 4.3 and 8: remove_block_if removes every block reachable
\* from the root for which the condition holds, so every block still
\* reachable from the root when it returns was evaluated.
ReachableBlocksEvaluated ==
    pc = "done" => ReachVia(LiveEdges, {Root}) \subseteq visited

=============================================================================
