----------------------------- MODULE BlockGraph -----------------------------
(***************************************************************************)
(* What the relations of a BlockStructure promise while blocks are removed *)
(* from it (block_structure.py, spec sections 4.2 and 4.3), with the       *)
(* ordered, possibly duplicated parents / children lists forgotten: a set  *)
(* of blocks (the keys of _block_relations) and a set of parent -> child   *)
(* edges.  remove_block deletes a block together with every edge that      *)
(* touches it; a lookup through get_parents / get_children adds the key it *)
(* is asked about, with no edges, since _block_relations is a defaultdict. *)
(***************************************************************************)
CONSTANTS
    Keys,           \* usage keys
    InitBlocks,     \* the keys add_relation put into the relations
    InitEdges       \* the edges add_relation recorded

VARIABLES
    blocks,         \* keys of _block_relations
    edges           \* <<parent, child>> pairs recorded in the lists

gvars == <<blocks, edges>>

Init ==
    /\ blocks = InitBlocks
    /\ edges = InitEdges

\* remove_block(k): every edge into or out of k is gone, and so is k.
RemoveBlock(k) ==
    /\ blocks' = blocks \ {k}
    /\ edges' = {e \in edges : e[1] # k /\ e[2] # k}

\* get_parents(k) / get_children(k) on the defaultdict: k becomes a key.
TouchBlock(k) ==
    /\ blocks' = blocks \cup {k}
    /\ edges' = edges

Next == \E k \in Keys : RemoveBlock(k) \/ TouchBlock(k)

Spec == Init /\ [][Next]_gvars

\* Every recorded edge joins two blocks of the relations: the graph a
\* traversal over get_children / get_parents walks has no dangling edge.
EdgesWithinBlocks == \A e \in edges : e[1] \in blocks /\ e[2] \in blocks

=============================================================================
