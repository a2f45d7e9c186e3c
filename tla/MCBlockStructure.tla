-------------------------- MODULE MCBlockStructure --------------------------
(***************************************************************************)
(* Model-checking instance of BlockStructure.  The course is the DAG       *)
(*     r -> a, b      a -> c      b -> c, d      c -> d                    *)
(* and the relations are the ones create_from_modulestore builds from it:  *)
(* it walks the modulestore without memoising, so the shared sub-DAG below *)
(* c is walked twice and d three times, and their edges are added once per *)
(* walk.                                                                   *)
(***************************************************************************)
EXTENDS BlockStructure, TLC

CONSTANTS r, a, b, c, d

MCKeys == {r, a, b, c, d}

\* xblock.get_children() in the modulestore.
Store == (r :> << a, b >>) @@ (a :> << c >>) @@ (b :> << c, d >>)
         @@ (c :> << d >>) @@ (d :> << >>)

\* The add_relation calls of build_block_structure(root), in order.
RECURSIVE Walk(_, _), WalkChildren(_, _, _)
Walk(x, es) == WalkChildren(x, 1, es)
WalkChildren(x, i, es) ==
    IF i > Len(Store[x]) THEN es
    ELSE WalkChildren(x, i + 1,
                      Walk(Store[x][i], Append(es, << x, Store[x][i] >>)))

BuiltEdges == Walk(r, << >>)

EdgeList(k, side, end) ==
    LET sel == SelectSeq(BuiltEdges, LAMBDA e : e[side] = k)
    IN [i \in 1..Len(sel) |-> sel[i][end]]

MCChi0 == [k \in MCKeys |-> EdgeList(k, 1, 2)]
MCPar0 == [k \in MCKeys |-> EdgeList(k, 2, 1)]

=============================================================================
