---------------------------- MODULE MCBlockCache ----------------------------
(***************************************************************************)
(* A course of three blocks served by three servers in a mixed            *)
(* deployment: s2 registers transformer t2 that s1 does not have, and s3   *)
(* runs a build of t3 whose VERSION was left unset.  The course is         *)
(* published once, which replaces block a by block b.                      *)
(***************************************************************************)
EXTENDS BlockCache, TLC

CONSTANTS s1, s2, s3, t1, t2, t3, r, a, b

MCServers == {s1, s2, s3}
MCTransformers == {t1, t2, t3}
MCBlocks == {r, a, b}

\* The course before and after the publish.
MCContentBlocks == [c \in 0..1 |-> IF c = 0 THEN {r, a} ELSE {r, b}]

\* A course that is only its root until it is published.
MCContentRootOnly == [c \in 0..1 |-> IF c = 0 THEN {r} ELSE {r, b}]

MCReg == [s \in MCServers |->
            IF s = s1 THEN {t1, t3} ELSE IF s = s2 THEN {t1, t2, t3} ELSE {t1, t3}]

\* Every transformer has VERSION 1, except t3 on s3.
MCVer == [s \in MCServers |-> [t \in MCTransformers |->
             IF s = s3 /\ t = t3 THEN 0 ELSE 1]]

\* s3 runs t2, which s1 does not have, in a build whose VERSION is unset
\* (and a t3 with its VERSION set).
MCRegUnset == [s \in MCServers |->
                 IF s = s1 THEN {t1, t3} ELSE {t1, t2, t3}]

MCVerUnset == [s \in MCServers |-> [t \in MCTransformers |->
                  IF s = s3 /\ t = t2 THEN 0 ELSE 1]]

=============================================================================
