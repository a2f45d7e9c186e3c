-------------------------- MODULE BlockCacheProofs --------------------------
(***************************************************************************)
(* Type correctness of the block cache model: every server's request       *)
(* state, the cache entries and every structure returned stay well typed,  *)
(* for any number of servers, transformers, publishes, requests and        *)
(* evictions.  ServedCollectedByRegistry is only model-checked: with a     *)
(* transformer at VERSION 0 it fails (run unset_version_served), and a     *)
(* deployment condition ruling that case out would leave the version       *)
(* check's guard restated.                                                 *)
(***************************************************************************)
EXTENDS BlockCache, TLAPS

(***************************************************************************)
(* TypeOK is not inductive: LoadBlocks reads the fields of got[s] and      *)
(* SetRoot writes coll[s] to the cache, so a server at those steps must    *)
(* hold a collection, not NoEntry.                                         *)
(***************************************************************************)
TypeInv ==
    /\ TypeOK
    /\ DOMAIN served = Servers
    /\ \A s \in Servers : pc[s] = "load_blocks" => got[s] \in Collection
    /\ \A s \in Servers : pc[s] \in {"set_root", "set_many"} => coll[s] \in Collection

USE CacheAssumption

-----------------------------------------------------------------------------
(***************************************************************************)
(* Type correctness.  The only facts beyond the action definitions are     *)
(* that a collection's content is one of the course's contents and that   *)
(* the relations of a content are blocks of the course.                    *)
(***************************************************************************)
LEMMA RelationsAreBlocks ==
    ASSUME NEW c \in Contents PROVE Relations(c) \subseteq Blocks
BY DEF Relations

\* The structure LoadBlocks returns from a collection read from the cache
\* is well formed.
LEMMA LoadedStructureOK ==
    ASSUME NEW e \in Collection,
           blockEntry \in [Blocks -> Collection \cup {NoEntry}]
    PROVE  StructureOK([content |-> e.content, stamps |-> e.stamps,
                        data |-> ReadBlocks(e), cached |-> TRUE])
<1>1. Relations(e.content) \subseteq Blocks
  BY RelationsAreBlocks DEF Collection
<1>2. QED
  BY <1>1 DEF StructureOK, ReadBlocks, Collection

\* The structure SetMany returns from the collection it wrote is well formed.
LEMMA CollectedStructureOK ==
    ASSUME NEW e \in Collection
    PROVE  StructureOK([content |-> e.content, stamps |-> e.stamps,
                        data |-> [b \in Relations(e.content) |-> e],
                        cached |-> FALSE])
BY DEF StructureOK, Collection

LEMMA TypeInvInductive == Spec => []TypeInv
<1>1. Init => TypeInv
  <2> SUFFICES ASSUME Init PROVE TypeInv
    OBVIOUS
  <2>1. content \in Contents /\ requests \in [Servers -> 0..MaxRequests]
    BY DEF Init, Contents
  <2>2. evictions \in 0..MaxEvictions
    BY DEF Init
  <2>3. \A s \in Servers : served[s] = NotServed
    BY DEF Init
  <2>4. QED
    BY <2>1, <2>2, <2>3 DEF Init, TypeInv, TypeOK
<1>2. TypeInv /\ [Next]_vars => TypeInv'
  <2> SUFFICES ASSUME TypeInv, [Next]_vars PROVE TypeInv'
    OBVIOUS
  <2> USE DEF TypeInv, TypeOK
  <2>1. ASSUME NEW s \in Servers, CacheHit(s) PROVE TypeInv'
    BY <2>1 DEF CacheHit, RootUsable
  <2>2. ASSUME NEW s \in Servers, CacheMiss(s) PROVE TypeInv'
    BY <2>2 DEF CacheMiss
  <2>3. ASSUME NEW s \in Servers, LoadBlocks(s) PROVE TypeInv'
    <3>1. StructureOK(served'[s])
      <4>1. got[s] \in Collection
        BY <2>3 DEF LoadBlocks
      <4>2. served'[s] = [content |-> got[s].content, stamps |-> got[s].stamps,
                          data |-> ReadBlocks(got[s]), cached |-> TRUE]
        BY <2>3 DEF LoadBlocks
      <4>3. QED
        BY <4>1, <4>2, LoadedStructureOK
    <3>2. QED
      BY <2>3, <3>1 DEF LoadBlocks
  <2>4. ASSUME NEW s \in Servers, Collect(s) PROVE TypeInv'
    <3>1. Collected(s) \in Collection
      BY DEF Collected, Collection
    <3>2. QED
      BY <2>4, <3>1 DEF Collect
  <2>5. ASSUME NEW s \in Servers, CollectFails(s) PROVE TypeInv'
    BY <2>5 DEF CollectFails
  <2>6. ASSUME NEW s \in Servers, SetRoot(s) PROVE TypeInv'
    BY <2>6 DEF SetRoot
  <2>7. ASSUME NEW s \in Servers, SetMany(s) PROVE TypeInv'
    <3>1. StructureOK(served'[s])
      <4>1. coll[s] \in Collection
        BY <2>7 DEF SetMany
      <4>2. served'[s] = [content |-> coll[s].content, stamps |-> coll[s].stamps,
                          data |-> [b \in Relations(coll[s].content) |-> coll[s]],
                          cached |-> FALSE]
        BY <2>7 DEF SetMany
      <4>3. QED
        BY <4>1, <4>2, CollectedStructureOK
    <3>2. blockEntry' \in [Blocks -> Collection \cup {NoEntry}]
      BY <2>7 DEF SetMany
    <3>3. QED
      BY <2>7, <3>1, <3>2 DEF SetMany
  <2>8. CASE Publish
    BY <2>8 DEF Publish, Contents
  <2>9. CASE ClearCache
    BY <2>9 DEF ClearCache
  <2>10. CASE EvictRoot
    BY <2>10 DEF EvictRoot
  <2>11. ASSUME NEW b \in Blocks, EvictBlock(b) PROVE TypeInv'
    BY <2>11 DEF EvictBlock
  <2>12. CASE UNCHANGED vars
    BY <2>12 DEF vars
  <2>13. QED
    BY <2>1, <2>2, <2>3, <2>4, <2>5, <2>6, <2>7, <2>8, <2>9, <2>10, <2>11,
       <2>12 DEF Next, Continue
<1>3. QED
  BY <1>1, <1>2, PTL DEF Spec

(***************************************************************************)
(* Every state of the cache, of every server's request and of every        *)
(* structure returned is well typed, for every deployment: the property    *)
(* TypeOK of run cache_version_check.                                      *)
(***************************************************************************)
THEOREM CacheTypeCorrect == Spec => []TypeOK
BY TypeInvInductive, PTL DEF TypeInv


=============================================================================
