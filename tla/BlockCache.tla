----------------------------- MODULE BlockCache -----------------------------
(***************************************************************************)
(* The course-blocks cache (BlockStructureFactory in block_structure.py,   *)
(* course_blocks/api.py), shared by several servers that serve requests    *)
(* for one course.                                                         *)
(*                                                                         *)
(* A request loads the structure with create_from_cache: one cache.get of  *)
(* the root entry, the version check against the transformers registered   *)
(* on that server, then one cache.get_many of the block data.  On a miss   *)
(* the server collects the course (create_from_modulestore and each        *)
(* transformer's collect, add_transformer stamping its VERSION) and writes *)
(* it with serialize_to_cache: cache.set of the root entry, then           *)
(* cache.set_many of the block data.  Publishing the course clears the     *)
(* cache through clear_course_from_cache (remove_from_cache), which        *)
(* deletes the root entry only.  The cache store evicts entries on its     *)
(* own.  Every cache call is atomic per key; nothing else is.              *)
(*                                                                         *)
(* A collection is abstracted to the course content it was built from and  *)
(* the version stamps of its transformer data: the root entry holds both,  *)
(* and so does every block entry it writes (the block data of a block is   *)
(* determined by the content and the transformers that collected it).     *)
(***************************************************************************)
EXTENDS Naturals, FiniteSets

CONSTANTS
    Servers,        \* processes serving requests for the course
    Transformers,   \* transformer names
    Blocks,         \* usage keys
    Root,           \* the course's root usage key
    MaxPublish,     \* number of times the course is published
    ContentBlocks,  \* ContentBlocks[c]: the blocks of the course at content c
    Reg,            \* Reg[s]: the transformers registered on server s
    Ver,            \* Ver[s][t]: the VERSION of transformer t on server s
    MaxRequests,    \* requests served by each server
    MaxEvictions,   \* evictions done by the cache store
    NoEntry,        \* a key the cache does not hold
    NotServed       \* no structure returned yet

Contents == 0..MaxPublish

ASSUME CacheAssumption ==
    /\ Root \in Blocks
    /\ MaxPublish \in Nat
    /\ ContentBlocks \in [Contents -> SUBSET Blocks]
    /\ \A c \in Contents : Root \in ContentBlocks[c]
    /\ Reg \in [Servers -> SUBSET Transformers]
    /\ Ver \in [Servers -> [Transformers -> Nat]]
    /\ MaxRequests \in Nat
    /\ MaxEvictions \in Nat

VARIABLES
    content,        \* the course content in the modulestore
    rootEntry,      \* cache entry "root.key.<root>"
    blockEntry,     \* blockEntry[b]: cache entry "<b>"
    clearPending,   \* the course was published and its cache not yet cleared
    pc,             \* pc[s]: where server s is in its request
    got,            \* got[s]: the root entry create_from_cache read
    coll,           \* coll[s]: the collection server s built
    served,         \* served[s]: the structure server s last returned
    requests,       \* requests[s]: requests server s has started
    evictions       \* evictions so far

vars == <<content, rootEntry, blockEntry, clearPending, pc, got, coll, served,
          requests, evictions>>

\* What a collection is, and what the root entry and a block entry hold.
\* stamps[t] is get_transformer_data_version(t): 0 when t never collected.
Collection == [content : Contents, stamps : [Transformers -> Nat]]

-----------------------------------------------------------------------------
\* The keys of _block_relations that create_from_modulestore builds: every
\* block added as a child, and the root once it has a child.  A course that
\* is only its root has no relations at all.
Relations(c) == IF ContentBlocks[c] = {Root} THEN {} ELSE ContentBlocks[c]

\* create_from_modulestore, then each registered transformer's collect and
\* add_transformer, which stores its VERSION under TRANSFORMER_VERSION_KEY.
Collected(s) ==
    [content |-> content,
     stamps  |-> [t \in Transformers |-> IF t \in Reg[s] THEN Ver[s][t] ELSE 0]]

\* Mutation: a transformer with no stamp at all is not checked.
VersionsMatchStampedOnly(s, e) ==
    \A t \in Reg[s] : e.stamps[t] # 0 => Ver[s][t] = e.stamps[t]

\* The all(...) of create_from_cache: every transformer registered on s has
\* the stamp get_transformer_data_version reads (default 0) equal to its
\* VERSION.
VersionsMatch(s, e) == \A t \in Reg[s] : Ver[s][t] = e.stamps[t]

\* Mutation: get_many is asked for every block key of the course.
ReadBlocksAllKeys(e) == [b \in Blocks |-> blockEntry[b]]

\* The block data get_many returns for the relations of collection e.
ReadBlocks(e) == [b \in Relations(e.content) |-> blockEntry[b]]

\* create_from_cache returns a structure: the root entry is there, its
\* relations are not empty (if block_relations:) and the stamps match.
RootUsable(s) ==
    /\ rootEntry # NoEntry
    /\ Relations(rootEntry.content) # {}
    /\ VersionsMatch(s, rootEntry)

-----------------------------------------------------------------------------
Init ==
    /\ content = 0
    /\ rootEntry = NoEntry
    /\ blockEntry = [b \in Blocks |-> NoEntry]
    /\ clearPending = FALSE
    /\ pc = [s \in Servers |-> "idle"]
    /\ got = [s \in Servers |-> NoEntry]
    /\ coll = [s \in Servers |-> NoEntry]
    /\ served = [s \in Servers |-> NotServed]
    /\ requests = [s \in Servers |-> 0]
    /\ evictions = 0

\* A request reads the root entry and can use it: create_from_cache goes on
\* to read the blocks.
CacheHit(s) ==
    /\ pc[s] = "idle"
    /\ requests[s] < MaxRequests
    /\ RootUsable(s)
    /\ requests' = [requests EXCEPT ![s] = @ + 1]
    /\ got' = [got EXCEPT ![s] = rootEntry]
    /\ pc' = [pc EXCEPT ![s] = "load_blocks"]
    /\ UNCHANGED <<content, rootEntry, blockEntry, clearPending, coll, served,
                   evictions>>

\* The root entry is absent, its relations are empty, or a stamp is
\* outdated: create_from_cache returns None and the server collects the
\* course.
CacheMiss(s) ==
    /\ pc[s] = "idle"
    /\ requests[s] < MaxRequests
    /\ ~RootUsable(s)
    /\ requests' = [requests EXCEPT ![s] = @ + 1]
    /\ pc' = [pc EXCEPT ![s] = "collect"]
    /\ UNCHANGED <<content, rootEntry, blockEntry, clearPending, got, coll,
                   served, evictions>>

\* cache.get_many(block_relations.iterkeys()): whatever block entries are
\* there now become the structure's block data.
LoadBlocks(s) ==
    /\ pc[s] = "load_blocks"
    /\ served' = [served EXCEPT ![s] =
                    [content |-> got[s].content, stamps |-> got[s].stamps,
                     data |-> ReadBlocks(got[s]), cached |-> TRUE]]
    /\ pc' = [pc EXCEPT ![s] = "idle"]
    /\ UNCHANGED <<content, rootEntry, blockEntry, clearPending, got, coll,
                   requests, evictions>>

\* Collection from the modulestore.  add_transformer raises for a
\* transformer whose VERSION is 0, which ends the request.
Collect(s) ==
    /\ pc[s] = "collect"
    /\ \A t \in Reg[s] : Ver[s][t] # 0
    /\ coll' = [coll EXCEPT ![s] = Collected(s)]
    /\ pc' = [pc EXCEPT ![s] = "set_root"]
    /\ UNCHANGED <<content, rootEntry, blockEntry, clearPending, got, served,
                   requests, evictions>>

\* add_transformer raised: the request ends with nothing written.
CollectFails(s) ==
    /\ pc[s] = "collect"
    /\ \E t \in Reg[s] : Ver[s][t] = 0
    /\ pc' = [pc EXCEPT ![s] = "idle"]
    /\ UNCHANGED <<content, rootEntry, blockEntry, clearPending, got, coll,
                   served, requests, evictions>>

\* serialize_to_cache, first call: cache.set of the root entry.
SetRoot(s) ==
    /\ pc[s] = "set_root"
    /\ rootEntry' = coll[s]
    /\ pc' = [pc EXCEPT ![s] = "set_many"]
    /\ UNCHANGED <<content, blockEntry, clearPending, got, coll, served,
                   requests, evictions>>

\* serialize_to_cache, second call: cache.set_many of the block data; the
\* request then returns the structure it collected.
SetMany(s) ==
    /\ pc[s] = "set_many"
    /\ blockEntry' = [b \in Blocks |->
                        IF b \in ContentBlocks[coll[s].content] THEN coll[s]
                        ELSE blockEntry[b]]
    /\ served' = [served EXCEPT ![s] =
                    [content |-> coll[s].content, stamps |-> coll[s].stamps,
                     data |-> [b \in Relations(coll[s].content) |-> coll[s]],
                     cached |-> FALSE]]
    /\ pc' = [pc EXCEPT ![s] = "idle"]
    /\ UNCHANGED <<content, rootEntry, clearPending, got, coll, requests,
                   evictions>>

\* The course is published: its content changes, and the publish handler
\* will clear the course from the cache.
Publish ==
    /\ content < MaxPublish
    /\ ~clearPending
    /\ content' = content + 1
    /\ clearPending' = TRUE
    /\ UNCHANGED <<rootEntry, blockEntry, pc, got, coll, served, requests,
                   evictions>>

\* clear_course_from_cache -> remove_from_cache: cache.delete of the root
\* entry only; the block entries stay.
ClearCache ==
    /\ clearPending
    /\ rootEntry' = NoEntry
    /\ clearPending' = FALSE
    /\ UNCHANGED <<content, blockEntry, pc, got, coll, served, requests,
                   evictions>>

\* The cache store evicts one entry.
EvictRoot ==
    /\ evictions < MaxEvictions
    /\ rootEntry # NoEntry
    /\ rootEntry' = NoEntry
    /\ evictions' = evictions + 1
    /\ UNCHANGED <<content, blockEntry, clearPending, pc, got, coll, served,
                   requests>>

EvictBlock(b) ==
    /\ evictions < MaxEvictions
    /\ blockEntry[b] # NoEntry
    /\ blockEntry' = [blockEntry EXCEPT ![b] = NoEntry]
    /\ evictions' = evictions + 1
    /\ UNCHANGED <<content, rootEntry, clearPending, pc, got, coll, served,
                   requests>>

\* The steps a server takes once its request has started.
Continue(s) ==
    \/ LoadBlocks(s)
    \/ Collect(s)
    \/ CollectFails(s)
    \/ SetRoot(s)
    \/ SetMany(s)

Next ==
    \/ \E s \in Servers : CacheHit(s) \/ CacheMiss(s) \/ Continue(s)
    \/ Publish
    \/ ClearCache
    \/ EvictRoot
    \/ \E b \in Blocks : EvictBlock(b)

\* A started request runs to its end, and the publish handler runs; new
\* requests, publishing and evictions come from outside and are not forced.
Spec ==
    /\ Init /\ [][Next]_vars
    /\ \A s \in Servers : WF_vars(Continue(s))
    /\ WF_vars(ClearCache)

-----------------------------------------------------------------------------
(* Properties.                                                             *)

\* A structure handed back to the caller: the relations' content, the
\* transformer data, the block data read for each key of the relations
\* (NoEntry where get_many found none), and whether it came from the cache.
StructureOK(x) ==
    /\ x.content \in Contents
    /\ x.stamps \in [Transformers -> Nat]
    /\ x.data \in [Relations(x.content) -> Collection \cup {NoEntry}]
    /\ x.cached \in BOOLEAN

TypeOK ==
    /\ content \in Contents
    /\ rootEntry \in Collection \cup {NoEntry}
    /\ blockEntry \in [Blocks -> Collection \cup {NoEntry}]
    /\ clearPending \in BOOLEAN
    /\ pc \in [Servers -> {"idle", "load_blocks", "collect", "set_root", "set_many"}]
    /\ got \in [Servers -> Collection \cup {NoEntry}]
    /\ coll \in [Servers -> Collection \cup {NoEntry}]
    /\ \A s \in Servers : served[s] = NotServed \/ StructureOK(served[s])
    /\ requests \in [Servers -> 0..MaxRequests]
    /\ evictions \in 0..MaxEvictions

\* Spec section 7 (MissingVersion) and the version check of
\* create_from_cache: every structure a server works with was collected by
\* each transformer registered on that server, at that transformer's
\* VERSION there, even when another server with other transformers wrote
\* the cache.
ServedCollectedByRegistry ==
    \A s \in Servers : served[s] # NotServed =>
        \A t \in Reg[s] : served[s].stamps[t] = Ver[s][t] /\ served[s].stamps[t] # 0

\* Spec sections 4.6 and 5: a load sees the old collection or the new one,
\* never a mix: every block data of a structure served from the cache comes
\* from the collection its relations and stamps come from.
LoadedStructureCoherent ==
    \A s \in Servers : served[s] # NotServed =>
        \A b \in DOMAIN served[s].data :
            served[s].data[b] = [content |-> served[s].content,
                                 stamps |-> served[s].stamps]

\* Spec sections 4.6 and 8 (round trip): create_from_cache misses only when
\* the root entry is absent or a stamp is outdated.
LoadHonoursRootEntry ==
    [][\A s \in Servers :
         (pc[s] = "idle" /\ pc'[s] = "collect") =>
            (rootEntry = NoEntry \/ ~VersionsMatch(s, rootEntry))]_vars

\* Spec section 5: the cache is eventually consistent with the course; once
\* publishing and requests stop, the root entry is absent or holds the
\* current content.
CacheEventuallyCurrent ==
    <>[](rootEntry = NoEntry \/ rootEntry.content = content)

=============================================================================
