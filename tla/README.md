# TLA+ models of the course block-structure cache

This directory holds TLA+ models of the block-structure subsystem of this
repository: `openedx/core/lib/block_cache/block_structure.py` (the block
graph, block removal, the cache factory) and
`lms/djangoapps/course_blocks/transformers/user_partitions.py` (group-access
merging), the cache clearing of `lms/djangoapps/course_blocks/api.py`, and the
field visibility of `openedx/core/djangoapps/user_api/accounts/serializers.py`.
There are TLC configurations that check the models on small instances, and
TLAPS proofs of the main invariants and of one refinement, for every value
of the constants.

## 1. Inventory

### Components and their state

| Component | Source | State | Operations |
|---|---|---|---|
| BlockStructure | block_structure.py:16-49 | `root_block_key`; `_block_relations`, a `defaultdict` from a usage key to ordered `parents` / `children` lists | `add_relation`, `get_parents`, `get_children`, `has_block`, `topological_traversal` |
| BlockStructureBlockData | :52-105 | `_block_data_map` (a defaultdict of per-block xblock fields and transformer data); `_transformer_data` (structure-wide, holds the `_version` stamps) | the `get_*` readers, `remove_block`, `remove_block_if` |
| BlockStructureCollectedData | :108-145 | `_xblock_map`, `_requested_xblock_fields` | `request_xblock_fields`, `collect_requested_xblock_fields`, `add_xblock`, `add_transformer` (stamps VERSION, rejects 0), `set_transformer_data`, `set_transformer_block_data` |
| BlockStructureFactory | :148-209 | none of its own; it reads the modulestore and reads and writes the cache | `create_from_modulestore`, `serialize_to_cache`, `create_from_cache`, `remove_from_cache` |
| traverse_topologically | `graph_traversals` (not in the repository; spec 4.1) | a generator: stack, visited set | one `next()` per yielded block |
| Transformer registry | `transformer` (not in the repository) | the registered transformers with their VERSION | `get_registered_transformers` |
| MergedGroupAccess | user_partitions.py:14-115 | `_access`: partition id to the set of allowed group ids | `__init__` (merge with the parents), `_intersection`, `check_group_access` |
| UserPartitionTransformer | user_partitions.py:118-226 | none | `_get_user_partition_groups`, `collect` (body is `pass`), `apply` |
| course_blocks api | api.py | a module-level cache handle | `get_course_blocks`, `clear_course_from_cache` (wrappers over code not in the repository) |
| AccountFullUserProfileReadOnlySerializer | accounts/serializers.py:41-150 | `configuration`, `admin_fields` | `to_native` (`_visible_fields`, `_get_profile_visibility`, `_filter_fields`) |

The teams serializers cannot be imported (section 6). The remaining four
source files (a teams acceptance-test page, support URLs, and two test
modules) have no state or algorithm of their own and are not modelled.

### How the components interact

* `create_from_modulestore` walks the modulestore recursively and calls
  `add_relation` for every parent-to-child edge. It does not memoise, so a
  sub-DAG shared by two parents is walked once per path and its edges are
  recorded several times.
* Transformers collect data into the structure. `serialize_to_cache` then
  writes two things to the shared cache store: one root entry (the relations
  and the structure-wide data, including the version stamps) and then, with
  `set_many`, one entry per block.
* On a later request, `create_from_cache` reads the root entry. It compares the
  version stamps with every registered transformer's VERSION, and on a match it
  `get_many`s the block data.
* The apply phase removes blocks in place, through `remove_block_if`. That
  method consumes the lazy generator `topological_traversal` while it removes
  blocks from the same dicts the generator reads.
* Several request processes share the cache store. It is the only state they
  share; every request builds or loads its own structure.

### What is hard here

* **A generator interleaved with its consumer.** `remove_block_if` removes the
  block the traversal is suspended on. When the generator resumes it reads that
  block's children, and it decides which blocks are ready from parents lists
  that the consumer has just edited.
* **`defaultdict` lookups insert keys.** `get_parents` and `get_children`
  create an entry for any key they are asked about, removed keys included.
* **Duplicate edges.** `list.remove` deletes one occurrence per call, so
  `remove_block` stays consistent only if both sides hold the same number of
  copies of every edge.
* **The cache is written as several entries without atomicity.** The root entry
  is written before the block data. Concurrent collectors, readers, eviction and
  `remove_from_cache` (which deletes only the root entry) interleave freely.
* **Group-access merge semantics.** A `None` universe set is mixed with concrete
  sets. The union over parents skips the parents that leave a partition
  unrestricted.

### What makes each component correct

* **Relations:** every edge is recorded on both sides equally often, and no list
  names a block that is not in the structure.
* **remove_block / remove_block_if:**
  * a removed block is gone (`has_block` is false for it);
  * every block reachable from the root has the condition evaluated on it;
  * nothing outside the condition is removed;
  * the pass ends.
* **Traversal:** it yields each block once, and only after all of the block's
  parents.
* **Cache:** a load returns the relations, the block data and the version stamps
  of one and the same collection, or nothing. After a version bump, a load
  returns nothing. `remove_from_cache` makes later loads miss.
* **MergedGroupAccess:** per partition, a block admits the groups its own
  setting admits, intersected with the union of what its parents admit, with
  a parent that does not restrict the partition standing for every group
  (the comment at line 52). A block all of whose parents deny a user on a
  partition denies that user too.
* **Account visibility:** a stranger sees more than the public fields only of
  an account that chose `all_users` (or chose nothing, under an `all_users`
  default) and needs no parental consent.

The hazards these properties are aimed at are listed, each at its line, under
`hazards` in `PROJECT.json`.

## 2. Modules at a glance

| Module | Models | Checked by | Proved in |
|---|---|---|---|
| `BlockStructure` | `remove_block`, `remove_block_if` and the traversal generator | `MCBlockStructure` | `BlockStructureProofs` |
| `BlockGraph` | what the relations promise under removal: a set of blocks and a set of edges | as the property `ImplementsBlockGraph` of `BlockStructure` | `BlockStructureProofs` (`RefinesBlockGraph`) |
| `BlockCache` | the shared cache: `serialize_to_cache`, `create_from_cache`, `remove_from_cache`, the version check, several servers, publishing, eviction | `MCBlockCache` | `BlockCacheProofs` |
| `GroupAccess` | `MergedGroupAccess` and `_get_user_partition_groups` | `MCGroupAccess` | `GroupAccessProofs` |
| `AccountVisibility` | `AccountFullUserProfileReadOnlySerializer.to_native` and its helpers | `MCAccountVisibility` | `AccountVisibilityProofs` |

Still open: `create_from_modulestore` as a state machine (it is a recursive
operator of MCBlockStructure, and a single `Collect` step of BlockCache), and
the collect-phase setters of BlockStructureCollectedData.

## 3. Modules

### BlockStructure.tla

This module models `remove_block_if`. The relations are the lists as they were
built (the constants `Chi0` and `Par0`) together with the set of positions still
in each list (`liveC`, `liveP`). This representation is exact because after
the build, the lists only lose elements. `present` is the key set of the
relations defaultdict, and `dataKeys` the key set of `_block_data_map`.

The traversal stack holds frames: the children list a block had when it was
expanded, with the positions not yet popped. This is the same thing as
`stack.extend(reversed(children))` followed by pops.

| Action | Code |
|---|---|
| `VisitNode` | the generator pops a ready, unvisited block (one whose parents are all visited), calls `get_parents` (a defaultdict insert), marks the block visited and yields it |
| `SkipNode` | the generator pops a block that is not ready or already visited |
| `RemoveBlock` | `remove_block_if` line 104-105 with the condition true: `remove_block`, where each child's parents list loses one occurrence of the block per occurrence of the child in the block's children list (`list.remove`), parents likewise, then the relations and data entries are deleted |
| `KeepBlock` | the condition is false |
| `Resume` | the generator resumes: `get_children(cur)`, which re-inserts `cur` if it was removed, and pushes the children |
| `Finish` | the stack is empty and the loop ends |

`removal_condition` is a set of keys chosen in `Init` and fixed after that. It
ranges over every subset.

### MCBlockStructure.tla

This module fixes the course
`r -> a, b; a -> c; b -> c, d; c -> d`. `Walk` is `build_block_structure`
transliterated as a recursive operator (used by TLC only). It gives the
`add_relation` calls in order, and from them the lists. For example, `d`'s
parents list is `[c, c, b]` and `c`'s children list is `[d, d]`. The course is
small, but it has the two features that matter:
* a shared sub-DAG, which gives duplicated edges;
* a block (`c`) with two parents, one of which precedes the other in the
  traversal, which exposes the skipped-block case.

Symmetry is not used: the keys play different roles in the fixed DAG.

### BlockGraph.tla

The abstract view of the relations: a set `blocks` (the keys of
`_block_relations`) and a set `edges` of parent-to-child pairs, with the order
and the duplicates of the lists forgotten. `RemoveBlock(k)` deletes `k` and
every edge touching it; `TouchBlock(k)` adds `k` with no edge (a defaultdict
lookup). `BlockStructure` instantiates it with
`blocks <- present, edges <- LiveEdges` (the pairs still in the children
lists). A `remove_block` is one `RemoveBlock` step, however many copies of its
edges the lists held; a `Resume` or `VisitNode` that re-inserts a key is a
`TouchBlock`; every other step is a stutter.

### BlockCache.tla

The cache store shared by several servers (`Servers`), each with its own
registry: the transformers registered on it (`Reg[s]`) and their `VERSION`
(`Ver[s]`). A collection is abstracted to the content it was built from and
its version stamps (`stamps[t] = 0` when `t` did not collect, the default of
`get_transformer_data_version`). The store holds `rootEntry` (the relations
plus the structure-wide data) and `blockEntry[b]`. Each cache call is atomic,
as the spec says of the store, and nothing else is.

| Action | Code |
|---|---|
| `CacheHit(s)` / `CacheMiss(s)` | `create_from_cache`: `cache.get` of the root; `if block_relations:`; the `all(...)` version check |
| `LoadBlocks(s)` | `cache.get_many` of the relations' keys, whatever the store holds by then |
| `Collect(s)` / `CollectFails(s)` | the collect phase; `add_transformer` raises on `VERSION` 0 |
| `SetRoot(s)`, `SetMany(s)` | `serialize_to_cache`: `cache.set` of the root, then `cache.set_many` of the blocks |
| `ClearCache` | `clear_course_from_cache` -> `remove_from_cache`: deletes the root entry only |
| `Publish` | the course changes (the modulestore; not in the repository) |
| `EvictRoot`, `EvictBlock(b)` | the store's own eviction |

Bounds: `MaxRequests = 2` per server, one publish, one eviction, three servers
(`s3` has a transformer at `VERSION` 0, so that a collect fails), and a course
whose blocks are `{r, a}` before the publish and `{r, b}` after it, so that a
mixed load is visible. Fairness: weak fairness of every step a started
request takes (`Continue(s)`: one request is synchronous code that runs to its
end) and of `ClearCache` (the publish handler runs). New requests, publishes
and evictions come from outside and are not forced.

### GroupAccess.tla

`groupAccess[b][p]` is a block's `group_access` setting for partition `p`
(`{}` for both a missing key and `[]`, which take the same path; `None` kept
apart). `merged[b]` is the block's `_access`, total over the partitions, with
`Universe` where the partition is not a key. The operators are the code's:
`Intersection` is `_intersection`, `BlockGroupIds`, `ParentsGroupIds`,
`MergedParentGroupIds` and `Merge` are the lines of `__init__`,
`CheckGroupAccess` is `check_group_access`, `GetUserPartitionGroups` is
`_get_user_partition_groups` (schemes outside `INCLUDE_SCHEMES` give no group).
`ComputeAccess(b)` builds a block's object once all its parents' exist (the
constructor takes them as its argument; the `collect` that would call it is
commented out); `ComputeRaises(b)` is the same call on a `None` setting,
where `set(None)` raises. `Init` ranges over every setting in
`{[], [g1], [g2], None}` for each block and partition.

`MCGroupAccess`: a diamond (`root -> a, b -> c`), two partitions (`p1` a
cohort partition, `p2` one of a scheme the transformer leaves out), two groups.
The diamond is the smallest course with a block of two parents; every user
(every assignment of groups) is quantified inside the properties.

### AccountVisibility.tla

The users' `account_privacy` preferences and parental-consent flags are
chosen in `Init` (every value); `ToNative(u, admin, cfg)` is one call of
`to_native` on a serializer built with `configuration=cfg` and
`admin_fields=admin`, and records what it returned together with the inputs
it read. `Configuration` is `__init__`'s fallback (`if not
self.configuration`: no argument or an empty dict means the settings).
`MCAccountVisibility` has two users, three preference values (`private`,
`all_users`, another), and four configurations: the settings, an empty one,
the teams serializers' copy with `url` added, and one defaulting to private.

## 4. Runs

| Run | Config | Result | What it shows |
|---|---|---|---|
| `remove_block_if` | `MCBlockStructure.cfg` | pass, 320 states | see below |
| `removed_block_reinserted` | `MCRemovedBlocksAbsent.cfg` | violation | see below |
| `reachable_block_skipped` | `MCReachableBlocksEvaluated.cfg` | violation | see below |
| `cache_version_check` | `MCBlockCache.cfg` | pass, 77,800 states | the version check keeps each server to collections of its own registry |
| `load_mixes_collections` | `MCLoadedStructureCoherent.cfg` | violation | a load mixes two collections |
| `unset_version_served` | `MCMissingVersion.cfg` | violation | a transformer at VERSION 0 matches a missing stamp |
| `root_only_course_never_cached` | `MCLoadHonoursRootEntry.cfg` | violation | a course that is only its root always misses |
| `stale_collection_after_clear` | `MCCacheEventuallyCurrent.cfg` | violation | a stale collection outlives the clear |
| `group_access_merge` | `MCGroupAccess.cfg` | pass, 239,216 states | parents' denial is inherited |
| `unrestricted_parent_dropped` | `MCMergeMatchesIntent.cfg` | violation | an unrestricted parent is dropped from the union |
| `none_group_access_raises` | `MCNoneMeansUnrestricted.cfg` | violation | a `None` setting raises |
| `account_visibility` | `MCAccountVisibility.cfg` | pass, 832 states | only an all_users account shows its shareable fields |

**`remove_block_if`** checks that, for all 32 removal conditions:
* `TypeOK` holds.
* `StructureConsistent` holds: `EdgesBidirectional` and `NoDanglingReference`
  hold in every state, on duplicated edges.
* `SkippedOnlyBelowRemoved` holds: any block the pass never evaluated lies
  below a removed block. This is what the code does guarantee.
* `Terminates` holds: the pass returns, under weak fairness of the
  single-threaded loop.
* `ImplementsBlockGraph` holds: seen as a set of blocks and a set of edges,
  the pass is a behaviour of `BlockGraph`.

`CHECK_DEADLOCK FALSE` is set because the method returns, and the model then
stops.

**`removed_block_reinserted`** shows that after removing the root, the resumed
generator's `get_children(root)` puts the root back. Finding 1 in
`PROJECT.json`.

**`reachable_block_skipped`** shows the skipped block, with the condition
`{b}`:
1. `c` is popped after `a` and skipped, because `b` has not been visited yet.
2. `b` is removed.
3. The resumed generator finds no children of `b`.

So `c` and `d` are never evaluated, yet they stay reachable through `a`. This
is finding 2: the spec says the predicate is evaluated over a snapshot of every
block.

Both findings depend on how `traverse_topologically` works, and that code is
not in the repository. The model follows the spec's lazy generator: children
are read when the generator resumes after the yield.

**`cache_version_check`** checks `TypeOK` and `ServedCollectedByRegistry`:
every structure a server returns, from the cache or freshly collected, carries
for each transformer registered on that server a stamp equal to its `VERSION`
there, although the other servers, with other registries, write the same
cache. The violation runs are findings 3 to 6 of `PROJECT.json`:
* `load_mixes_collections`: `serialize_to_cache` writes the root entry before
  `set_many`, so a reader between the two (or after an eviction of a block
  entry) gets new relations with old block data; the spec (section 5) says the
  root key is written last.
* `unset_version_served`: with registries `Reg <- MCRegUnset` and
  `Ver <- MCVerUnset`, a server whose transformer has `VERSION` 0 accepts a
  collection that transformer never stamped, since the missing stamp reads as
  the default 0 (spec section 7).
* `root_only_course_never_cached`: with a course that is only its root, the
  relations are empty, `if block_relations:` fails and every request
  collects again (spec sections 4.6 and 8, round trip).
* `stale_collection_after_clear`: a server that collected before a publish
  writes its root entry after the clear, and nothing removes it again
  (spec section 5, eventual consistency), under the fairness above.

**`group_access_merge`** checks `TypeOK`, `DeniedByAllParentsDenied` and
`NeverWiderThanIntended`, over every setting, every merge order and every
user. `NeverWiderThanIntended` compares each merged access with
`IntendedMerge`, the merge the constructor's comment describes, over the same
parents. The code may deny more than that merge, but it never allows a group
that merge would deny. The two violation runs are
findings 7 and 8:
* `unrestricted_parent_dropped` (`MergeMatchesIntent`): `c` has the
  unrestricted parent `a` and the parent `b` restricted to `[g1]` on `p2`;
  the union over parents skips `a`, so `c` is restricted to `{g1}` and a user
  of `g2` who reaches `c` through `a` is denied. The comment at line 52 reads
  an unrestricted partition as the universe set.
* `none_group_access_raises` (`NoneMeansUnrestricted`): the comment at
  line 33 allows `None` as a setting; `set(None)` raises `TypeError`.

The per-partition union has a consequence no run asserts, since neither the
spec nor a comment says which behaviour is meant: with two partitions a child
can admit a user every parent denies (listed under `hazards`).

**`account_visibility`** checks `ShareableOnlyWhenAllUsers` for every
preference, consent flag and configuration.

**Mutants.** Each property of the passing runs has a mutant of the code it is
about, listed in `PROJECT.json`, and the run's own configuration finds the
mutant's violation:
* `BlockStructure`: an exhausted frame left on the stack (`TypeOK`);
  `remove_block` without its parents loop (`StructureConsistent`); the first
  child lost when the children are pushed (`SkippedOnlyBelowRemoved`); a skip
  that does not pop (`Terminates`); the same `remove_block` without its
  parents loop, whose leftover edges `BlockGraph` cannot explain
  (`ImplementsBlockGraph`).
* `BlockCache`: a version check over the stamped transformers only
  (`ServedCollectedByRegistry`); `get_many` over every block of the course
  (`TypeOK`).
* `GroupAccess`: the block's own groups replacing its parents' instead of
  intersecting them (`DeniedByAllParentsDenied`, and `NeverWiderThanIntended`:
  the child's own `[g1]` then admits `g1` below parents restricted to `[g2]`);
  the constructor run on a
  `None` setting (`TypeOK`).
* `AccountVisibility`: `_get_profile_visibility` without the parental-consent
  check (`ShareableOnlyWhenAllUsers`).

## 5. Proofs

Four modules hold proofs, and tlapm checks all of them completely.

### BlockStructureProofs.tla

* `TypeCorrect`: `Spec => []TypeOK`.
* `StructureSafe`: `Spec => []StructureConsistent`, from the lemma
  `IInvInvariant` (`Spec => []IInv`).
* `RefinesBlockGraph`: `Spec => ImplementsBlockGraph`.

Both hold for every `Keys`, `Root`, `Chi0` and `Par0` that satisfy
`StructureAssumption` (types) and `BuiltRelationsSymmetric`.
`BuiltRelationsSymmetric` says that the lists as built record every edge
equally often on both sides, which holds because `add_relation` appends to both
lists. TLC checks it for the MC course.

**Inductive invariant.** `StructureConsistent` is the conjunction of
`EdgesBidirectional`, `NoDanglingReference` and `AbsentEmpty` (a key outside
the relations has empty lists). `AbsentEmpty` is there for induction:
`Resume` and `get_parents` bring a removed key back into the relations, and
`NoDanglingReference` then needs its lists to be empty. Without `TypeOK` the
conjunction is still not inductive. The invariant used is
`TypeOK /\ StructureConsistent`:
* `RemoveBlock` needs the positions to lie inside the lists (from `TypeOK`).
* It needs `EdgesBidirectional` for the pair (parent, removed block). That
  equality is what makes "call `remove` as often as the block occurs on the
  other side" remove every occurrence.

**Lemmas on the list representation:**
* `RemoveNAll`: removing `Count` occurrences leaves none.
* `RemoveNOther`: other values keep their occurrences.
* `CountZero`.
* `OccFinite`.
* `FirstPosIsLeast`: the pop position exists, from `WFMin` over `<` on `Nat`.
* `PopType`.

**The refinement.** `RefinesBlockGraph` follows the usual pattern: `Init`
maps to `BG!Init`, and under `IInv` every step maps to a `BG!Next` step or a
stutter of `<<present, LiveEdges>>` (`StepRefines`). The step that matters is
`RemoveBlock`: `RemoveBlockChildren` computes each children list after the
removal (the removed block's is empty, the others lose exactly the positions
holding it, by `RemoveNExact`), and `RemoveBlockEdges` concludes that
`LiveEdges'` is `LiveEdges` without the pairs touching the block. That needs
`EdgesBidirectional` from `IInv`: the parents side loses every copy only
because both sides held equally many. `Resume` and `VisitNode` add at most
the key they look up (`TouchBlock`) and keep the edges (`EdgesUnchanged`).

### GroupAccessProofs.tla

* `GroupAccessTypeCorrect`: `Spec => []TypeOK`.
* `ParentDenialInherited`: `Spec => []DeniedByAllParentsDenied`.
* `MergeNeverWiderThanIntended`: `Spec => []NeverWiderThanIntended`.

They hold for every DAG `Parents` (with a root of no parents), every set of
partitions, groups and schemes, and every set of `Settings` whose members are
`None` or sets of groups (`GroupAccessAssumption`), given that the sentinels
differ from the values they stand apart from (`SentinelAssumption`: `None`,
`Universe` and `NotComputed` are not sets of groups or accesses).

**Inductive invariant.** `DeniedByAllParentsDenied` relates a block to its
parents, and `TypeOK` says nothing about how a merged access was obtained,
so neither is inductive. `IInv` adds `MergedFromParents`: every merged block
had no `None` setting, its parents are merged, and its access still equals
`Merge` of theirs. It is preserved because an access is written once, and a
block is merged only after its parents, so the accesses `Merge(b)` reads never
change afterwards (`MergeFrame`); `MergeTyped` gives the type of a new access.
From `IInv`, the denial follows: the parents' union misses the user's group,
and intersecting with the block's own setting only removes groups
(`IInvDenies`).

The same invariant gives `NeverWiderThanIntended` (`IInvNeverWider`). Both
merges intersect the block's own groups with a value taken from the parents.
The code's value (`MergedParentGroupIds`) equals the intended one unless
some parent is unrestricted, and then the intended one is the universe
(`ParentsNoWider`). Intersecting both with the same own groups keeps
"no wider than" (`IntersectionMonotone`).

### BlockCacheProofs.tla
`CacheTypeCorrect` proves `TypeOK` with no hypothesis. `TypeOK` is not
inductive: `LoadBlocks` reads the fields of `got[s]`, and `SetRoot` writes
`coll[s]` to the cache. So `TypeInv` adds that a server at those steps holds
a collection, not `NoEntry`. `TypeInv` was checked with TLC on the `cache_version_check`
instance first.

### AccountVisibilityProofs.tla
`VisibilityRespectsPrivacy` proves `Spec => []ShareableOnlyWhenAllUsers` for
every set of users, fields, preference values and configurations that
`AccountAssumption` allows. One conjunct of that assumption matters here:
`Private # AllUsers`, the distinct constants `PRIVATE_VISIBILITY` and
`ALL_USERS_VISIBILITY`. The property concerns only the last `to_native`
result, so it is inductive on its own, and the argument covers a single call
(`ToNativeSound`). The keys of the dict `_filter_fields` builds are the
whitelist. A non-admin whitelist other than the public fields is the
shareable one, chosen because the visibility is `all_users`
(`NotPublicMeansAllUsers`). `_get_profile_visibility` returns `all_users`
only without parental consent, and only from an `all_users` preference or,
when there is no preference, from the default (`AllUsersVisibility`).

### What stays with TLC
* `Terminates` is liveness, and it relies on `ENABLED` and fairness.
* `SkippedOnlyBelowRemoved` is stated with reachability. Proving it needs
  induction over paths, which this prover cannot instantiate.
* The recursive build in MCBlockStructure.
* `ServedCollectedByRegistry`. It fails for a server with a transformer at
  `VERSION` 0 (run `unset_version_served`): `get_transformer_data_version`
  reads 0 for a transformer that never collected, so the check passes on a
  collection the transformer is missing from. A proof for every deployment
  would need a hypothesis on the registries ruling that case out, and what
  remains then is the version check's guard restated; the run on three
  servers with different registries is the meaningful check.
* The rest of `BlockCache`: its other properties are findings (violations),
  and `CacheEventuallyCurrent` is liveness.

## 6. Not modelled, and why

* **The collect-phase setters** of BlockStructureCollectedData
  (`request_xblock_fields`, `collect_requested_xblock_fields`,
  `set_transformer_data`, ...) write data the properties do not tell apart;
  BlockCache keeps only the version stamps `add_transformer` writes, and its
  rejection of `VERSION` 0.
* **`create_from_modulestore` as a state machine**: its result is computed by
  the recursive operator `Walk` of MCBlockStructure and, in BlockCache, is
  the relations of the collected content.
* **UserPartitionTransformer.apply cannot run as written.** Each of the
  following raises before any state changes:
  * it calls `get_transformation_data` on a `BlockData`, which has no such
    method;
  * it refers to `UserPartitionTransformation`, which is not defined;
  * it passes `remove_orphans` to `remove_block_if`, which takes one argument.

  Its `collect` is `pass`. The merge the commented-out `collect` would run is
  GroupAccess's `ComputeAccess`; the removal `apply` would drive is
  BlockStructure's `remove_block_if`.
* **The teams serializers** (`lms/djangoapps/teams/serializers.py`) cannot be
  imported: line 11 imports `UserProfileReadOnlySerializer`, which
  `accounts/serializers.py` does not define (it defines
  `AccountFullUserProfileReadOnlySerializer`). The configuration its class
  bodies would build is one of AccountVisibility's configurations.
* **The rest of accounts/serializers.py**: `_get_profile_image` (URL
  formatting), the field declarations of `AccountUserSerializer` and
  `AccountLegacyProfileSerializer`, the per-value validators and
  `convert_empty_to_None` have no state and nothing a property tells apart.
* **The traversal module, the transformer registry and `get_blocks`** are not
  in the repository; they are modelled from the spec where the code needs
  them (PROJECT.json marks these definitions `spec_modelled`).
* **The remaining files** (teams acceptance page, support URLs, tests) have
  no state machine.
