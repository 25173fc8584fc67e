# TLA+ model of celluloid3

celluloid3 is a memory store that many agents share through one object-store
bucket (a directory, S3 or process memory). There is no server and no
database. Every agent appends to a *lane* of its own. A small JSON record per
lane, changed by compare-and-swap only, says who may append, at which *epoch*.
This directory models that protocol in TLA+, checks it with TLC on small
instances, and proves about it with TLAPS for all values of the constants.

Line numbers below are those of `celluloid3/*.py`.

## 1. The system

| part | state | operations |
| --- | --- | --- |
| Object stores (`objectstore.py`) | keys to bytes; an etag is a digest of the bytes | `get_with_etag`, `put` (plain, `if_none_match`, `if_match`), `delete`, `list`, fan-outs `get_many`, `delete_many` |
| Ownership record (`ownership.py`) | in the bucket: epoch, session, owned, expiry; in a handle: the claim it holds | `acquire`, `renew`, `maybe_renew`, `verify`, `release` |
| Lane, write path (`space.py`) | in the bucket: `<lane>/e<epoch>/<seq>` segments and `L1-<lo>-<hi>` compactions; in a `Space`: `own`, `own_tombstones`, `_staged`, `_next_seq`, `_base_written` | `activate`, `hold`, `deactivate`, `stage`, `flush`, `compact`, `gc` |
| Chain assembly (`space.py`) | none | `build_chain`, `select_chain`, `spans_cover`, `_fetch` |
| Merged state, read path (`space.py`) | fragments, authors, origins, tombstones, log; per peer the keys applied and broken | `SharedState.apply`, `refresh` |
| Time travel (`space.py`) | tags in the bucket | `head`, `resolve`, `state_at`, `tag` |
| MemoryLayer (`memory.py`) | one `Space`, a lock, the batch depth, the commit policy | `remember`, `remember_many`, `forget`, `batch`, `flush`, `checkpoint`, `lease`, `compact`, `gc`, `renew` |
| MemoryPool (`memory.py`) | resident layers, a lock | `agent`, `evict`, `_shed`, `drain` |
| Store configuration (`memory.py`) | one object | `load_or_create_config` |
| Segment codec, quantiser, embedder, CLI | none of their own | packing, floating-point search, hashing, argument parsing |

How they interact. A `Space` owns one `Ownership` handle. `activate` calls
`acquire`, replays the newest chain below the epoch it was given, and reads
the lanes of everybody else. `flush` PUTs one segment with **no** condition,
and calls `verify` before it tells the caller that the write is durable; the
epoch in the key and that one read are the whole fence. Task leases
(`MemoryLayer.lease`) use the same `Ownership` class on other keys, with the
agent's name as session, where a lane has a session per handle. A
`MemoryLayer` serialises its own threads with a lock; two processes share only
the bucket.

What is hard: a GET and a conditional PUT are two requests, and leases expire
between them; replies get lost after their request took effect; a process
that was superseded keeps writing until it looks; `gc` deletes from a list it
took before; a wake lists first and fetches afterwards; a flush can fail after
its PUT and be repeated with more records under the same key; a log of many
lanes is ordered by clocks that nobody synchronises; a pool waits for the lock
of a layer while it holds its own; a directory store does in five system calls
what its callers take for one. PROJECT.json lists these hazards with their
lines.

What makes each part correct:

* Ownership: an epoch has one writer; unexpired claims exclude one another;
  the record never goes back.
* Lane: what was acknowledged is never lost; superseded writers acknowledge
  nothing.
* Chain: a reader selects one complete lineage, or none.
* Read path: the merged state depends on the set of objects read and on
  nothing else; readers that keep refreshing converge.
* Time travel: a checkpoint names one cut for ever, and replaying it gives
  what was known then, or an error.
* Layer and pool: a write that returned is durable (or staged, by policy);
  shedding drops no work; nobody waits for ever.
* Object store: a conditional write is atomic; a store has one configuration.

## 2. The modules

`FencingTokens` is what an ownership record promises: epochs are issued one at
a time, each to one handle, never again. `Ownership` implements it (checked as
the property `IssuesFencingTokens`, proved as `ImplementsTokens`), and `Lane`
is built on `FencingTokens!Issue` alone. So what holds of `Lane` does not
depend on clocks, sessions or etags.

| module | models | extends |
| --- | --- | --- |
| `FencingTokens` | what ownership promises | |
| `Ownership` | `ownership.py` | (implements `FencingTokens`) |
| `LaneChain` | keys, chains, what `gc` deletes | |
| `Lane` | the write path of one lane | `LaneChain` (instantiates `FencingTokens`) |
| `Catchup` | the readers of one lane | `Lane` |
| `Merge` | `SharedState.apply`, of one record and of a log | |
| `TimeTravel` | several lanes over time, cuts, checkpoints | `LaneChain`, `Merge` |
| `ObjectStore` | the contract of a bucket | |
| `FileStore` | the directory store | `ObjectStore` (and implements it) |
| `StoreConfig` | `load_or_create_config` | `FileStore` |
| `Layer` | `MemoryLayer` | |
| `Pool` | `MemoryPool` | `Layer` |

### Ownership

`cell` is the stored record, `mine[h]` is `Ownership.record` of handle `h`,
`pc`, `seen`, `wish` and `tries` are where `h` is inside a call and its
locals. Each call is split at its requests:

| code | actions |
| --- | --- |
| `acquire` | `AcquireGet`; then one of `AcquireHeld`, `AcquireRenews`, `AcquireClaim`; then `AcquirePut` or `AcquireConflict`, which goes round the loop |
| `renew`, `maybe_renew` | `RenewGet` or `RenewFenced`; then `RenewPut`, which also loses the race |
| `verify` | `Verify` (one GET, no write) |
| `release` | `ReleaseGet` (returns at once when another session is named); then `ReleasePut` |
| errors | `ReplyLost` (the PUT landed), `RequestFails` (it did not), `Crash` |

A conditional PUT compares contents, since the etag is a digest of the bytes
(`objectstore.py:57`). `Absent` stands for a missing object, with epoch 0. The
clock is one for all handles and stops at `MaxTime`. `MaxEpoch` bounds the
claims attempted. `inDoubt` remembers the handles whose release landed while
its reply was lost: they still hold a record of a claim they asked to hand
back. `maybe_renew` renews only a claim that has not expired; `renew`, which
`MemoryLayer.renew` calls directly, does not ask. The model has the larger
behaviour.

### LaneChain and Lane

`LaneChain` says which keys a reader replays and which ones `gc` deletes, in
closed form. `compact` gives every L1 object the span `[0, hi]`, so a chain is
at most one L1 object and the segments behind it.

`Lane` is one lane and the handles that want to write it. `bucket` maps the
lane's keys to sets of records; `top`, `issued`, `holder` are the ownership
record; the rest are fields of each `Space`, and `phase` says where it is:

| code | actions |
| --- | --- |
| `activate` | `ClaimLane` or `Rejoin`, `ListLane` (the LIST), `FetchLane` (the GETs), `WakeFails` |
| `hold` | nothing, `Renew`, `RenewFenced`, or `ClaimLane`/`Rejoin` again with records staged, or `ReclaimFails` |
| `stage` | `Stage` |
| `flush` | `FlushPut`, then `FlushAck` (which may go on into compaction) or `FlushFails` |
| `compact` | `CompactPut`, `CompactEnds` |
| `gc` | `GcList`, then `GcDelete` one key at a time |
| `deactivate` | the flush steps, then `Deactivate`; `ReleaseReplyLost` |
| crashes | `Crash`; the restarted process is another handle |

The decisions of the model:

* An expiry may be noticed at any time. A handle may claim the lane while
  another one still believes in its claim, so there is no clock and every
  skew is covered. A handle that the record names may find itself expired
  (`FlushFails`, `ClaimLane` from "ready").
* A flush whose PUT landed and whose error hid it leaves everything staged;
  `FlushPut` has that disjunct. A PUT that did not land is a stutter.
* A record is a model value. `Kills` says which forget is for which put. `own`
  holds `own` and `own_tombstones` together with the puts that a tombstone
  killed left out, which is what a replay of either makes of them.
* The GETs of one wake happen at one instant, after a separate LIST.
* `memory.py:385` gives a put of forgotten content a new revision, so a record
  is never staged after the forget of it.
* `EarlyWakes` and `OverlappingGc` are assumptions on the environment, not
  on the code: whether a handle whose renewal got no reply may wake while the
  lease it published has still to run out, and whether `gc` may run while a
  wake is between its LIST and its GETs. Section 4 says what
  happens with them, section 5 what holds without them.

Not in `Lane`: `ack_verify=False`, which trades the fence for speed by
design; requantisation; the other lanes.

One sentence of the code that `Lane` contradicts has no run of its own: the
docstring of `flush` (`space.py:681`) says that bytes of a fenced flush "stay
under a superseded prefix that no reader will ever select". In `Lane` they are
selected as long as the newer epoch has no segment of its own. Nothing
acknowledged is lost by that; a write that was reported as failed appears.

### Catchup

`Catchup` extends `Lane` with readers of the lane. `peerEpoch`, `applied` are
the `PeerLane` of each reader, `view` is what its `SharedState` has become,
`wanted` is the local of a `refresh` that is under way.

| code | actions |
| --- | --- |
| `refresh`, to the end of the choice of keys | `RefreshList`: the LIST, `select_chain`, a new epoch, the L1 objects taken as applied |
| `refresh`, from the GETs on | `RefreshFetch` (objects gone by now are passed over), `RefreshFails` |
| `activate` of the reader | `ReaderWakes` |
| everything the lane does | `LaneStep` |

Lanes do not interact: a refresh treats each by itself, and what it merges is
the union of their records under `Replay`. So one lane is modelled, and the
readers' own lanes are not. The GETs of one refresh happen at one instant.

`Rewrites` is an assumption on the environment: whether a flush may fail after
its PUT has landed and be repeated with more records under the same key. It is
FALSE where the properties hold, and the run `catchup_rewritten` shows what
happens when it is TRUE.

Fairness: a reader keeps refreshing (`MemoryLayer._state` does, every
`refresh_every` seconds, as long as the agent calls anything), which is weak
fairness of `RefreshList`; and its GETs do not fail for ever, nor does it
restart inside every refresh, which is strong fairness of `RefreshFetch`.
Nothing is asked of the lane: its writers may stop or crash at any point, and
`gc` may empty any refresh as long as there is something left to delete.

### Merge and TimeTravel

`Merge` is `SharedState.apply` as an operator from a state, a record and an
author to a state; `ApplyAll` folds it over a set of them. A fragment is a
model value that stands for its content hash; text and vector belong to the
copy that is kept, so the state records that copy's origin. `IsMerge(s, H)`
says what a state is that has heard the set `H` of pairs of record and author:
the reference that `apply` is checked and proved against.

`TimeTravel` has several lanes and one reader, the agent `Me`, which writes a
lane too. `lanes` are the objects with what they hold and when they were
written; `epoch`, `nextSeq`, `own` are those of each lane's `Space`; `reader`
is the `Space` of `Me`: peers, log, state. A flush is one step here, and so is
a refresh: their insides are the matter of `Lane` and `Catchup`. What a refresh
does with one lane is `ListedChain` (the chain it selects), `Applied` (the keys
replayed before that still count) and `Wanted` (those it replays now).

| code | actions and operators |
| --- | --- |
| `flush`, `compact`, `gc` | `Flush`, `Compact`, `Gc` (any part of it when `GcFails`) |
| `activate` after a release or a crash | `Restart` |
| `refresh` over all peers | `Refresh` |
| `checkpoint`, `tag` | `Tag`, after the `Refresh` and `Flush` that `checkpoint` makes |
| `sorted_log`, `head`, `HEAD~n` | `Before`, `CutOf`, `UpTo` |
| `build_chain(keys, until)` | `BuildChain`, a recursive function |
| `state_at` | `StateAt`, `Broken` |

The clocks of the lanes drift apart without bound up to `MaxTime`, and two
commits may bear the same time. One lane's clock does not go back: that the
successive hosts of a lane agree well enough is assumed here and not by the
rest. `past`, `collected` and `reader.heard` are history: what each lane held
at each commit, what `gc` has been through, what the reader was told.

### ObjectStore, FileStore, StoreConfig

`ObjectStore` is the contract: a call is made, takes effect at one moment, and
returns; or it breaks off, with or without effect. `InMemoryObjectStore` is
literally this. `FileStore` splits the calls of the directory store at every
system call that another process can see: taking the key's `flock`, reading the
object, writing the temporary file (in two pieces), `os.replace`, `unlink`,
unlocking. Processes fail while writing and die anywhere; the kernel drops the
lock of a dead one. Some keys (`Plain`) are only put without a condition, as
segments and attachments are, and the others never: mixing both on one key
would break the lock's promise, and no caller does.

`StoreConfig` runs `load_or_create_config` over it: `Look`, then `Adopt`,
`Refuse` or `FindNothing`; `Create`, then `Win` or `Lose`, and `Reread`. A
process with an open store makes any call on other keys (`Use`). Which `dim` is
asked for is left open, so a process may refuse what it reads. One case behind
that is worth knowing: a process that names no `dim` adopts whatever it finds
at its first look, but one that loses the race to create compares what it
re-reads with the default it would have written (`memory.py:100`, `:121`), and
raises where a moment later it would have adopted.

Fairness: a process that has begun a call or an opening goes on with it, and
the kernel queues those who wait for a `flock` (strong fairness of `Lock`).
Using an open store, failing and dying are not fair.

### Layer and Pool

`Layer` is the `MemoryLayer` objects of one process. `lane` is what each
agent's lane has acknowledged, `holder` whose session has it, `status` whether
a layer has state (`up`), none (`off`), or state without a claim (`fenced`),
`staged` is `Space._staged`, `lock` the thread inside a `batch()`. Every public
method runs under the layer's lock and is one step; `batch()` keeps the lock
between steps. A flush commits or raises, and whether it had landed when it
raised is the matter of `Lane`.

| code | actions |
| --- | --- |
| `remember` | `Remember`: an id that is not forgotten, a free repeat or `StageAll` |
| `remember_many` | `RememberMany`, `RememberManyRaises` |
| `forget` | `ForgetMemory` |
| `_maybe_flush` | `MustFlush`, `StageAll` |
| `flush`, and that in `compact`, `checkpoint` | `Flush` |
| `batch` | `BatchEnter`; `BatchExit` or `BatchAborts` |
| `recall`, `get`, `history`, ... | `Read` |
| `hibernate` | `Hibernate`: `Hibernated` or `HibernateRaises` |
| `Held`, `Fenced`, a failing store | `CallRaises`, `LosesLane` |
| a lease that runs out | `LeaseEnds` |

`Pool` adds the pool's dictionary, its lock and its calls: `AgentEnter`,
`AgentActivate`, `ShedOne`, `ShedDone`; `EvictEnter`; `DrainEnter`; and
`PutAway`, the `hibernate` of one layer by an eviction or a drain. `agent` and
`evict` keep the pool's lock while they wait for a layer's, `drain` does not.
A thread may use any layer that it was ever given (`Use`), resident or not.

Fairness: a thread that is inside a call of the pool and whose lock is free
again and again gets it in the end (strong fairness of `Progress`; Python's
locks are handed out by the operating system), and every `batch()` ends (weak
fairness of `BatchEnds`). Nothing else is fair.

What the model says beyond its properties, each by the exception that a
property has to make:

* A layer that is used after the pool shed it wakes again outside the pool.
  `pool.agent(name)` then makes a second layer, which raises `Held` against the
  first, and `drain` does not find that first one (`strays`).
* `evict` and `drain` take a layer out of the dictionary before its
  `hibernate`, which may raise: it stays up, with its staged records, and only
  a caller that kept a reference can reach it (`strays` again).
* `drain` stops collecting results at the first failure.
* `hibernate` of a layer that lost its lane drops what was staged and returns
  as if it had been saved (the exception in `StagedReachesLane`); of a layer
  without state it flushes nothing and keeps what is staged.
* With `PoolInBatch = TRUE`, that is, if `pool.agent()` may be called inside a
  `batch()`, `CallsReturn` fails: the pool's lock and the layer's are taken in
  both orders. No documentation rules it out or does it, so the run keeps it
  out and says so here.
* A failed `activate` in `pool.agent` leaves the layer resident, and nothing is
  shed for it.

### The MC modules

They give handles, sessions, records, agents and threads names for TLC.
Handles are symmetric in `Lane`, fragments in `TimeTravel`. Deadlock is checked
in `Pool` only: elsewhere the system stops once every process has crashed, or
the clock and the epochs have reached their bounds, and may.

### The proof modules

`OwnershipProofs`, `LaneProofs` and `LaneSafety` (with `LaneInvariant`, which
TLC checks too), `CatchupProofs`, `MergeProofs`, `TimeTravelProofs`,
`FileStoreProofs` and `PoolProofs` each extend the module that they are about.
Section 5 goes through them.

## 3. The runs that pass

| run | instance | what it shows |
| --- | --- | --- |
| `ownership_lane` | 2 handles with a session each, TTL 2, time to 4, 3 epochs, 2 tries | one writer per epoch, exclusion, the record never goes back, refinement of `FencingTokens` |
| `lane_durability` | 2 handles, a put and its forget, 2 epochs, 2 segments, compaction at 2 | nothing acknowledged is lost; a wake that ends as the owner is complete; acknowledgements come in epoch order; `LaneInv`, the invariant of the proof, holds |
| `catchup_visible` | 1 handle, 1 reader, 2 puts, 2 epochs, 2 segments | a refresh that loses no object on the way ends with all that was acknowledged when it began; a reader that keeps refreshing comes to know every acknowledged record |
| `timetravel` | 2 agents, 2 fragments, 1 checkpoint, 2 epochs, 3 segments per epoch, 3 flushes, 1 compaction, clocks 0 and 1 | the greedy chain is the closed form of `LaneChain`; a Space is the merge of what it heard; a replay is some state the lane was in; `head` and `HEAD~n` never go back on a lane; a checkpoint of uncollected lanes replays what its author knew |
| `store` | 2 processes, 3 keys, 2 configurations | the directory store implements `ObjectStore`; no lock is kept; both processes go by one configuration and get their answer |
| `pool` | 2 agents (one only reads and opens no batch) with 2 layers and 1, 2 threads, room for 1 layer, 1 text, 1 batch at a time, `flush_every=1` | staged records leave for the lane only; a held lane can be found; every call of the pool returns |

Why the bounds are enough. A lease of two ticks and time to four lets a claim
be read live, expire, be taken over and be renewed late, with a second
takeover inside the same run; two tries reach the end of the acquire loop.
In `Lane` two epochs are what a zombie and its successor need; two sequence
numbers give a base, a segment behind it and a compaction of both; a forget is
the only way in which records interact. The theorems cover what lies beyond,
a lineage that is superseded twice and handles that share a session
(`OneWriter`) among them. In `Catchup` one handle
that crashes, loses its lease and wakes again is enough to move the reader
between epochs, and `gc` between its LIST and its GETs makes the holes; that
two handles do no harm to the lane itself is what the runs of `Lane` and the
theorems show. Two segments let a reader have the second one without the first
when the compaction of both appears. `CatchupProofs` has the safety of a refresh
for any handles, readers, records, epochs and segments.

In `TimeTravel` two lanes are what orders of arrival and skew need, two
fragments let a lane hold one memory of its own and one it shares or forgets,
and three flushes with one compaction and one restart give a compaction with a
segment behind it that a cut can fall before, inside and after. `MergeProofs`
has the merge for any number of them, and `TimeTravelProofs` each of the run's
invariants for any agents, fragments, epochs, segments and clocks. In
`StoreConfig` two processes are enough for every race on one key, since a third
waits for the same lock; a key for each kind of write; `FileStoreProofs` has
any number. In `Pool` one room for two agents makes every other `agent()` shed,
the second layer of one agent shows what a reference to a shed layer does, and
one batch at a time is what `CallsReturn` has to wait for; `PoolProofs` has the
safety properties for any threads, agents and layers. `flush_every=1` with
`durable=False` commits what a call leaves staged, so that records stay staged
by batches and failures only.

Liveness: `Converges`, `LocksAreReleased`, `StoreOpens`, `CallsReturn`, each
under the fairness section 2 gives reasons for. The writers of a lane promise
nothing of the kind: every step of theirs answers a caller.

Every property has a mutant: an operator beside the definition it replaces
(`Body_NoBase`, `Claim_SameEpoch`, ...), a bug of the kind a change to that
code could bring. None of them is part of a specification.

## 4. The runs that find a disagreement

* `ownership_lease_overrun`. A task lease expires while its task runs, the
  same agent claims it again, and the end of the first block releases the
  second claim: `release` compares sessions only (`ownership.py:279`). README
  line 332 promises that exactly one agent runs the block.
* `lane_lost_renewal`. A renewal lands and its reply is lost. The handle
  believes itself expired before the record does; `hold` re-activates it,
  `acquire` turns into `renew` at the same epoch (`ownership.py:179`), the
  replay looks below that epoch only, and the next flush writes its base over
  segment 0. Acknowledged records are gone.
* `catchup_rewritten`. A flush fails after its PUT landed; a reader fetches
  the object; the flush is repeated with one more record under the same key
  and acknowledged. The reader has the key among those it has applied and
  never fetches it again, nor the L1 object that replaces it, because it takes
  that span as covered. It learns the record only when the lane or the reader
  starts anew. `memory.py:34` says that writes "become visible at your next
  refresh" and that every agent converges.
* `lane_gc`. A `gc` between the LIST and the GETs of a wake makes a hole of
  acknowledged records, which the docstring of `build_chain` excludes.
* `checkpoint_truncated`. Segments 0 and 1 are compacted, 2 is committed and
  tagged, 3 is committed, all four are compacted, and `gc` deletes the
  segments. Up to the checkpoint there is the compaction of 0 and 1, and then a
  gap: `state_at` replays that one and raises nothing, since `ChainBroken` is
  for a chain that is empty (`space.py:883`). README line 316 promises what the
  team knew then; `memory.py:677` says that `gc` can make old checkpoints
  unreachable, which would be the error.
* `layer_repeat`. A durable `remember` raises because its flush failed. Its
  caller tries again; the record is staged, so it counts as a repeat and its id
  is returned at once (`memory.py:393`), durable nowhere. `remember` says
  "By default the write is durable before this returns".

## 5. The proofs

`OwnershipProofs`, from `OwnershipAssumption` alone:

* `TypeCorrect`, `OneWriter`, `EpochsAdvance`, `ImplementsTokens`: an invariant
  ties the claim a handle holds, the record it is about to write and the
  record it has read to the epochs issued so far. The heart of it: a record
  that was read at epoch `e` and still equals the cell makes `e + 1` a fresh
  epoch, because every epoch issued is at most the cell's.
* `LanesExclude`, with the assumption `SessionsOfTheirOwn`: if two handles
  held unexpired claims, the older one's expiry would have been published in
  a record that a later claim found expired. The invariant says that the cell
  bounds the expiry of any claim made in the cell's epoch and that earlier
  claims have expired.

`LaneProofs` has `LaneTypeCorrect`, from `LaneAssumption`, and lemmas about
sets of records and keys. `LaneSafety` has

* `AckedIsDurable`: `AckedSurvives` holds, assuming `~EarlyWakes` and
  `~OverlappingGc`. The runs `lane_lost_renewal` and `lane_gc` show that
  without them the code does lose acknowledged records, so neither can be
  dropped.
* `DroppedWasNeverAcked`: `HolesAreUnacked`, from the same two.
* `FenceHolds`: `AcksInEpochOrder`, from neither.

The argument (`LaneInvariant`). An epoch that has a head, an object whose span
starts at zero, is a *lineage*: its first object carries all that earlier
lineages acknowledged. `AckedSurvives` alone is not inductive, as it says
nothing of what a handle has listed, remembers or is about to delete.
`LaneInv` adds it part by part:

* `TokensInv`, `SizeInv`: epochs and sequence numbers;
* `WakingInv`: nothing is written under the epoch of a lane that is waking;
* `ReadingInv`: what a wake has listed is there, complete, and on nobody's
  list of deletions; a writer of the listed epoch may still overwrite one of
  its objects, but knows as much;
* `WriterInv`: what a writer knows covers what was acknowledged up to its
  epoch, its sequence numbers are all present, and the segment it has put says
  what it is about to acknowledge;
* `DoomedInv`: what `gc` deletes is covered by a compaction;
* `LineageInv`: objects and acknowledgements belong to a lineage;
* `CompleteInv`: the newest lineage has everything acknowledged.

Nearly every clause has the alternative *or superseded*. A lineage with a
newer one may be in any state: `gc` may have eaten it, a late writer may have
started it from a lane that `gc` emptied. That alternative is stable, because
whatever is deleted from the newest lineage is covered by a compaction of the
same epoch, which is itself a head (`GcDeleteInv`). An acknowledgement needs
the record to name the handle, hence the highest epoch, hence a lineage that is
not superseded, whose chain ends in the segment just put (`PutIsInChain`). The
widest head of a chain exists because keys are bounded (`HeadExists`, by
well-foundedness of `<`); the bound is `MaxSeq`, which may be any number.

* `LaneInvHolds`: the invariant itself, from the assumptions of
  `AckedIsDurable`.

`MergeProofs`, for any fragments, agents, times and orders. `ApplyMerges`: if a
state is the merge of what was heard, applying one record more makes it the
merge of that and the record. Its lemmas say how the origins on offer and the
forgotten fragments grow by one record, and that pairs of time and author are
totally ordered. As a merge is determined by the set (`SameLanesSameState`),
`apply` commutes and is idempotent in every state that a Space can be in
(`ApplyCommutes`). That it is so in *every* state is false: a state that knows
a fragment and its tombstone at once is one that `apply` never makes.
`ApplyAllMerges`: applying a finite set of records, in whatever order the fold
takes them, gives the merge of what was heard before and the set. This one is an
induction. The lemma `Induction` puts it as a fact about sets (a set that has
zero, and the successor of each number in it, has every number, since `<` is
well-founded), which the provers take where they cannot take the library's
theorems about operators. So what a recursive function computes can be proved.

`TimeTravelProofs`, from the assumptions of `TimeTravel` and `Merge`:

* `ChainsAreGreedy`: the greedy cover that the code computes, the recursive
  function `BuildChain`, is the closed form of `LaneChain`, for every set of
  objects a lane may show, any epoch, up to any segment. `GreedyIsClosed` says it
  of any set of keys of one epoch.
* `TravelTypes`, `ReaderMerges`, `HeadsAreNewest`: the invariants `TravelTypeOK`,
  `MergeIsUnion` (a `Space` is the merge of what it heard), `HeadIsNewest`
  (`head` and `HEAD~n` never go back on a lane).
* `PastStaysReal`: what a chain replays to is what its lane held at some
  commit, though compactions cover many commits and `gc` deletes among them.
* `CheckpointsHold`: a checkpoint of lanes that `gc` has left alone replays
  what its author knew.

All but the last are consequences of `TravelInv` (`TravelAlways`), which has
four parts. `ShapeInv`: the parts of the state are of the right kind and
finite, and the reader's state is the merge of what it heard. `PastOK`: commits
are numbered without gaps, and the last one left what the lane's `Space` has.
`MarksOK`: each log entry, and each that a reader could still make, is of a
commit, and on one lane the later commit is not the earlier by the clock.
`BodiesOK`: an object, replayed on what its lane held before it, gives what the
lane held at its commit; of a base or a compaction, which carry everything, by
itself. `HeadIsNewest` speaks of the log only and is lost at the next `Refresh`
without `MarksOK`; `PastIsReal` is lost at the next `Compact` without
`BodiesOK` and `PastOK`.

`CheckpointsHold` needs `StoryInv` (`StoryAlways`), which relates what was read
to what the lanes held. `GrowthOK`: a later commit has all that an earlier one
had, but for what was forgotten. `OwnOK`: a `Space` has what its lane's last
commit left, through restarts. `CoverOK`: every segment of an epoch that `gc`
has not been through is there, and of the newest epoch every segment or a
compaction over it. `ReaderOK`: what the reader was told of a lane, in pieces
and in any order, replays to what one commit left, the one of its last log
entry. `TagsOK`: a checkpoint stands for a set of records heard, lane by lane
those of the commit in its cut. The proof of the theorem then takes three
steps: on each lane the cut selects a chain that replays to the commit
(`CutReplays`); the records of all chains together merge to the same state as
those heard by the author, since both replay alike (`MergeOfReplays`); and
`state_at`, which applies them one by one, makes that state (`ApplyAllMerges`,
`SameLanesSameState`).

`PoolProofs`, from the assumptions of `Layer` and `Pool` (`None` is no thread
and no layer, a name is no layer): `PoolTypes`; `ClaimsFound`
(`ClaimsAreResident`: a layer that holds its lane is in the pool or in the
hands of a call that puts it away, the strays of section 2 apart); `StagedSafe`
(`StagedReachesLane`). The invariant `PoolInv` adds two things that the
properties do not say: `ServesResident`, that the layer which `agent` is about
to wake is still in the dictionary, and `OneAtATime`, that an eviction has one
layer in hand and a shed has none when it looks for the next. A layer is taken
out of the dictionary and put among the layers in hand in one step under the
pool's lock; `drain`, which keeps no lock, is why the second is a set.

`FileStoreProofs`, from the assumptions of the three modules: `DirectoryInOrder`
(an inductive type invariant: who is past a lock holds it), `FlockIsAtomic`
(refinement of `ObjectStore` by the identity mapping: reading, a failed
condition, the rename and the unlink are `Act`; everything between a condition
and its rename holds the lock, so the condition still holds), and `OneCodebook`
(the configuration is created at most once and never changed, because nobody
deletes it and every write to it is a conditional create).

`CatchupProofs`, from the assumptions of `Lane` and `Catchup`:

* `ReaderTypes`: `ReaderTypeOK`, in every environment. What has to be shown is
  that a chain is of one epoch.
* `RefreshShows`: `VisibleAtNextRefresh`, assuming `~EarlyWakes`,
  `~OverlappingGc` and `~Rewrites`. The run `catchup_rewritten` refutes it with
  `Rewrites`; the other two are needed for the chain to be complete at all.

The difficulty is that objects come and go. A reader may have sequence number 5
from a segment that a compaction has replaced, from that compaction, or from
one before, and it takes a wider compaction as applied when it has the numbers
in its span. What all of these objects share is the commit. So the invariant,
`CatchupInv` (`CatchupAlways`), says that there is a *story*: a function `c`
from `<<epoch, seq>>` to the records that this commit wrote, such that

* `CommitsStory`: commits are numbered without gaps, the first of an epoch tells
  all that earlier epochs acknowledged, and what was acknowledged is in one;
* `HandleStory`: a writer knows what it has committed, and nothing is committed
  under the epoch of a lane that is waking;
* `ObjectStory`: an object tells what the commits in its span wrote; an L1 object
  spans nothing else;
* `PresentStory`: no commit of the newest lineage is lost;
* `ReaderStory`: a reader knows the commit of every number it has applied, and
  what is due is told by some number that it has applied or is fetching.

A number may be applied before it is committed: the reader has fetched the
segment of a flush that has not been acknowledged. `Heard` and `Gives` say what
holds then: the segment is still there as it was read, or superseded; and what
is due is known to the segment, to its writer and to readers of it. An
acknowledgement gives that number its place in the story, which is where
`Rewrites` would break it. The steps of the proof are the kinds of steps that a
lane takes: those that write nothing (`Still`), a PUT, a delete of `gc` (what
it deletes is superseded, or an L1 object that stays tells it:
`DeletedIsCovered`), and `FlushAck`, which extends `c`. For the LIST: the chain
that is selected spans every commit of its epoch (`ChainSpansCommits`), and
what was acknowledged comes with a number of it (`AckedIsSpanned`).

Only model-checked are `Converges`, `LocksAreReleased`, `StoreOpens` and
`CallsReturn`: liveness under fairness is out of this prover's reach.
`ExclusiveAgent`, `CheckpointReplays` and `ToldIsDurable` are refuted, not
proved, and so are `AckedSurvives` with early wakes, `HolesAreUnacked` with an
overlapping `gc` and `VisibleAtNextRefresh` with `Rewrites`, which is why their
theorems assume these away. Every invariant and every action property of the
passing runs is stated by a theorem.

## 6. Not modelled, and the plan

Left for later:

1. More of the read path: objects that do not parse (`PeerLane.broken`).
2. Requantisation in `compact`, whose in-memory effect comes after a `verify`
   that may raise.
3. LIST against concurrent writes: `os.walk` and paginated listings are not one
   moment, while `Lane` and `Catchup` take a LIST for one.
4. Attachments, an existence check followed by a plain put of
   content-addressed bytes; read-only layers.

Left out for good: the segment codec's byte layout, the quantiser's
floating-point arithmetic and the Rust kernel that mirrors it, the embedder,
the ranking of recall, the command line, the S3 client, what a rename without
fsync leaves after a power failure, examples, and the development harness.
