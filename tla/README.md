# Verification of simple-zanzibar

TLA+ models of the authorization engine in `src/src/`, model-checked with TLC
on small instances, with theorems checked by TLAPS for every value of the
constants. File names without a directory are under `src/src/`; `specs/` is
`src/specs/`.

## The system

simple-zanzibar is an in-process implementation of Google Zanzibar: relation
tuples `object#relation@subject`, a schema of namespaces whose relations are
rewrites (`this`, computed usersets, tuple-to-usersets, union, intersection,
exclusion), and checks, expansions and lookups over them at a chosen revision.

| Part | Source | State | Operations |
|---|---|---|---|
| Engine runtime | `api.rs`, `runtime.rs` | published `EngineState` behind an atomic pointer, bounded command queue, writer thread | writes through the queue, reads of one loaded state, drop and join |
| Write operations | `lib.rs`, `policy.rs` | `WriterState`: configs, compiled schema, store view, history, last revision | add / replace / delete schema parts, relationship batches, policy import, load, publication, retention |
| Revisions and tokens | `revision.rs`, `runtime.rs` | none (values) | next revision, token resolution |
| Schema | `schema/mod.rs` | none (compiled value) | compile, resolve, validate rows and filters |
| Store view | `relationship.rs` | checkpoint, inserted rows, tombstones, mutation count | batches with preconditions, queries, folding into a checkpoint |
| Indexed store | `relationship.rs` | rows, live bitmap, identity index, posting lists | insert, delete, scans, compaction |
| Check evaluator | `eval.rs` | remaining depth, check stack, frames, active index, memo | check, nested checks, memo |
| Expand and lookups | `eval.rs` | as above, plus producer plans | expand, lookup resources / subjects / permissions |
| Tenant shards | `api.rs` | shard map behind an atomic pointer, creation gate | get, get or create |
| Snapshot files | `snapshot.rs`, `relationship.rs` | files at a path and beside it; sections of a file | save (temporary file and rename, or in place), load, validate |
| Policy text, parser, domain types | `policy.rs`, `parser.rs`, `domain.rs`, `model.rs`, `error.rs` | none | parse, print |

How they interact. Every write API sends a command through a bounded
`sync_channel` to the one writer thread and waits on a one-shot channel. The
thread runs the operation on its private `WriterState`; a success takes the
next revision, appends a `PublishedSnapshot` (schema and store view, immutable)
to the retained history, stores a new `EngineState` through the atomic pointer,
and then answers with a token. A read loads the pointer once and resolves
`Latest` or `Exact(token)` on what it loaded; the evaluator then works on that
snapshot alone. A relationship write goes through the store view of the
writer's last state; a schema write revalidates all stored rows. A save writes
the latest snapshot on the caller's thread; a load builds a new engine whose
first checkpoint is the loaded segment.

What is hard here: readers that hold old states while publications and evictions go
on; a writer thread that may panic with commands queued; shutdown through a bounded
queue; an import that takes several revisions or none; an overlay whose rows live in
three places; query limits against tombstones; cyclic relationship data, cut cycles
and a memo that outlives them; double- checked creation of tenants; files that are
written, replaced and read at once by processes that may die, and whose rows and
indexes must agree. `PROJECT.json` lists these as hazards with their lines.

## Modules

| Module | What it models |
|---|---|
| `EngineOps` | The writer's operations as operators on `WriterState`: each returns the writers it passes through or an error; publication, retention, next revision; token resolution. |
| `Engine` | Clients, queue, writer thread, published state, panic, drop and join. Extends `EngineOps`. |
| `LinearStore` | Abstract: a register of published states in which every write and every read takes effect in one step between call and return. |
| `EngineOpsProofs`, `EngineProofs` | Lemmas on the operators; theorems on `Engine`, and that it implements `LinearStore`. |
| `IndexedStore` | A segment (`IndexedRelationshipStore`) as a record and operators: slots, live rows, posting lists, identity index with collision buckets, limited queries. |
| `StoreView` | `RelationshipStoreView` with batches mutation by mutation, folds and revalidation, over two segments. Extends `IndexedStore`. |
| `RelationSet` | Abstract: a set of rows with atomic batches. |
| `IndexedStoreProofs`, `StoreViewProofs` | What a segment's operators return and keep; theorems on `StoreView`, and that it implements `RelationSet`. |
| `TenantShards`, `TenantShardsProofs` | `ZanzibarTenantShards`, and its theorems. |
| `Semantics` | Reference: the meaning of a schema and rows, as the well-founded model of the rewrites. Declarative, no traversal. |
| `CheckRules` | What both models of the check use: the operands of each rewrite in evaluation order, the answer after which the next one is evaluated, the fanout limit, the memo. Extends `Semantics`. |
| `Eval` | Requests that check: `check`, and `lookup_permissions` with one memo for all its checks; the walk of a check one operand at a time. Extends `CheckRules`. |
| `Evaluator` | The same walk as one recursive operator, for the lookups, which make many checks in a step. Extends `CheckRules`. |
| `EvalProofs` | Theorems on `Eval`: types, depth, and that checks give the meaning of the schema. |
| `Planner` | What lookups read off the schema: expansions of a userset, the producer plan with what it leaves to verify, which subjects need a check. Extends `Evaluator`. |
| `Lookup` | `lookup_resources` as a search, one frontier entry a step; `lookup_subjects` and `expand`. Extends `Planner`. |
| `ActiveChecks`, `ActiveChecksProofs` | The generation-stamped index of active checks behind the evaluator's stack. |
| `SnapshotFormat` | The sections of a snapshot file as a record: encoding, the checks of full and trusted validation, the loaded store and its queries, as operators. |
| `SnapshotFiles` | Saves and loads at one path, step by step, on a file system of names and inodes. Extends `SnapshotFormat`. |
| `SnapshotFilesProofs` | Theorems on `SnapshotFiles`. |
| `MC*` | Instances for TLC. |

How state corresponds. `Engine`'s `writer` is the actor's `WriterState`
(`configs`, `rows`, `history`, `last`), `published` the pointer's `EngineState`,
`queue` the channel, `actor` the thread's program counter, and `pc`, `arg`,
`reply`, `loaded` the client threads. A write command is one step for the
writer's computation (`Execute`, on private data), one for the pointer store
(`Publish`) and one for the answer (`Respond`). A panic comes while a command is
executed, before anything of it is published: what follows the pointer store only
drops old values and sends the answer, and neither can panic.
A schema is a function from namespaces to relations to the references of their
rewrite, which is all that validation looks at; a malformed text is the value
`Malformed`. `SchemaHash` is any function, so the results do not assume that
different schemas have different hashes (the instances use one that collides).
`committed` and `seen` are history variables no guard reads, and the writer's
`origin` is a history field: the file it was loaded from.

In `IndexedStore` the seven posting indexes are one function from keys to lists
of slots, in either of their two representations, the bitmap of live rows is the
set it stands for, and a filter is the key whose list it scans, the rows it
matches and its limit. The segments a fold, a revalidation or the first mutation
of a loaded checkpoint builds row by row are given by what the insertions leave
(`StoreOf`, `WithIdentity`).

In `Eval`, `frames` is the stack of calls of the recursive evaluator. A frame
evaluates a goal: a relation of an object (`Whole`, a call of `evaluate_check_key`) or
an expression of its rewrite (a call of `eval_compiled_schema_expression`). `left`
holds the operands it has yet to evaluate, `depth` is `remaining_depth` in that call
and `low` the frame's `minimum_remaining_depth`. The check keys of the `Whole` frames
are the `check_stack` (`Active`; `ActiveChecks` is about the index in front of it),
`answer` is the membership or error that is being returned, and `todo` and `verdicts`
are the relations that `lookup_permissions` has yet to check and has checked. `cut` is
a history variable. A goal is entered (`Enter`, `Descend`) or answered where it stands
(`Direct`, `CutCycle`, `Recall`, `DepthExceeded`, `FanoutExceeded`,
`RelationNotFound`); a call goes on to its next operand (`NextOperand`) or returns
(`ShortCircuit`, `Exhausted`), and a nested one that returns an answer puts it in the
memo. `Evaluator` computes the same walk in one operator; the run `eval_check`
compares the two on every request (`StepsAgree`).

A snapshot of `Semantics` has, beside its schema and the rows in the order of
queries, what the evaluator can tell of the store: how many rows are the delta's
(`inserted`), which rows of the checkpoint a tombstone hides (`hidden`), whether
there is a delta, and which identifiers the checkpoint has interned (`symbols`).
The last two decide the form of a check key (`CheckKeyOf`). Where the view has no
delta and knows every identifier of a check, its key is a `Store` key; otherwise the
root's is `Public` and a nested one's `PublicName`, which are never equal, so a
cycle back to such a root enters it once more before it is cut. `bare` holds the
relations that were declared without a rewrite: they are evaluated as `this`, but
only they let an exclusion start with its exclude branch.

The meaning (`Semantics`) follows the code in one point that its documents do not
mention: a user without a relation is named by every row whose subject is that object,
with or without a relation, because `SubjectFilter` then does not look at the
relation. `Lookup`'s `walk` holds the locals of `lookup_resources_with_snapshot`
(frontier, visited, seen, resources, plan, runtime, memo) or the
`LookupSubjectCollector`, or the expansion. A query with the fanout's limit
(`QueryRows`) takes that many rows of the delta and of the checkpoint each, and only
then leaves out the tombstoned ones, as `StoreViewCompactIter` does. The order of the
schema's relations, in which expansions are enqueued, is one fixed order. The sample
of 64 rows of which 500 in 10 000 must be pruned is the pair `SampleSize`,
`MinPruned`.

`SnapshotFormat` keeps every number that the code writes at a chosen width as
bytes of base `ByteBase`, so widths, truncation and multi-byte deltas are as in
the code, with a base of 4 in place of 256 so that eight symbols need two bytes.
The hash of a name is a constant, and the instance's hashes collide. Offsets of
sections inside the file, the bytes of the symbol strings and the fields whose
only check is that they have one value are not in the record. In
`SnapshotFiles`, `dir` is the directory (the path and the temporary names),
`data` the content of each inode in chunks, `saver` and `loader` the calls on
their threads. A chunk names the content it is part of, which is what a digest
tells apart. A file is a head, a body and a footer; a compressed file is one
frame of two chunks, and a part of it does not decompress. A loader's `opened`
and `read` and the set `torn` are history variables: `opened` is the complete
content the file had when it was opened, forgotten when that file is written
while it is open; `torn` holds the files that a save wrote where others could
see it, in place or through a shared temporary name. A
crash stops a process and leaves its files; loss of written data with the power
is not modelled (the code does not call `fsync`). What a load accepts of a
mixture that no digest covers (`External` integrity) is unknown: both outcomes.

## Runs

| Run | Instance | Shows |
|---|---|---|
| `engine_ops` | one client, 12 commands of every kind, all tokens of 4 revisions, fresh engine or one loaded from one of two files, one of them with a row its schema does not know, retention 2 | histories are windows, snapshots well formed but for rows of the loaded file, revisions never reused, exact reads exact |
| `engine_race` | two clients, queue of one, schema / row / two-batch import, exact and latest reads, panics, drops | linearizable to `LinearStore`; read your writes; head only advances; each unanswered write in the writer's hands once; shutdown delivered |
| `engine_live` | three clients, queue of one, under fairness | a queued write returns; drop ends |
| `store_batches` | three rows, all batches of up to two mutations and one of three, three loaded checkpoints (one with a duplicate row), folding at 4 mutations or 2 tombstones, revalidation at any time, all rows in one hash bucket | refinement of `RelationSet`; indexes exact in every segment; rows stored once; overlay bounded; queries exact if their limit fits the matches of each segment |
| `store_must_not_match` | violation | a limited filter misses a live row behind tombstoned ones |
| `tenant_shards` | three threads, two tenants, one failing build, under fairness | one engine per tenant, none lost, calls return |
| `eval_check` | 712 snapshots, loaded ones and the same rows behind tombstones: groups that contain each other, folders with inheritance, union, intersection, both exclusion orders, bans that depend on themselves through an exclusion, a relation that contains itself; two depths, fanout 2, memo of 3 | checks answer the well-founded meaning or an error; the memo is right when no cycle was cut; a cycle costs no depth, but one level where the root has no store key; the walk at once gives the verdicts and the memo of the walk in steps |
| `lookups` | 653 snapshots: up to four of eleven rows about two documents, a folder, groups in a cycle, exclusion, intersection and a rewrite cycle; a deleted tupleset row; deltas over two or three deleted rows of one relation; cycles that a check cuts; one snapshot for each way a search loses a resource; two depths, fanout 2, two results, samples of two | resources: only members are returned, unverified ones too, and after a cut cycle where no exclusion is in the schema; none is lost on `Lossless` snapshots while no cycle was cut. Subjects: only members are returned, and all of them, or expansions that mean the relation, where no tombstones use up a query's limit (`TombstonesFit`). Searches end |
| `lookup_levels` | violation | a document two levels below a viewable folder is not found |
| `memo_cycles` | violation | a denial of a cut cycle is cached and wrong later |
| `active_checks` | three keys, threshold 2, depth 4, three generations | the index answers what the stack answers, across growth, resets and wrap-around |
| `snapshots` | three snapshots (three rows with collisions and shared keys, one row, one that is too large), five save options, eight load options, two savers of one process with two saves, failures and crashes at every step; every supported saved file loaded with all load options; about 830 foreign files: every other value of every byte, count and directory field of a saved file, sections of other files | a verified load gives one snapshot as saved, never a mixture; a saved file loads and answers every query as before; a fully validated store is consistent whoever wrote the file; uncompressed saves are atomic |

Bounds. A queue of one slot is the tightest capacity the builder accepts, so full
queues and blocked senders occur. The `try_send` of the shutdown message finds an
empty queue: when the last handle is dropped nobody is left whose command could be in
it; it fails only where the writer has panicked. Four revisions with retention two
cover publication, eviction, expiry and the refusal at the last revision;
`MaxRevision` stands for `u64::MAX`, so the overflow path is reached. Two clients are
enough for a reader to hold a state while another writes; three are used where a third
must find the queue full. In `StoreView` three rows give a batch that hits the delta,
the checkpoint and a tombstone at once, and a bucket from which the primary, a middle
and the last row can be removed. In `Eval`, the depth 16 exceeds what
`CyclesNeedNoDepth` asks for on any snapshot of the instance, the depth 3 does on the
smallest ones and is exceeded by the deeper checks of others; the fanout limit and the
memo's capacity are both exceeded. In `Lookup` the depth 1 turns the plan's shortcuts
off, and four rows are a path from a subject through a cycle of groups to a resource.
In `SnapshotFiles` two saves race for one temporary name or follow a crash, a third
content is at the path before them, and one load sees them at any point; loads do not
change files, so a second one would add nothing. The foreign files are read without
saves, and so are the saved files other than the first.

Fairness. `Engine!FairSpec` assumes weak fairness of the writer thread and of the
steps of a client that has a reply to take, a state to load or resolve, or a thread
to join: the operating system schedules runnable threads. No client is obliged to
start a call or to drop its handle, the panic is never obliged to happen, and
nothing is assumed of a client that has yet to put its command into the queue: the
properties speak of writes that are queued and of the drop of the last handle.
`TenantShards!FairSpec` assumes the same of running threads and that a thread
waiting for a gate that stays free gets it. Nothing fair is assumed elsewhere.

## Disagreements with the documents

Each `violation` run checks a sentence of the repository's documents; the
findings in `PROJECT.json` quote it.

1. `store_must_not_match`: specs/12 says that `MustNotMatch` succeeds when no
   relationship matches; the limit is counted before tombstones.
2. `memo_cycles`: specs/26 says that caching completed memberships is safe; a
   membership completed below a cut cycle is not.
3. `lookup_levels`: specs/31 says that a tuple-to-userset loses no resource; the
   search never goes on from the relation that inherits.

Four more were met and have no run. A memo hit does not charge its own depth to the
frame that asks (`eval.rs:1055`), so a later hit on that frame's entry may answer
where specs/26 ("A memo hit must not bypass that error") wants the depth error;
`MemoTransparent` says this too, its instance shows the cached denial. And specs/21
says that operations an index profile does not support return
`UnsupportedIndexProfile`; a write on an engine loaded from a `CheckOnly` file does
not look at the profile, and a precondition whose filter needs a broad index matches
nothing in the loaded checkpoint (`relationship.rs:1965`). The documentation of
`save_snapshot` says that the loader treats a file as untrusted (`lib.rs:353`); it
recompiles the schema and compares its hash (`snapshot.rs:865-889`), and full
validation checks that the rows and their indexes agree (`FullLoadExact`), but no row
is checked against the schema, so a loaded engine may show rows that a write would
have refused; a schema change then fails unless the new schema knows them. And the
limit of `store_must_not_match` is also the one that `expand` and `lookup_subjects`
query with (`eval.rs:1627`, `1794`): behind enough tombstoned rows of a relation they
miss live ones and do not report that the fanout was exceeded. `ExpandExact` and
`SubjectsExact` are stated where that does not happen.

`Lossless` in `Lookup` states where `lookup_resources` is complete; each of its
conditions is there because the search loses resources without it, and the instance
holds a snapshot on which `ResourcesComplete` fails if the condition is left out
(`Lossy`, and `lookup_levels`). Two branches
of a union with different residual checks: a document met first through the
branch whose check fails is not verified through the other. A relation that
inherits and is itself inherited from or named by a row: see `lookup_levels`. An
object that some rows name under the inherited relation, or did before they were
deleted: tupleset rows that name it under another one are not read. A pruned
relation that a rewrite of the same object includes: the rewrite is not followed.
Resources are also lost to the defect of `memo_cycles`, whose rows are a `Lossless`
snapshot: a candidate that is checked after a cycle was cut may be answered from a
wrong denial. So `ResourcesComplete` says nothing of a request that has cut one.
Below an exclusion the wrong denial returns a resource to a subject that is not a
member, and `ResourcesSound` leaves out these requests on schemas with an exclusion.

The model also shows where policy import differs from the design: it takes one
revision for the schema and one per batch (specs/20 has one per write), and it
starts a new history (specs/13 has the latest N snapshots retained). The
properties of `Engine` are stated for what the code does.

## What is proved

`EngineProofs` proves, for any clients, queue capacity, retention, revision bound,
commands, files and hash function, `TypeOK`, `HistoryWindow`, `SnapshotsWellFormed`,
`RevisionsNeverReused`, `ExactReads`, `ReadYourWrites`, `ShutdownDelivered` and
`HeadAdvances`. None of the invariants is inductive by itself: a stale reader's state
is only known to be well formed because the writer's was when it was published. What
`SnapshotsWellFormed` allows of an engine that was loaded from a file, that the file's
own rows are unknown to the file's own schema, is about the file and not about one
state: `RecordOK` says it of every snapshot of `committed`, and a reader's snapshots
are on that record. `EngineInv` therefore carries, for the writer, for the writer's
prepared next state and for every state a reader can reach, that the history is a
contiguous window ending in `last`, that its snapshots are well formed, and that each
agrees with `committed`; further that the published state is the writer's or the
prepared one's, that every `seen` revision and every token in a reply is at most the
published head, and how the actor's position fixes these. `EngineOpsProofs` has the
lemmas about the operators: every write operation yields a run of well-formed
snapshots with consecutive revisions, and `Retain` keeps a suffix that is a window.
The assumptions are the named `ASSUME`s of `EngineOps` and `Engine`, which TLC
evaluates on each instance; the only ones beyond typing are that the schema of a file
that loads compiles and has the hash in its header (`FilesLoad`), which the loader
checks, and that the queue has at least one slot.

`TenantShardsProofs` proves `OneEnginePerTenant` and `NoShardLost` for any
threads and tenants. The inductive invariant says that the gate's holder is the
only thread between the second look and the store, that its private map is the
shared one (plus its engine once built), and that its tenant is not yet in it.

`ActiveChecksProofs` proves `ActiveExact` and `NoKeyTwice` for any keys,
threshold, depth and generation width. `ActiveExact` speaks only of the side of
the threshold the stack is on, so the invariant adds what holds on both: no
mark is of a later generation, a current and active mark belongs to a key of
the stack at any height, and from the threshold on every key of the stack has
one; a pop keeps the last because no key is twice on the stack.

`EngineProofs` also proves that `Engine` implements `LinearStore`, and
`EveryWriteHeldOnce`. `CallOf` maps a client to the abstract call: a write is
done for its caller as soon as the pointer is swapped or the command refused, a
read as soon as the state is loaded, and the abstract database is the writer's
state. The refinement needs two facts that `EngineInv` does not have. `HeldInv`:
a write without a reply is at the actor or in the queue, so a panic, which drops
both, ends exactly the calls that are still pending (`Abandon`). `PreparedInv`:
what is about to be published is what the command makes of the writer's state as
it still is, so the swap is the abstract commit.

`IndexedStoreProofs` and `StoreViewProofs` prove `TypeOK`, `IndexesAgree`,
`StoredOnce`, `OverlayBounded`, `QueryExact` and `ImplementsSet` for any rows,
keys, hashes (colliding or not), filters, batches, loaded checkpoints and
thresholds. A `Segment` has in each posting list exactly the slots of its key,
in order, and, once its identity index is built, in each bucket (primary slot
and collisions) exactly the live slots of the hash, once each; insertion,
deletion with its two ways to close the gap in a bucket, loading and rebuilding
keep that, and finding and scanning are exact on it. `StoreInv` says of the view
that the overlay's segment shares no live row with the checkpoint, that only
live checkpoint rows are tombstoned, and that overlay rows and tombstones are at
most the mutation count; and of a batch at work that it was admitted on this
very view and that its private copies are what its first mutations make of it
(`Done`). The last is why a batch that goes through takes effect at once and
one that fails on a later mutation leaves nothing: each of its rows occurs once,
so a location found in the copies is the one in the view. The refinement has the
hypothesis `WidePreconditions`, that the limits of precondition filters are at
least what they can match. It cannot be dropped: without it a precondition is
decided on fewer rows than are live, which is what `store_must_not_match` shows.
`QueryExact` needs the limit to fit only the matches there are in each segment.
A checkpoint that claims its rows are distinct is assumed to be so
(`CheckpointsDistinct`), as one the engine built is; one loaded on trust is not.

`SnapshotFilesProofs` proves `TypeOK` and `SavesAreAtomic` for any savers,
processes, snapshots, options, inodes and foreign files. `SavesAreAtomic` speaks
of the path only, so `FilesInv` follows the inodes: each has at most one name;
one that is being written has the name it was created under or was renamed to the
path by a save that shares that name; it is `torn` if two savers write it, if it
is written in place, or if it is at the path; otherwise it holds exactly what its
saver has written so far and is what the saver's temporary name leads to, if that
leads to a file that is not torn. A rename then moves either a torn file or the
saver's own complete one. For loads, `LoadsInv` says that a loader whose file
nobody wrote has read a prefix of what it opened. With the digest check this gives
`LoadsAreWhole` without hypotheses.

`FullLoadsAreExact` proves `FullLoadExact` for any symbols, any `ByteBase` and any
foreign files: full validation is enough to trust a store whoever wrote it. The
lemma behind it, `FullIsConsistent`, takes a file that full validation accepts and
a filter of its profile. Symbols are distinct, so a name has one id and rows have
distinct names. The index of the filter has at most one entry for a key: keys are
sorted, within the single entries and within the lists, and the two do not meet.
Every row that is listed has the key, so nothing else is found; and the coverage
bits say that each row is listed once for each bit it should have, which with the
matching key puts it into the entry of the filter. Nothing is assumed of a foreign
file beyond what parsing gives (`Raw`: strings for symbols and unsigned counts).
For saved files this has to be shown of `Encode` (`SavedIsRaw`). It needs the order
that `InOrder` puts a finite set into, which it finds by counting the smaller
elements: `OrderedSet` proves that counting numbers the set without a gap. The
invariant `ForeignKnown` says that what a loader holds is a saved content or the
foreign file of the behaviour.

`LoadedWasSaved` and `SavedLoads` also need that the format keeps its promise
(`FormatReadsBack`): `Decodes` accepts what `Encode` wrote, with either validation,
and the loaded store has the revision and relationships that were saved and answers
every query of its profile as they do. `SavesReadBack` proves it for any
relationships, symbol hashes, `ByteBase` and profile, so the two theorems have no
hypothesis. The argument follows the file from the bytes up:

- `RecursionDefines` and `RecursionUnique` unfold a recursive function over `0..n`;
  from them come the sums (`SumsAre`), the powers (`PowerIs`) and what `FlattenSeq`
  puts where (`FlatIs`).
- Digits: what `Digits` writes `ValueOf` reads (`DigitsRead`), if the value fits the
  width; `WidthFor` gives a width that fits, and a delta ends with the first digit
  without its continuation bit, so a posting list is read back (`OverflowRead`).
  The bound is where `SnapshotConstants` is used: a snapshot that is not refused as
  too large numbers its rows and symbols in four bytes.
- Symbols and rows (`SymbolsAccepted`, `RowsAccepted`): names are interned once, so
  ids and names determine each other; the lookup section is sorted by hash and id.
- Layout: `HoldsAt` says that a sequence stands at a place in another. The seven
  groups, their lists and the lists' deltas lie end to end (`PartsPlaced`), which
  gives each directory entry its place (`EntriesPlaced`), covers the sections without
  a gap or an overlap (`SpansCover`, `LayoutAccepted`), and lets `Singles` and
  `Multis` read the entries that `Group` wrote (`SinglesRead`, `MultisRead`).
- Index: the entries read back are the keys of the rows with their rows
  (`OwnEntries`), which passes the checks of both validations
  (`TrustedAccepted`, `IndexAccepted`) and the count of overflowing row ids
  (`OverflowCounted`).
- Answers: `FullIsConsistent` gives them for a full load. A trusted load looks names
  up through the sorted ids of the file and not a map; since the ids are a
  permutation, it finds the same id (`SameAnswers`).

`EvalProofs` proves `TypeOK`, `CyclesNeedNoDepth`, `CheckExact` and
`MemoExactWithoutCycles` for any finite schema, rows, order of rows, subject,
roots, depth, fanout limit and memo capacity: a check that answers answers right.
"Right" is relative to the well-founded meaning, which leaves goals undecided
where a cycle passes through an exclusion: what is allowed is possible, what is
denied is not sure, and where nothing is undecided both are exact.

The difficulty is that a nested answer is not right by itself: it was computed
with the keys of the stack taken for empty. The invariant `RightInv` therefore
says of every answer, and of every operand that a frame has left behind, that it
is right in the meaning with the keys that were then active switched off
(`Sure(snap, u, off)` and `Possible(snap, u, off)` with `off` the keys that a nested
check would find active: not a root without a store key, which it enters again).
At the root nothing is active, so the answer is right outright. Three facts
about the meaning carry the steps:

- `EnterSure` and `EnterPossible`: whether a key holds with `off` switched off is
  what its rewrite gives with `off` and the key itself switched off. This is why
  cutting a cycle as denied is right at the check that started it, and it is the
  lemma that fails for a memo that is read elsewhere: an answer that was cached
  with some keys off is read with others.
- `AllGoOn` and `OneEnds`: the operands that were evaluated and gave the answer
  to go on with, or the one that ended the call, decide the goal, in whatever
  order they were evaluated and with negated operands read in the other set.
- `CutRight` and `DerivedOff`: without a cut cycle no answer depended on a key
  that was off, so cached answers are right with nothing off
  (`MemoRightWithoutCycles`).

`StackInv` is the other half: frames are linked by operands, each key is on the
stack once in each form, and the depth that is left is the limit less the number of
`Whole` frames. All nested keys of a snapshot have one form each, so at most its keys,
and once more a root without a store key, are on the stack (`MostActive`): with more
levels than that the depth cannot be used up.

These facts are about least fixed points over finite sets, and need induction.
The library's induction rules take an operator as a parameter and cannot be used
by the installed provers; `Induction` derives the rule for sets of numbers from
`NatLessThanWellFounded` and `WFMin`, which take none, and a recursive function
unfolds by its domain. `LfpIsLeast` uses it to show that the bounded iteration of
`Lfp` reaches a fixed point and that it is least.

The assumptions on constants are named `ASSUME`s which TLC evaluates on each
instance. `SnapshotConstants` says that revisions start at 1, so that no temporary
name is the path; that a published snapshot has each of its relationships once,
with a name of its domain in each field; that one which `save` does not refuse as
too large has fewer rows and symbols than `u32` can number (`Limit`); and that save
options name one of the three profiles.

`TenantShards!TypeOK` and `ActiveChecks!TypeOK` follow from the invariants above
(the second is not asked of its run again).

Only model-checked: the liveness properties (`QueuedWritesReturn`,
`DropTerminates`, `CallsReturn`), since fairness is out of the
prover's reach; and everything about `Lookup`, and `StepsAgree`, whose recursive
operators are too.

## Not modelled

Parsing, printing and validated name types (conversions of text without state);
policy export and file I/O; the HTTP server, command-line tools and bindings in
the other directories of the repository; benchmark counters; version 2
snapshot files, the section directory of a file with its offsets and overlaps
(a mistake there changes the section that is read, which the foreign files do),
the round trip of the schema through its text; the
batches of a segment used by itself and its compaction (the engine only touches
single rows of a new segment this way, when it revalidates); the legacy
`TupleStore`, which the engine does not use.

## Plan

1. `EngineOps`, `Engine`, `LinearStore` and proofs, the refinement included: done.
2. `IndexedStore`, `StoreView`, `RelationSet` and proofs: done.
3. `TenantShards`, `ActiveChecks` and proofs: done.
4. `Semantics`, `CheckRules`, `Eval` and proofs: done. `Evaluator`, `Planner`,
   `Lookup`: modelled and checked.
5. `SnapshotFormat`, `SnapshotFiles` and proofs, the round trip of the format
   included: done.
6. `SchemaCompile`: relation ids, resolution, and the schema hash against the
   schemas it should tell apart.
7. The batches a segment applies by itself and its compaction.
