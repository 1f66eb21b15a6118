# Verification project for mainrag

mainrag indexes the content of many sources (directories, repositories, web
pages) for retrieval. This directory holds TLA+ models of the parts of it whose
correctness is a matter of order and concurrency, the TLC configurations that
check them, and TLAPS proofs of the properties that matter most. Every
definition is translated from the source; `PROJECT.json` ("map") names the lines.

    tlc -workers 4 -config store_api.cfg MCGenerationStore
    tlapm PackProofs.tla

Paths below are relative to `src/`.

## 1. The system

### Core: storage v2

**Generation catalogue** (`migrations/029`, `032`, `035`-`038`, `064`, `065`).
PostgreSQL tables written by `SECURITY DEFINER` functions; generations, pointers,
evidence, runs and receipts by nothing else.
State: per source a counter of generations, an active pointer and generations
with a status (`building`, `sealed`, `verified`, `release_candidate`, `active`,
`superseded`); per generation an ingest run (`building`, `sealed`, `cancelled`,
`abandoned`) with its predecessor, the pointer at its allocation and its staged
items; per source *membership intervals* `[valid_from_seq, valid_to_seq)`: a
generation is not a copy but the rows whose interval contains its number;
qualification evidence, activation receipts and a chain of pointer-set receipts.
Operations: allocate, seal, close or insert a membership row (each also on its own), begin, stage, commit (which writes only the difference to
the rows now open), verify, mark, requalify, qualify, replace, activate one
source, activate a reviewed set, activate an ordinary ingest, clean up.
Hard: a commit revises rows that other, already sealed generations show;
answers are idempotent under a key; pointers of many sources move together.
Correct means: what a generation shows is fixed once it and its predecessors are
complete; pointer and status column agree; readers are admitted to ingested
generations only; reuse never hands out something that does not fit.

**Ingest protocol** (`api/src/db/build_checkpoint.rs`,
`api/src/services/{shadow_slice,active_ingest,generation_ingest,ingest_observation}.rs`,
`api/src/api/handlers/admin.rs`, `ops/storage-v2/activation-set.py`).
The writers that call the catalogue: a *session* holds an advisory lock on its
source through many transactions, so a crash leaves a durable, half-staged run
that a later session resumes; an ordinary ingest of an active source builds
under that lock, looks at the disk again in a last transaction without it and then
moves the pointer there; a fixture
slice is one transaction that reads before it waits for the lock; cleanup takes
no lock; an operator applies an activation set some time after checking it.
State: the sessions, the operator's plan, and the disk, which changes at will.
Correct means: no source is taken back to content older than what is published; a
generation shows what its own run staged; readers' active set stays complete; stable content is
published in the end.

**Pack store** (`migrations/030`, `055`, `056`, `136`,
`api/src/db/content_body.rs`, `api/src/services/pack_maintenance.rs`,
`api/src/services/content_store`, `ops/storage-v2/native-gc.py`).
Bodies of files live in pack files; the catalogue says which pack holds which
body. A reader registers an *epoch*, looks the place up and then reads the file;
builds write new packs; maintenance rewrites a pack without its dead bodies,
retires the old one, waits for the epochs that may still read it, removes the
file and writes a receipt. The database is transactional, the files are not, so
every boundary between them is a place to crash. Below, in
`content_store.rs` and `content_store/build_recovery.rs`, a pack is a candidate in
the directory of its build, synced, linked under its final name and made durable by
a sync of the root; abandoned builds are cleaned up under an exclusive lease. Correct
means: what the catalogue records survives a power failure, what was reported as
removed stays away, nobody loses a file while reading, a committed placement has its bytes, a receipt is true, and
a retired pack does go away.

**Append frontiers** (`tools/managed_append.py`, `api/src/plugins/managed_append.rs`,
`migrations/063`, `065`, branches of `shadow_slice.rs` and `active_ingest.rs`).
A producer appends immutable segments to a root and publishes them by replacing a
manifest; a build reads only what follows the prefix a *frontier* row says was
verified, copies the items of the earlier run and, every so often, compares all
bytes. State: one frontier per source and adapter profile; the root; what each
session took from the frontier when it began. Correct means: the frontier is the
newest verified run of its profile, generations extend one another, an edit of
old bytes is found in time, and what was appended gets published.

How they interact: the ingest protocol calls the catalogue's functions and, in
the same transactions, moves frontiers, adds packs and rows of the content graph;
readers start from the active pointers of the catalogue and end at pack files;
garbage collection starts from the pointers too and empties packs.

### The legacy index

**Index service and outbox worker** (`api/src/services/{index,outbox_worker,qdrant}.rs`,
the backfill of `admin.rs`, `indexing_outbox` and its claim in `schema.sql`). A
sync compares the hash of a file with its row, deletes and inserts its chunks,
computes vectors and stores them with outbox entries; a worker carries the
entries to a vector index that knows no transactions; a purge removes old
entries. Every file is several transactions, large conversations are streamed,
and an error, a timeout or a crash may end the work between any two of them.
Correct means: no point outlives its chunk unnoticed, no vector is forgotten, the
chunks of a file are those of its text.

**Chunking** (`api/src/services/chunker/*.rs`, `index/chunk_limits.rs`). Pure
functions from a text to chunks with lines, levels and parents: windows of tokens
or characters, units of a syntax tree and the gaps between them, messages of a
conversation. Hard: nesting, splitting, the edges of windows.

**Search service** (`api/src/services/{search,circuit_breaker,gpu_semaphore}.rs`).
A hybrid search asks three circuit breakers which services to use, waits for the
permits of three semaphores, though not before each of its calls, records what its calls returned and reports the mode
it was answered in; its client may go away at any await. The breakers are two
atomics written under a lock and read without it. Correct means: no permit is
lost, the atomics agree, the reported mode is true, nothing is refused without a
reason, and a breaker closes again once its service works.

### Around these

| part | state | operations | why it is not modelled |
|---|---|---|---|
| content graph (`db/content_graph.rs`) | rows keyed by digest | insert once | a staged file stands for its graph |
| analysis cache (`services/analysis_cache.rs`) | none | encode, group | a lossless encoding, pure |
| WAL budget (`db/local_wal_budget.rs`) | none across calls | wait between two thresholds | one sequential polling loop, tested with a scripted probe |
| lexical segments (`migrations/068` and later) | posting lists | build, query | layout and query plans |
| retrieval, intelligence | none | read | ranking and formatting |
| embedding and rerank clients | none | call | their outcomes are those of the searches' calls |
| rate limits, tokens (`ratelimit.rs`, `auth`) | token buckets | admit | library code |
| watchers (`services/watch.rs`) | debounced events | - | nothing constructs them |
| plugins | none | read sources | input and output |
| API, MCP, CLI, configuration | none | route | - |
| operator scripts, retirement of the old runtime | an installation | one-off migrations | run once, by one operator |

`PROJECT.json` lists every part with its status and the hazards with their lines.

## 2. The modules

| module | what it is |
|---|---|
| `GenerationStore` | the catalogue: one action per SQL function, one function = one transaction |
| `IngestProtocol` | EXTENDS the catalogue with the writers, the disk and the operator |
| `IngestHistory` | EXTENDS the ingest protocol with a history of the disk (observation only) |
| `SnapshotCatalog` | abstract: a history of immutable numbered snapshots and a pointer per source |
| `PackStore` | pack catalogue, pack files, readers, builds, collection and maintenance |
| `PackFiles` | the files of the packs: builds, links, syncs, cleanup, removal, power failures |
| `PackDirectory` | abstract: a directory whose files come and go as wholes |
| `ManagedAppend` | EXTENDS the ingest protocol with the root, the frontier and delta builds |
| `VectorOutbox` | chunks, vectors, outbox entries, the vector index, workers and the purge |
| `LegacyIndex` | EXTENDS the outbox with the syncs of a source, the backfill and the end of the process |
| `Chunking` | the functions that cut texts, and what is required of them |
| `CircuitBreaker` | one breaker's two atomics and its lock |
| `SearchService` | EXTENDS the breakers with concurrent searches and their permits |
| `GenerationStoreProofs`, `IngestProtocolProofs`, `ManagedAppendProofs` | theorems about the catalogue, its writers and append sources, each on top of the one before |
| `PackProofs` | theorems about the pack store and its files |
| `LegacyIndexProofs`, `LegacyContentProofs` | theorems about the legacy index and its outbox, and about the lines it holds |
| `ChunkingProofs` | theorems about windows, conversations and syntax trees of any size |
| `SearchServiceProofs` | theorems about searches, breakers and permits |
| `MCGenerationStore`, `MCIngestProtocol`, `MCIngestHistory`, `MCPackStore`, `MCPacks`, `MCManagedAppend`, `MCLegacyIndex`, `MCIndexing`, `MCSearchService` | finite instances for TLC |

A definition called a *mutant* in its comment is not part of the model: it is a
plausible wrong version of the definition that follows it, kept to show that the
property listed with it can fail.

### GenerationStore

`nextSeq`, `pointer`, `status`, `run`, `members`, `evidence` are
`logical_source.next_generation_seq`, `.active_generation_id`,
`source_generation.status`, `storage_v2_ingest_run` with its staged items,
`generation_item_version` and `storage_v2_release_candidate_evidence`.
`activation` combines the newest candidate-set activation and the newest
pointer-set receipt; `receipted` are the generations an ordinary-ingest receipt
names. A generation is its source and number. A file is one state of one item,
a version a file under an adapter profile, a manifest digest the set of files it
was computed from, a build identity the profile, commit and lexical input.
Several migrations redefine functions; the last definition counts: allocate,
seal, verify, mark, requalify and activate 029, stage, commit and cancel 032,
cleanup 035, qualify 036, replace 037, begin 038, activate a set 064, require a
complete set and activate an ordinary ingest 065.

`Delta` is the pair of statements of `commit_shadow_ingest`: it closes the open
rows whose version is not staged and opens one for every staged item without an
open row. `IntervalsValid` is the row CHECK and the EXCLUDE constraint, which
make a commit fail that would overlap.

`StoreNext` has two parts. `WriterStep` is what the server and the operator's
scripts call. `DirectStep` is what any caller with the right to write to a source may
do besides, and what the schema tests do (`eval/storage_v2/schema`): allocate a
generation without a run, seal it without a commit, open a membership row at a
building generation (`OpenMembership`: INSERT is not revoked on this table, and the
trigger of 029:353 is the guard) or close one there, and begin with `p_force`. Rows of
runs, evidence and receipts are inserted by their functions only (032:692, 036:189,
065:253 revoke the rest; the schema tests insert evidence as superuser, which is no
action here). Under `StoreNext` a generation may be sealed, and even active, without
a run, and a row may begin or end at a generation that is still building. That runs
and generations agree and that boundaries are sealed holds of the writers' calls,
`WriterStep`, and serves as a lemma there (`SealedRunBehindEveryGeneration`,
`BoundariesAreSealed` in `GenerationStoreProofs`).

Simplifications: gate results and dual-read artifacts of a qualification are
taken as passing; the actors' rights as present (every call is by a caller who
may make it); `begin_shadow_ingest` is one action for a new allocation, its other
answers are `KeyedRuns` and `Reusable`, which callers consult.

### IngestProtocol

A session record holds what the Rust code carries in local variables between
transactions: predecessor, observed pointer, manifest, run. An action is a
transaction, or the part of one after the last value it may have read stale:

- opening a session, observing the source, `begin_shadow_ingest` and the
  checkpoint of the content store are one transaction: `BeginFresh`, `ResumeRun`;
- `CheckpointItem` is the durable checkpoint of one item. The code commits groups
  of up to 128 items, 32 MB or 30 s; one at a time is finer;
- `SealBuild` is final observation, commit, verification and the last COMMIT;
- `ObserveAgain` and `CommitActive` are the second transaction of an ordinary
  ingest, without the lock. The first ends with the last look at the disk
  (`active_ingest.rs:339-352`), the second is the SQL call that moves the pointer
  and its COMMIT (358-374, `admin.rs:1071`). Between them anything may happen, to the
  disk too: what is published need not be on disk at that moment, and the model does
  not say so. Call and COMMIT are one action, because the rows the call writes stay
  locked until then and nothing else of the state is read in between;
- the looks at the disk in `BeginFresh`, `ResumeRun` and `SealBuild` are merged with
  the rest of their transaction. The disk may change to anything in any step, so a
  transaction that goes on with stale content is one that ran before the change;
  where the age of content is told (`IngestHistory`) the content a session holds counts
  from the first of these looks;
- `ObserveFixture` and `SealFixture` split a fixture slice at the wait for the
  source lock: read committed, so the predecessor read earlier may be stale;
- `PlanSet` is the operator's last live check, `ApplyPlan` the SQL call later. This is
  the script's mode with the API running, in which the pointers are read before the
  watermarks and both are checked again; its mode with the API stopped
  (`activation-set.py:381-447`, which takes watermarks from before the stop) is left out;
- `Abort` is every error, cancellation or crash of a session. PostgreSQL rolls the
  transaction in flight back, which here means that nothing of it ever happened;
- `ChangeDisk` changes what an adapter would observe, at any time.

Coarser or broader than the code, knowingly: release-candidate and ordinary
sessions are both always possible (in an installation, configuration selects);
the operator's rule that exactly one test source is registered is not required;
`require_legacy_bootstrap`, the classification hash of `admin_update_source`,
frontier publication and the cut of the file system are left out, so the model
has more behaviours than the code, and the safety results carry over.
`cancel_shadow_ingest` is called by no Rust code and occurs in `GenerationStore`
only.

`IngestHistory` adds `seen`, the contents each disk has had since the pointer of its
source was last set. It is no state of the program and restricts nothing.

### SnapshotCatalog and the refinement

`IngestProtocol` implements `SnapshotCatalog` with `history` mapped to
`Snapshots`, what the intervals show at each sealed number, and `current` to the
pointer. Appending
above all earlier numbers and never altering an entry is what the SQL functions
alone do *not* guarantee (section 3) and the lock and the key of the writers do.

### PackStore

`status`, `entries`, `place`, `retirement`, `receipts`, `openEpochs` are
`content_pack.status`, `content_pack_entry`, `content_body.pack_id`,
`content_pack_retirement`, `storage_v2_pack_removal_receipt` and the unfinished
rows of `content_reader_epoch`. `file` is the directory. Epochs are numbered in
the order of `started_at`, so `switched_at` is the last number begun (`before`).

`client` is a database session. `BeginEpoch` takes the placement fence (a shared
advisory lock that lives as long as the transaction) and so waits for a switch
in progress; `CommitRegistration` ends the transaction: the epoch is now durable
and the fence free. A client whose registration is part of its only transaction,
as in all the Rust readers and builds, simply never takes that step before it is
done. `Cancel` rolls an open transaction back, and leaves a durable epoch behind:
`with_reader_epoch` says so and means it.

`job` is the one maintenance call that holds the lock file of the pack root.
`repack` is `StartRepack` (its checks), `WriteReplacement` (build and publish the
file, or adopt the one an interrupted attempt left, if it verifies), `Switch`
(the exclusive fence, which waits for every transaction with a registration) and
`CommitSwitch`; `finish` is `Reclaim` (its first transaction), `Unlink` and
`RecordRemoval`; `AbortJob` stops either anywhere. `Sweep` is the transaction of
`native-gc.py`, which runs only while no other session is in a transaction and no
epoch is open.

Left out: inline bodies; codecs and byte layout (a file is the set of bodies that
verify in it); admission budgets; `candidate` and `verified` packs, which never
become visible because their callers' transactions contain the publication;
`abandon_pack`, which nothing calls; repeated calls that change nothing; the
condition that no run is building (a broader `Sweep`), and which rows it may
reach (any set).

### PackFiles and PackDirectory

`PackStore` takes a file as there or not there. `PackFiles` shows why it may, one
level below. A build's nonce names its directory and the file (inode) it writes;
`dir` is the directory, `name` the link under `<pack>.pack`, `content` what the file
holds. Each of these has a companion that says what a power failure may leave:
`nameMay` and `dirMay` collect every value a name had since its directory was last
synced, `stored` is what `sync_all` of the file has made certain. `LosePower` ends all
processes and chooses among these. The model assumes of the file system what POSIX
does: a directory entry is old or new, in any order, until its directory is synced;
the bytes of a file are uncertain until the file is.

`StartBuild`, `Seal`, `LinkFinal`, `SyncRoot`, `RemoveCandidate` are `PackBuilder::new`
to `SealedPack::publish`, call by call; `Adopt` is the branch of `repack` for a file
that an interrupted attempt left; `Record` is the transaction with
`storage_v2_publish_pack`, after the file was read back. `FailBuild` is the Drop of
both types, `KillBuild` a process that ends without it. `StartCleanup`, `RemoveBuild`,
`SyncBuilds` are `cleanup_incomplete_build`; the lease is the file lock that builders
hold shared and cleanup exclusively. `PermitRemoval` to `AccountRemoval` is `finish`
again, with its sync as a step of its own.

`PackDirectory` is what is left of this for everybody else: files appear and vanish as
wholes, a recorded one does neither, one that was accounted for does not return. The
refinement maps `file` to what the final names lead to. Left out: the names
within a build's directory (they go together), verified bodies that outlive their
build (`VerifiedBody` holds the lease as well), and the first creation of the root.

### ManagedAppend

The ingest protocol for sources of type `managed_append`: a file is a segment, a
manifest the set of segments it lists. Each action is the one of `IngestProtocol`
conjoined with what a managed source adds in the same transaction: `BeginAppend`
stages the copied prefix (`storage_v2_copy_managed_append_prefix`), `SealAppend`
reads the root again (`Readable`) and moves the frontier (`Publish`),
`ObserveAppend` requires that the root can still be read and that the frontier is bound
to the generation, `CommitAppend` moves the pointer in a later step.
`frontier` is `storage_v2_managed_append_frontier`; `basis` are the locals
`trusted_prefix`, `managed_full_comparison` and the prior generation of a
session; the hash chain over a manifest stands for the manifest, so comparing
chains is comparing sets. `Append` is the producer; `Replace` and `Damage` are
edits outside of its contract, which the reader has to notice. `unnoticed` counts
generations sealed over damaged bytes and is no state of the program.

Observed while modelling: `MANAGED_APPEND.md` promises a full comparison after 32
delta runs, the code makes one every 32nd run, after 31. The path that publishes a
frontier for a reused run (`shadow_slice.rs:1829-1857`) is only reachable for runs
older than migration 063 and is left out. Once the frontier's generation is superseded, every later
build of that profile fails with "prior frontier drift", and while it is a release
candidate every ordinary ingest is refused; `AppendedContentIsPublished` is
therefore stated for sources that are not blocked in these ways (`Unblocked`).

### VectorOutbox and LegacyIndex

`chunks`, `embedded`, `outbox`, `rows` are `chunks`, `chunk_embeddings`,
`indexing_outbox` and `files`; `points` is the vector index. An entry is named by
the statement that inserted it and its chunk. A worker's batch is three steps
after its claim (`Poll`, with the reaper before it): the upserts, the deletions, the
settlement; a request may fail although it was carried out, and each status
update may be lost. Ages are not told apart: what may be reaped or purged is any
subset of what the status allows. A sync is one record with its position; each
of its transactions or statements is an action: the row with the new hash
(`RecordFile`), the deletion of the old chunks (`ReplaceChunks`), the insertion
(`InsertChunks`), vectors with entries (`StoreVectors`), and for streamed files
`HashStream` to `EndStream`. `AbandonFile` is an error or the timeout per file,
`Crash` the end of the process. `misindexed`, `unqueued` and `gaveUp` record what
the code is known to leave behind, so that the properties can except exactly that.
The comparison that spares an unchanged file (`HasLines`, `index.rs:1095-1121`) pairs
the chunks of a file in their order with those of the text and does not look at the
line a chunk starts on: after an append that stopped halfway it may find the file
unchanged although a chunk stands at a line beyond its end. The file then stays in
`misindexed`. So does one whose stored content is empty because it was too large, from
an append that had nothing to compare (`ComparesNothing`, finding 4) until the file is
indexed anew.

`DeleteOrphan` reads the chunks (`index.rs:441-443`) and deletes them with the row
(447-466) in one action, although the read precedes the transaction: only another sync
of the source could insert chunks in between.

Left out: the deletion of a whole source, whose points go by a filter and are
remembered by no entry; two syncs of one source at a time; symbol analysis; the
sync ledger. The specification has any number of workers; a process starts one, and
so does the run. A file's chunks are its lines here: how they are really cut is
`Chunking`.

### Chunking

A text is a sequence of characters, words of one character are tokens, a span is
a pair of positions. `SemanticChunks` is `SemanticChunker::chunk`: `Units` are the
nodes `extract_units_recursive` finds, `AddUnit` appends the chunks of a unit,
`AddGap` and `GapChunks` are the gap collector, and without units the whole text
is cut by `TokenChunker::default()`. `JsonlChunker::chunk` has two branches.
`GeminiChunks` is the first (`jsonl.rs:320-491`): a text that is one JSON document with an
array of messages; an entry's line is where it starts, a chunk ends before the next
one begins, and the last line of the text is estimated from its length.
`ConversationChunks`, the second, applies `AddLine` to one line after the other; the
first groups the entries of its array the same way. Kinds of nodes are reduced to what
`classify_node` makes of them: containers, functions, declarations that count at
the top level, others. Nodes of equal extent are one and none is empty
(`InputsAssumption`): an empty node would be a unit without text. What a loop of the code
accumulates is a recursive function of the position reached (`UnitChunks`, `Gaps`,
`AllGapChunks`, `TokensInOrder`). `document`, `tree` and `dialogue` are the input:
`FindNode` and `WriteLine` let it grow, so that every document with every tree up to
the bounds is a state, and the properties are invariants over the inputs.

Observed while modelling: a file without units is cut with the default limit of
256 tokens, not with that of its language; the lines of a gap's chunk are those of
the untrimmed gap, so the windows of a gap that begins with empty lines are
numbered too low; sub-chunks of a unit keep byte offsets relative to the unit.

### CircuitBreaker and SearchService

`failures` and `opened` are the two atomics, `lock` the mutex of the writers. The
time since opening is `recent` or `old`. Query expansion is taken as enabled, the
setting under which a search makes all of its calls. A search takes one step per atomic
access: `LoadCount` and `LoadTime` of the mode, `SwapFailures`/`StoreClosed`,
`AddFailure`/`StoreOpened` of what it records. `WaitEmbed`, `WaitQdrant`,
`WaitRerank` take a permit, and each call either succeeds or fails. Under the permit of
the embedding service `Embed` gets the vector of the query, which may come back
empty (`blank`: TEI may answer `[[]]`, and the cache keeps it), and `Expand` asks
Qdrant for synonyms; with an empty vector the code then skips the vectors and keeps its
mode (`search.rs:550-552`). Qdrant refuses to search for an empty vector, which to the
code means that there are no synonyms. `Abandon` is
the dropped future, which returns the permits it holds. `used` is what had a part
in the results, `wasOpen` whether the breaker was open since its count was read;
both are observations. A half-open breaker admits every search, not one probe:
the comments in `circuit_breaker.rs` speak of one probe request, and no code counts
them. What is found and how it is ranked is left out, and so are the calls outside of a
hybrid search, which take no permits (plain semantic search, `search.rs:1304-1310`;
indexing, `index.rs:2130`).

## 3. What is checked

Every run finishes. Deadlock is checked in the runs of the searches; elsewhere it is
not, because the bounds run out and because nothing has to happen when nothing is
requested.

| run | instance | states | shows |
|---|---|---|---|
| `store_api` | 1 source, or 1 test source with 1 generation (constraint `OneSource`), 2 manifests (an update of one item, another item), 2 generations, 1 activation | 493,208 | under every order of the SQL functions and of direct calls: pointer and status agree, readers are admitted to ingested generations, what settled generations show is fixed |
| `ingest_test` | test source, 2 writers, candidate and fixture builds, 3 generations | 420,254 | a sealed generation shows exactly what its run staged, with fixture slices and cleanup |
| `ingest_active` | 1 source, 2 contents, 2 writers, ordinary and candidate builds of two profiles, 3 generations, 2 activations, fair | 68,764 | refinement of `SnapshotCatalog` with a moving pointer; no pointer moves to content older than what it replaces; servable content is published |
| `ingest_pair` | 2 sources, 1 writer, 2 generations each, 1 activation | 99,040 | a complete active set becomes incomplete only by a registration |
| `pack_readers` | 3 packs, 3 bodies, 2 clients, 2 epochs, 2 collections, fair; 2 pack files, 2 builds, power failures | 372,355 | the safety properties of the pack store; a retired pack is removed unless blocked; the files of packs and the refinement of `PackDirectory` |
| `append_frontier` | 1 source, 3 segments in 2 epochs, 1 writer, 3 builds in 2 profiles, 3 generations, full comparison every 2nd build, 1 edit, fair | 74,433 | frontier, extension, detection, publication |
| `index_sync` | 1 file, 3 texts of which 2 are too large to be stored, 1 worker, 2 chunks, 3 entry statements, 1 fault; 3 documents, all trees of up to 3 nodes, all conversations of up to 5 lines or entries | 1,506,966 | no zombie points, no forgotten vectors, the right lines; the functions that cut texts |
| `search_modes` | 2 searches, 3 breakers with threshold 2, 2 permits of Qdrant, 1 of each other service, fair | 651,468 | breakers, permits, modes, recovery |
| `ingest_stuck`, `pack_interrupted`, `index_promise`, `index_append` | small | - | the four findings below |

**Why the bounds are enough to see something.** Three generations are the least
for the interesting interval histories: one that opens a row, one that shares it
and one that closes it. Two manifests with an update of one item and the
appearance of another exercise every case of the delta; where rows are opened and
closed directly as well (`store_api`) two generations suffice, because every row may
begin at either and end at either. A test source differs in the cleanup that it alone
admits, so one is looked at beside the other, and sets of several sources are
left to `ingest_pair` and to the proofs. In `ingest_active` the server ingests with a
later profile than the candidates have: then an ordinary ingest and a candidate may
rebuild the same content, and two contents make three publications that overtake one
another. Candidates are built at one commit there and at
any number in the proofs. Two writers and one lock
give every order of two sessions; a third would have to wait or to fail in the
same places. Three packs are a chain (a pack, its replacement and a replacement
of that) plus, at other times, a build's new pack; three bodies let a rewrite
drop one, keep one and a build add one; two clients are a reader before and one
after a switch, and two builds of the same body. For the frontier, three
generations allow a delta on a delta, a full comparison in between and a release
with another profile; an edit may hit a segment before or after it was trusted.
Three entry statements let a chunk be stored, deleted and stored again for the
same file; with one fault every step may be the one that fails. Two searches and a
threshold of two let one search fail while the other probes, between any two
atomic accesses. Two builds of one pack
file are an interrupted attempt and the one that adopts its file, or a builder and an
abandoned build that is cleaned up. Trees of three nodes contain each case of nesting and adjacency
two at a time. Symmetry is used only in runs without liveness properties, over
values the specifications treat alike.

**The properties.** `SealedShowsItsRun` and `ImplementsSnapshotCatalog` are about
races of whole sessions: a wrong idempotency key, a missing lock, a row closed by
content instead of version, each shows only several transactions later.
`PublishesNothingOlder` relates the move of a pointer to observations of the disk by
sessions and plans that know nothing of each other and overtake one another; it is
what the comparison with the observed pointer buys, and less than that what is
published is on disk, which the code cannot promise. `ServedSetsWereIngested` and
`SettledGenerationsAreFixed` are about any caller of the SQL functions, not only the
server: evidence and receipts are the only way to a reader, and rows can be revised only
at generations that are building. `ActiveSetStaysComplete` is about the chain of receipts that
ordinary ingests of several sources extend. `ReadersKeepTheirFile`,
`PlacedBodiesAreStored`, `ReplacementsStayUntilRemoval` and
`ReceiptsAreTruthful` relate rows, files, sessions and interrupted calls.
`FrontierNamesTheNewest`, `GenerationsExtend` and `DamageIsFoundInTime` relate a
row to the history of runs of several profiles. `PointsHaveRows` and
`VectorsAreAccounted` relate three stores of which one knows no transactions;
`LinesAreIndexed` relates a hash written in one transaction to chunks written in
others, and excepts the files in `misindexed`. `RefusalsAreFounded` and `BreakersAgree` are about the unlocked reads of
the breakers, `AnswersAreTruthful` about every way a search may lose a service; it names its one
exception, a vector that came back empty. `PermitsAreReturned` is about every way a
search may end, and not about who calls a service (see below). `RecordedPacksLast` and
`RemovalsLast` hold at every moment of what a power failure *would* leave, so they
see a missing sync before any failure does; `ImplementsPackDirectory` sees the failure.
`TextIsCovered`, `ChunksKeepTheirPlace`, `ConversationsAreTiled` and `GeminiIsKeptWhole`
hold of the chunks of every input that is reached. `TextIsCovered` is
about what `SemanticChunker::chunk` answers with and no more: the limit per file
(`chunk_limits.rs:36`) drops chunks afterwards, a container's chunk repeats its methods
and windows overlap. `ConversationsAreTiled` is about JSONL; the lines of a Gemini
conversation are not divided, since several messages may start on one line and the last
line is an estimate, so `GeminiIsKeptWhole` says what is left: no message is lost, doubled
or out of order, and none starts before the line its chunk does.

Two runs hold two specifications that share no state: `index_sync` (the legacy index
and the functions that cut texts) and `pack_readers` (the pack store and its files). In
their MC modules a behaviour moves only one of the two, so each is explored and their
product is not.

**Fairness.** `IngestProtocol!Fairness`: the sync routes are called again while a
source differs from its active generation (strong fairness of the ordinary
session's start), a session not interrupted runs on, interruptions do not for
ever fall between the same two durable points (strong fairness of checkpoint,
seal, last look and commit), and one that cannot go on ends in an error (weak fairness of
`Abort`). Nothing is assumed of the disk, the operator or candidate builds.
`ManagedAppend!AppendFairness` is the same of the actions as they are there.
`PackStore!Fairness`: the removal of some retired pack is retried, interruptions do not for ever fall
into the same step, a maintenance call ends or dies, clients end their epochs or
die. Nothing makes a repack, a collection or a new reader happen.
`VectorOutbox!WorkerFairness`: the worker loop goes on, and an entry left in
processing gets old enough for the reaper. `SearchService!FairSpec`: the timeout of an open
breaker elapses and every search goes on; `BreakersClose` is stated for the case
that from some time on no call fails and no client goes away.

The liveness properties name what may stop them. `ServableContentIsPublished`
requires that the answer of `begin_shadow_ingest` was allocated for the live
pointer (finding 1 is what happens otherwise). `RetiredPacksAreRemoved` allows
two blocks: an abandoned epoch that began before the switch, which the code
wants, and a replacement that is not published any more (finding 2).

### Where code and documentation disagree

1. `ingest_stuck`: `ops/storage-v2/README.md` says that a sync publishes changed
   content. If the newest sealed run has this content but was allocated for an
   earlier pointer (a candidate build sealed it, then a set was activated with
   another candidate), every retry is answered with that run, which no
   longer verifies, and content that stays on disk is never published.
2. `pack_interrupted`: the comment above `retire_empty` says a retry between
   unlink and receipt safely completes. `repack` refuses to rewrite a pack that
   an unfinished removal names as its replacement; `retire_empty` does not, and
   once it has retired the replacement, `finish` fails for ever with "replacement
   requires separate chain recovery".
3. `index_promise`: a comment in `index.rs` says "PostgreSQL commit = Qdrant sync
   will happen". An entry whose request failed once is marked `failed`; the reaper
   looks at `processing` and the claim at `pending` only, so it is never retried,
   whatever its count.
4. `index_append`: a comment in `index.rs` says the old content is verified to be
   a prefix of the new one. For a file too large to be stored the old content is
   empty, and every longer text passes for an append.

Three more statements of the documents do not hold of the code they are about; no run
is made of them, because nothing but the cited lines decides them:

- `docs/storage-v2.md:180-182`: sealing fixes the membership, and later closures must not
  alter what a sealed generation shows. `storage_v2_commit_shadow_ingest` (032:547) does
  not refuse a run that is older than a sealed one, and its delta then opens and closes
  rows that the later generation shows. The server's writers do not do this: the key
  of a run names the newest sealed generation, and under the source's lock no session
  takes up a run that began before that one was sealed (`ImplementsSnapshotCatalog`).
  What the functions alone guarantee is `SettledGenerationsAreFixed`.
- migration 036: only qualification makes a release candidate.
  `storage_v2_mark_release_candidate` of 029 still does, and is an action.
- `gpu_semaphore.rs:6`: at most `QDRANT_CONCURRENCY` requests to Qdrant at a time. The
  search for synonyms (`query_expander.rs:233`) calls Qdrant with a permit of the
  embedding service only, as `Expand` does; plain semantic search and indexing take no
  permit at all and are not modelled. No property here claims the bound.

## 4. What is proved

With TLAPS, for every value of the constants that satisfies the named assumptions
(`SourcesAssumption`, `ManifestsAssumption`, `BuildsAssumption`,
`BoundsAssumption` for the catalogue; for packs `BoundsAssumption`, `NamesAssumption`,
`RecordsAssumption`, which say that the marks for "nothing" are not packs, sets
of bodies or records). The bounds are any naturals, so the results hold for
histories of any length.

`GenerationStoreProofs`: `TypeCorrect`, `PointerAgreement`, `ServedSetsAreIngested`,
`SettledIsFixed`, all of `StoreSpec`, direct calls included.
`PointerNamesTheActive` is not inductive alone: that a promoted generation exists
needs the type invariant, that a fresh number collides with nothing needs
`NumbersAllocated` (whatever is at or above the counter is absent), and runs belong to
generations that exist (`RunsHaveGenerations`); together they are `CatalogInv`.
`ServedInv` adds that evidence is of sealed runs (`EvidenceIsOfIngests`) and that the
newest receipt names generations of sealed runs (`ReceiptsNameIngests`): a complete
set agrees with that receipt, an ordinary ingest extends one that agreed, and a sealed
run stays sealed (`SealedStaysSealed`). `SettledIsFixed` needs no invariant but the
types: rows change only by a commit, an insertion or a closing, each at a building
generation (`RowsChangeAtBuilding`), which lies above every settled one, and rows that
agree up to boundaries above a number show the same to it (`SameBelow`, `ClosedAbove`,
`DeltaKeeps`).

For the proofs about the writers the module goes on with `WriterStep`: `StoreInv` adds
`SealedRunBehindEveryGeneration` to the catalogue's invariant, and `BoundariesAreSealed`
holds on top of it, since the delta of a commit only mentions old boundaries and the
number being sealed (`DeltaBoundaries`). Both are lemmas here and false of
`StoreSpec`.

`IngestProtocolProofs`: `ProtocolTypeCorrect`, `SealedGenerationsShowTheirRuns`,
`NothingOlderIsPublished`, `CompleteSetStaysComplete`,
`ProtocolImplementsSnapshots`, for any number of writers, sources, builds and
activations (`BuildKindsAssumption` in addition). The inductive invariant
`ProtocolInv` is `StoreInv`, the boundaries, `SealedShowsItsRun` itself and what
the writers add: a run stages only files of its manifest and follows its
predecessor (`RunsFollow`), a session at work under the source lock stands *at the
tip*: nothing was sealed in its source since it observed its predecessor
(`AtTheTip`), and at most one session per source does (`OneBuilderPerSource`). The
argument: because of the last two, whatever is sealed is sealed above everything
(`Seals`), and because boundaries are sealed, all rows of the source then begin
and end below the new number. `DeltaShows` concludes that the delta leaves exactly
the staged versions visible there, `DeltaKeeps` that it changes nothing below.
Every other step is `Quiet`: it seals nothing and writes no row. The refinement
follows with the initial states mapped (`CatalogInitMapped`) and each step mapped
to an append, a switch or a stutter (`CatalogStepMapped`).

`NothingOlderIsPublished` is a theorem of `HistorySpec`. Its invariant `HistoryInv` adds to
`ProtocolInv` that whoever observed pointer p and content c has content that is
*fresh* (`Fresh`): if p is still the pointer, c is among what the disk has held since it
was set (`SessionsAreFresh`, `PlanIsFresh`, `DiskIsSeen`). While the pointer stays, what was
seen only grows; and it never comes back to a generation that was published before,
because what a pointer moves to was never active (`PointerTarget`, `FreshKept`; none of
the writers requalifies a superseded generation). An ordinary ingest and a set
activation compare the observed pointer once more, so what they move to is fresh at
that moment (`MovesAreFresh`), and a sealed generation shows its manifest.

`ManagedAppendProofs`: `AppendTypeCorrect`, `FrontierIsExact`,
`GenerationsOnlyExtend`, `CopiedPrefixesAreExact`, `DamageIsBounded`,
`AppendImplementsSnapshots`, for any manifests whose segments
are of one epoch and any interval of full comparisons (`AppendAssumption`). The
inductive invariant `AppendInv` is `ProtocolInv`, whose step lemmas are used again
for the part of each action that is the protocol's, with what the frontier adds:
`FrontierPart` and `WritersAreSound`. `FrontierNamesTheNewest` alone is not inductive:
a delta is sealed with the prefix its session took from the row when it began, so one
has to know that this row is still the same (`BasisHolds`), which is so because the
session stands at the tip and a row moves only with a seal. For the bound on damage,
`UnnoticedIsCounted` relates the observer's count to the program's: every
generation sealed over damage was a delta, and the row of the newest generation has
counted it, whichever profile it is of. `AppendImplementsSnapshots` maps a
copied prefix and the sealing of a delta to the one append of `SnapshotCatalog`.

`PackProofs`, the store: `PackTypeCorrect`, `ReadersAreSafe`, `PlacementsAreSafe`,
`ReplacementsAreKept`, `ReceiptsAreSafe`, from one inductive invariant `PackInv`.
The argument for readers: whoever reads a pack reads a published one that still
holds a body, or a retired one whose drain its own epoch holds up
(`ReadersAreFenced`). At the switch this follows because the exclusive fence is
granted only when every client at work has a durable epoch, no later than the
switch (`SwitchSound`, `JobIsSound`); at a reclamation because a drained pack has
no such epoch (`ReclaimSound`); at the retirement of an empty pack because a
body can leave a pack only by a switch, which retires the pack, or by a
collection, which runs without clients. Epochs of different clients must differ
(`EpochsAreOwned`), or one client's end would release another's pack. A build's
file is known to no row and no other client until it commits (`AddingIsExclusive`);
this is also what makes the state well typed when it commits.

`PackProofs`, the files: `FilesAreTyped`, `RecordedPacksSurvive`, `RemovalsSurvive`,
`LiveBuildsAreSpared`, `FilesImplementDirectory`, for any packs and builds
(`NoneAssumption`: "no file" is not a file). `RecordedPacksLast` is not inductive: that
`Record` makes a durable file a recorded one depends on where the writer stands. The
inductive invariant `FilesInv` adds `DiskIsSound` (what is now may be what a failure
leaves, and a final name, certain or not, only ever belonged to a file that is on the
disk), `WritersAreSound` (a writer's pack is not yet recorded and has no other writer;
what it has linked is there, what it has synced is certain; no cleanup runs beside it),
`CleanupsAreSound` and `RemovalsAreSound` (what was reported is certain). There is one
lemma per action. The refinement needs that what has a final name is whole
(`NamedIsWhole`), of which `DiskIsSound` is the reason, and maps a link to
`Appear`, an unlink to `Vanish`, and a power failure to that of the directory
(`PowerMapped`): of recorded and of accounted packs only one value is possible.

`LegacyIndexProofs`: `IndexTypeCorrect`, `StoredVectorsAreAccounted`,
`PointsAreNotLeftBehind` (`OutboxAssumption`, `TextsAssumption`). `IndexInv` says of
every step of a worker what it knows of its batch when another process has changed
the rows meanwhile (`BatchIsSound`): an entry may be gone but keeps its action, what is
to be deleted belongs to no chunk (`EntriesAreSound`), what was stored is still there.
With it no vector is forgotten, however many workers run. That no point is left behind
(`OneWorkerInv`) needs that what one request has removed does not come back, and that
is so only if nobody else sends an upsert between: the theorem has the
hypothesis that there is at most one worker, which is what a process starts. With two the
property is false: one worker claims an upsert, the chunk is deleted, the other
carries out and settles the deletion, then the first sends its upsert. With one worker the
reaper does no such harm: it runs between two batches of the worker whose entries it
takes back.

`LegacyContentProofs`: `FilesAreIndexedAsRecorded`, on top of `IndexInv`. The inductive
invariant `ContentInv` adds `FilesAreIndexed` (a file without a row has no chunks; one
with a row is misindexed, or at work, or has exactly the lines of the text its hash is
of, none beyond the end) and `WorkIsSound` (the file at work has its new row, and
its chunks are the lines before those to come; a stream still holds exactly the rest).
Most of the module is about counting: `Place`, the number of chunks that stand before
one, survives what is appended behind and what other files do. The theorem is about
any texts and any choice of those too large to be stored. What finding 4 describes is
named in the property: an append to a file whose text was not stored puts the file into
`misindexed`, unless the new text really continues the old one, and indexing it anew
takes it out.

`ChunkingProofs`: `CharacterWindowsAdvance` and `AnyConversationIsTiled`, for every
text, every window and overlap, every sequence of lines of any sizes and every target and
minimum (`ChunkingAssumption`), the latter about JSONL; `AnyGeminiIsKeptWhole` for every
array of entries, any lines they start on that do not decrease and any estimate of
the last line; `EveryWindowAdvances`, `EveryConversationIsTiled` and
`EveryGeminiIsKeptWhole` say it of the specification (`InputsAssumption`). The induction that these need is
`Induction`: a set that holds 0, and with each number below n its successor, holds all of
them; it follows from the least element of a set of naturals (`LeastNumber`). A recursive
function is first shown to exist (`Iteration`, `WindowsExist`, `ReadingExists`), then
whatever satisfies its equation has the property. For windows the induction is
downwards, over the position at which one starts: the next one starts later
(`NextIsFurther`), so that what it begins covers the rest (`WindowBefore`). For
conversations it is over the lines read: `Reading` says that the closed chunks divide the
lines before the open one, that this one holds the messages since, that its size is
that of its messages with the separators between, and that each was closed only
when filled. The entries of a Gemini conversation are grouped by the same
recursion, so its theorem rests on that tiling of the entries and adds the lines.

`AnyTextIsCovered` (of `SemanticChunker::chunk` alone) and `AnyChunksKeepTheirPlace` are about every text and every finite
set of nodes in it of which any two are nested or apart and no two have the same extent
(`IsTree`). `TreesAreSyntax` is the invariant that every tree the specification
builds is one, so `EveryTextIsCovered` and `EveryChunkKeepsItsPlace` hold of it. The
argument has five steps.

- *Windows of tokens.* `TokensInOrder` lists the tokens of a span (`TokensAreListed`),
  and windows over the list leave out none, stay in the span and hold at most as many
  as the limit (`TokenWindowsArePieces`, `TokensBetween`); so do the pieces of a span,
  cut or not (`SpansAreCut`).
- *The units in order.* `UnitsInOrder` is a `CHOOSE`, so that there is such an order has to be
  shown: a finite set of nodes has a last one (`OneIsLast`), which is put behind the
  others (`NodesAreSorted`).
- *The gaps.* `Passing` is the invariant of the gap collector: what is before `start`
  is in a unit or in a gap, no unit passed ends behind `start`, and `start` is the
  beginning or just behind a unit; so a gap has no unit in it and reaches from
  one to the next (`PassingOn`). A word that is left out is then in a gap whose
  words are too close together, and nothing around it can leave this gap without
  crossing a unit (`WhatIsLeftOut`, `AroundIsInGap`).
- *The units' chunks.* `Placing` is the invariant of the loop over the units: the index
  recorded for a unit is that of one of its chunks, every chunk is placed, every piece
  is there. It needs that the container next to a unit is a unit itself and
  comes before it (`ParentIsBefore`), so that its index is already recorded.
- *Both together.* The chunks of gaps lie behind those of units and are no pieces of
  any, because neither is empty (`UnitsThenGaps`, `BetweenHasPlace`); the limit per file
  takes away from the end, so no parent is lost (`KeptAreFirst`).

`SearchServiceProofs`: `TypeCorrect`, `BreakersConsistent`, `TruthfulAnswers`,
`ReturnedPermits`, `FoundedRefusals`, for any threshold, any positive numbers of
permits and any finite set of callers (`PermitsAssumption`, `BreakerAssumption`).
The inductive invariant `SearchInv` has three parts. `SearchIsSound` says what a
search at each position may hold, has used and has still to record, and that one which
claims vectors has searched them, still will, or has an empty vector; truthful
answers follow from it. `BreakerInv` says what the two atomics are while somebody
holds a breaker's lock: it is in the middle of exactly one of the two writes, so
the other pair is complete; and that a search between its two loads has seen the
breaker open, or finds a time that is not recent. `Balanced` counts
permits: the free ones and the searches that hold one add up. It needs a lemma
about cardinalities for each way in which the set of holders changes. An action
property (`FoundedRefusals`) follows from the same invariant.

## 5. What is only model-checked, and what is not modelled

Only model-checked: the liveness properties `ServableContentIsPublished`,
`RetiredPacksAreRemoved`, `BreakersClose` and `AppendedContentIsPublished` (liveness
under fairness and ENABLED are beyond the prover). That
`PointsHaveRows` holds is proved for one worker (section 4). All other invariants and action properties of the passing
runs are proved. No module uses a RECURSIVE operator.

Not modelled: the parts of the last table in section 1, for the reasons there and in
`PROJECT.json`; within the modelled parts, what section 2 lists as left out.

## 6. Plan

Done: the catalogue, its writers and the refinement, packs, append frontiers, the
legacy index with its outbox, chunking, searches with breakers and permits, the
proofs above. What would come next:

1. `PointsHaveRows` with two workers, where it needs a condition on the age of what
   the reaper takes and on how long a request may last.
2. The deletion of a legacy source while the worker holds its entries.
3. Lexical segments, once their writers do more than build them once.
