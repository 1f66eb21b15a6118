--------------------------- MODULE GenerationStore ---------------------------
(***************************************************************************)
(* The PostgreSQL catalogue of storage v2: source generations, membership   *)
(* intervals, ingest runs, release-candidate evidence, active pointers and  *)
(* activation receipts, together with the controlled SQL functions that are *)
(* the only writers of that state (migrations 029, 032, 035-038, 064, 065). *)
(*                                                                          *)
(* Every action below is one SQL function executed as one transaction.  A   *)
(* function that raises an exception rolls back, so its error paths are the *)
(* steps the action's guard excludes.                                       *)
(*                                                                          *)
(* A generation is identified by its source and its source-local sequence   *)
(* number, and an ingest run by its generation (UNIQUE (source_id,          *)
(* generation_id)).  A source manifest (the semantic watermark digest) is   *)
(* the set of files it was computed from.                                   *)
(***************************************************************************)
EXTENDS Naturals, FiniteSets

CONSTANTS
    Sources,        \* registered and registrable sources
    TestSources,    \* those created with is_test = true
    Files,          \* one file is one witnessed state of one source item
    ItemOf,         \* the source item a file is a state of
    Manifests,      \* the file sets a source adapter can observe
    Builds,         \* build identities: adapter profile, implementation commit
                    \* and lexical input
    ProfileOf,      \* the adapter profile of a build
    CommitOf,       \* its implementation commit
    MaxSeq,         \* bound: generations allocated per source
    MaxActivations  \* bound: candidate-set activations

Profiles == {ProfileOf[b] : b \in Builds}

\* A manifest holds at most one state of an item: the layout check of the
\* builder and PRIMARY KEY (run_id, source_item_id).
OneFilePerItem(F) == \A f, g \in F : ItemOf[f] = ItemOf[g] => f = g

ASSUME SourcesAssumption == TestSources \subseteq Sources
ASSUME ManifestsAssumption ==
    \A m \in Manifests : m \subseteq Files /\ OneFilePerItem(m)
ASSUME BuildsAssumption == Builds # {}
ASSUME BoundsAssumption == MaxSeq \in Nat /\ MaxActivations \in Nat

Null == 0             \* SQL NULL for sequences and pointers, which start at 1
Seqs == 1 .. MaxSeq
Versions == Files \X Profiles   \* artifact_version: a file under a profile

Statuses == {"absent", "building", "sealed", "verified",
             "release_candidate", "active", "superseded"}
Phases == {"none", "building", "sealed", "cancelled", "abandoned"}

Runs == [phase : Phases, pred : Seqs \cup {Null}, manifest : SUBSET Files,
         build : Builds, expected : Seqs \cup {Null}, staged : SUBSET Files]

NoRun == [phase |-> "none", pred |-> Null, manifest |-> {},
          build |-> CHOOSE b \in Builds : TRUE, expected |-> Null, staged |-> {}]

Memberships == [version : Versions, from : Seqs, to : Seqs \cup {Null}]

VARIABLES
    registered,  \* rows of sources
    nextSeq,     \* logical_source.next_generation_seq
    pointer,     \* logical_source.active_generation_id
    status,      \* source_generation.status, "absent" before allocation
    run,         \* storage_v2_ingest_run of each generation
    members,     \* generation_item_version rows of each source
    evidence,    \* generations with a release-candidate evidence row
    activation,  \* newest activation row and the newest pointer-set receipt
    receipted    \* generations named by an active-ingest receipt

storeVars == <<registered, nextSeq, pointer, status, run, members, evidence,
               activation, receipted>>

Activations == [number : 0 .. MaxActivations,
                covered : SUBSET Sources,
                head : [Sources -> Seqs \cup {Null}]]

StoreTypeOK ==
    /\ registered \subseteq Sources
    /\ nextSeq \in [Sources -> 1 .. MaxSeq + 1]
    /\ pointer \in [Sources -> Seqs \cup {Null}]
    /\ status \in [Sources -> [Seqs -> Statuses]]
    /\ run \in [Sources -> [Seqs -> Runs]]
    /\ members \in [Sources -> SUBSET Memberships]
    /\ evidence \in [Sources -> SUBSET Seqs]
    /\ activation \in Activations
    /\ receipted \in [Sources -> SUBSET Seqs]

StoreInit ==
    /\ registered = {}
    /\ nextSeq = [s \in Sources |-> 1]
    /\ pointer = [s \in Sources |-> Null]
    /\ status = [s \in Sources |-> [n \in Seqs |-> "absent"]]
    /\ run = [s \in Sources |-> [n \in Seqs |-> NoRun]]
    /\ members = [s \in Sources |-> {}]
    /\ evidence = [s \in Sources |-> {}]
    /\ activation = [number |-> 0, covered |-> {},
                     head |-> [s \in Sources |-> Null]]
    /\ receipted = [s \in Sources |-> {}]

------------------------------------------------------------------------------
(* Source registration: the INSERT of admin_create_source.                  *)

RegisterSource(s) ==
    /\ s \notin registered
    /\ registered' = registered \cup {s}
    /\ UNCHANGED <<nextSeq, pointer, status, run, members, evidence,
                   activation, receipted>>

------------------------------------------------------------------------------
(* Ingest runs.                                                             *)

SealedRuns(s) == {n \in Seqs : run[s][n].phase = "sealed"}

NewestSealed(s) ==
    IF SealedRuns(s) = {} THEN Null
    ELSE CHOOSE n \in SealedRuns(s) : \A k \in SealedRuns(s) : k <= n

\* The idempotency key is a digest of the predecessor generation, the source
\* watermark and the build identity.
KeyedRuns(s, pred, m, b) ==
    {n \in Seqs : /\ run[s][n].phase # "none"
                  /\ run[s][n].pred = pred
                  /\ run[s][n].manifest = m
                  /\ run[s][n].build = b}

\* Equal bytes under an equal profile and commit are a semantic no-op of the
\* newest sealed run.
Reusable(s, m, b) ==
    /\ SealedRuns(s) # {}
    /\ run[s][NewestSealed(s)].manifest = m
    /\ ProfileOf[run[s][NewestSealed(s)].build] = ProfileOf[b]
    /\ CommitOf[run[s][NewestSealed(s)].build] = CommitOf[b]

\* The run begin_shadow_ingest answers with; nextSeq[s] for a new allocation.
BeginAnswer(s, pred, m, b) ==
    IF KeyedRuns(s, pred, m, b) # {}
    THEN CHOOSE n \in KeyedRuns(s, pred, m, b) : TRUE
    ELSE IF Reusable(s, m, b) THEN NewestSealed(s) ELSE nextSeq[s]

NewRun(s, pred, m, b) ==
    [phase |-> "building", pred |-> pred, manifest |-> m, build |-> b,
     expected |-> pointer[s], staged |-> {}]

\* Mutant: the counter is advanced by the sequence it hands out.
AllocatesAdding(s, r) ==
    /\ s \in registered
    /\ nextSeq[s] <= MaxSeq
    /\ nextSeq' = [nextSeq EXCEPT ![s] = @ + @]
    /\ status' = [status EXCEPT ![s][nextSeq[s]] = "building"]
    /\ run' = [run EXCEPT ![s][nextSeq[s]] = r]
    /\ UNCHANGED <<registered, pointer, members, evidence, activation, receipted>>

\* Mutant: the counter is advanced twice.
AllocatesSkipping(s, r) ==
    /\ s \in registered
    /\ nextSeq[s] <= MaxSeq
    /\ nextSeq' = [nextSeq EXCEPT ![s] = @ + 2]
    /\ status' = [status EXCEPT ![s][nextSeq[s]] = "building"]
    /\ run' = [run EXCEPT ![s][nextSeq[s]] = r]
    /\ UNCHANGED <<registered, pointer, members, evidence, activation, receipted>>

\* allocate_generation: the next number of the source becomes a generation, with
\* run r where the caller inserts one.
Allocates(s, r) ==
    /\ s \in registered
    /\ nextSeq[s] <= MaxSeq
    /\ nextSeq' = [nextSeq EXCEPT ![s] = @ + 1]
    /\ status' = [status EXCEPT ![s][nextSeq[s]] = "building"]
    /\ run' = [run EXCEPT ![s][nextSeq[s]] = r]
    /\ UNCHANGED <<registered, pointer, members, evidence, activation, receipted>>

\* begin_shadow_ingest where neither an idempotent nor a reusable run exists:
\* allocate_generation and the INSERT of the run, which records the pointer.
AllocateRun(s, pred, m, b) ==
    /\ KeyedRuns(s, pred, m, b) = {}
    /\ ~Reusable(s, m, b)
    /\ Allocates(s, NewRun(s, pred, m, b))

\* The same with p_force: equal content is built again.
AllocateForcedRun(s, pred, m, b) ==
    /\ KeyedRuns(s, pred, m, b) = {}
    /\ Allocates(s, NewRun(s, pred, m, b))

\* allocate_generation on its own: a generation without a run.
AllocateGeneration(s) == Allocates(s, NoRun)

\* stage_shadow_item: one row per item of a run that is still building.
StageShadowItem(s, n, f) ==
    /\ run[s][n].phase = "building"
    /\ f \in run[s][n].manifest \ run[s][n].staged
    /\ run' = [run EXCEPT ![s][n].staged = @ \cup {f}]
    /\ UNCHANGED <<registered, nextSeq, pointer, status, members, evidence,
                   activation, receipted>>

CancelShadowIngest(s, n) ==
    /\ run[s][n].phase = "building"
    /\ run' = [run EXCEPT ![s][n].phase = "cancelled"]
    /\ UNCHANGED <<registered, nextSeq, pointer, status, members, evidence,
                   activation, receipted>>

\* Only a run of a test source that never became visible is tombstoned; its
\* generation stays "building" with abandoned_at set.
CleanupAbandonedIngest(s, n) ==
    /\ s \in TestSources
    /\ run[s][n].phase \in {"building", "cancelled"}
    /\ status[s][n] = "building"
    /\ pointer[s] # n
    /\ \A m \in members[s] : m.from # n
    /\ run' = [run EXCEPT ![s][n].phase = "abandoned"]
    /\ UNCHANGED <<registered, nextSeq, pointer, status, members, evidence,
                   activation, receipted>>

------------------------------------------------------------------------------
(* Generation membership and sealing.                                       *)

StagedVersions(r) == {<<f, ProfileOf[r.build]>> : f \in r.staged}

\* A generation reads the rows whose half-open interval contains its sequence.
LiveAt(m, n) == m.from <= n /\ (m.to = Null \/ n < m.to)

VisibleRows(M, n) == {m \in M : LiveAt(m, n)}

Visible(s, n) == {m.version : m \in VisibleRows(members[s], n)}

OpenItems(M) == {ItemOf[m.version[1]] : m \in {x \in M : x.to = Null}}

\* Mutant: an open row survives when its content is staged under any profile.
DisplacedByContent(M, V) ==
    {m \in M : m.to = Null /\ m.version[1] \notin {v[1] : v \in V}}

\* The UPDATE of commit_shadow_ingest: every open row of the source whose item
\* and version is not staged is closed at n.
Displaced(M, V) == {m \in M : m.to = Null /\ m.version \notin V}

Closed(M, V, n) ==
    (M \ Displaced(M, V)) \cup {[m EXCEPT !.to = n] : m \in Displaced(M, V)}

\* Its INSERT: a row opens at n for every staged item without an open row.
Opened(M, V, n) ==
    {[version |-> v, from |-> n, to |-> Null] :
        v \in {u \in V : ItemOf[u[1]] \notin OpenItems(M)}}

Delta(M, V, n) == Closed(M, V, n) \cup Opened(Closed(M, V, n), V, n)

\* The row CHECK and the EXCLUDE constraint of generation_item_version.
Overlap(m1, m2) ==
    /\ ItemOf[m1.version[1]] = ItemOf[m2.version[1]]
    /\ m2.to = Null \/ m1.from < m2.to
    /\ m1.to = Null \/ m2.from < m1.to

IntervalsValid(M) ==
    /\ \A m \in M : m.to # Null => m.from < m.to
    /\ \A m1, m2 \in M : Overlap(m1, m2) => m1 = m2

\* What commit_shadow_ingest requires of run r of generation n before sealing.
\* Its caller passes the length of the manifest as p_expected_item_count.
Committable(s, n, r) ==
    /\ r.phase = "building"
    /\ pointer[s] = r.expected
    /\ Cardinality(r.staged) = Cardinality(r.manifest)
    /\ IntervalsValid(Delta(members[s], StagedVersions(r), n))
    /\ Cardinality(VisibleRows(Delta(members[s], StagedVersions(r), n), n))
          = Cardinality(r.staged)

\* Membership delta, seal_generation and the sealed run, as one transaction;
\* final is the state a caller that verifies in the same transaction leaves.
SealInto(s, n, r, final) ==
    /\ Committable(s, n, r)
    /\ members' = [members EXCEPT ![s] = Delta(@, StagedVersions(r), n)]
    /\ status' = [status EXCEPT ![s][n] = final]
    /\ run' = [run EXCEPT ![s][n] = [r EXCEPT !.phase = "sealed"]]

CommitShadowIngest(s, n) ==
    /\ status[s][n] = "building"
    /\ SealInto(s, n, run[s][n], "sealed")
    /\ UNCHANGED <<registered, nextSeq, pointer, evidence, activation, receipted>>

\* seal_generation on its own: the generation leaves "building", its run, if it
\* has one, and the rows stay as they are.
SealGeneration(s, n) ==
    /\ status[s][n] = "building"
    /\ status' = [status EXCEPT ![s][n] = "sealed"]
    /\ UNCHANGED <<registered, nextSeq, pointer, run, members, evidence,
                   activation, receipted>>

\* A row inserted directly, which whoever may write to the source can do: the
\* trigger validate_membership_write demands that it begins at a building
\* generation, the foreign key that it ends at one that exists.
OpenMembership(s, v, n, to) ==
    /\ status[s][n] = "building"
    /\ to # Null => status[s][to] # "absent"
    /\ LET m == [version |-> v, from |-> n, to |-> to]
       IN  /\ m \notin members[s]
           /\ IntervalsValid(members[s] \cup {m})
           /\ members' = [members EXCEPT ![s] = @ \cup {m}]
    /\ UNCHANGED <<registered, nextSeq, pointer, status, run, evidence,
                   activation, receipted>>

\* Mutant: an interval may be closed at any generation.
CloseAnywhere(s, m, n) ==
    /\ m \in members[s] /\ m.to = Null
    /\ m.from < n /\ status[s][n] # "absent"
    /\ members' = [members EXCEPT ![s] = (@ \ {m}) \cup {[m EXCEPT !.to = n]}]
    /\ UNCHANGED <<registered, nextSeq, pointer, status, run, evidence,
                   activation, receipted>>

\* close_membership on its own: an open row ends, once, at a building generation.
CloseMembership(s, m, n) ==
    /\ m \in members[s] /\ m.to = Null
    /\ m.from < n /\ status[s][n] = "building"
    /\ members' = [members EXCEPT ![s] = (@ \ {m}) \cup {[m EXCEPT !.to = n]}]
    /\ UNCHANGED <<registered, nextSeq, pointer, status, run, evidence,
                   activation, receipted>>

VerifyGeneration(s, n) ==
    /\ status[s][n] = "sealed"
    /\ status' = [status EXCEPT ![s][n] = "verified"]
    /\ UNCHANGED <<registered, nextSeq, pointer, run, members, evidence,
                   activation, receipted>>

------------------------------------------------------------------------------
(* Release candidates.                                                      *)

ReleaseCandidates(s) == {n \in Seqs : status[s][n] = "release_candidate"}

\* Partial unique index: at most one release candidate per source.
MarkReleaseCandidate(s, n) ==
    /\ status[s][n] = "verified"
    /\ ReleaseCandidates(s) = {}
    /\ status' = [status EXCEPT ![s][n] = "release_candidate"]
    /\ UNCHANGED <<registered, nextSeq, pointer, run, members, evidence,
                   activation, receipted>>

RequalifyGeneration(s, n) ==
    /\ status[s][n] = "superseded"
    /\ status' = [status EXCEPT ![s][n] = "verified"]
    /\ UNCHANGED <<registered, nextSeq, pointer, run, members, evidence,
                   activation, receipted>>

\* The state checks of qualify_release_candidate; the manifest of gate results
\* and the dual-read artifact come from outside and are taken as passing.
Qualifiable(s, n) ==
    /\ status[s][n] \in {"verified", "release_candidate"}
    /\ run[s][n].phase = "sealed"
    /\ pointer[s] = run[s][n].expected
    /\ Visible(s, n) \subseteq StagedVersions(run[s][n])
    /\ Cardinality(VisibleRows(members[s], n)) = Cardinality(run[s][n].staged)

QualifyReleaseCandidate(s, n) ==
    /\ Qualifiable(s, n)
    /\ ReleaseCandidates(s) \subseteq {n}
    /\ status' = [status EXCEPT ![s][n] = "release_candidate"]
    /\ evidence' = [evidence EXCEPT ![s] = @ \cup {n}]
    /\ UNCHANGED <<registered, nextSeq, pointer, run, members, activation, receipted>>

\* replace_release_candidate demotes the current candidate and qualifies n in
\* the same transaction.
ReplaceReleaseCandidate(s, n) ==
    /\ pointer[s] # n
    /\ pointer[s] \notin ReleaseCandidates(s) \ {n}
    /\ Qualifiable(s, n)
    /\ status' = [status EXCEPT ![s] =
                    [k \in Seqs |-> IF k = n THEN "release_candidate"
                                    ELSE IF k \in ReleaseCandidates(s) THEN "verified"
                                    ELSE @[k]]]
    /\ evidence' = [evidence EXCEPT ![s] = @ \cup {n}]
    /\ UNCHANGED <<registered, nextSeq, pointer, run, members, activation, receipted>>

------------------------------------------------------------------------------
(* Activation.                                                              *)

\* Mutant: the prior generation is not superseded.
PromoteKeepingPrior(column, prior, n) == [column EXCEPT ![n] = "active"]

\* The status column of one source once n replaces prior as its active one.
Promote(column, prior, n) ==
    [k \in Seqs |-> IF k = n THEN "active"
                    ELSE IF k = prior THEN "superseded" ELSE column[k]]

Activatable(s, n, prior) ==
    /\ pointer[s] = prior
    /\ status[s][n] = "release_candidate"
    /\ prior # Null => status[s][prior] = "active"

ActivateGeneration(s, n, prior) ==
    /\ Activatable(s, n, prior)
    /\ status' = [status EXCEPT ![s] = Promote(@, prior, n)]
    /\ pointer' = [pointer EXCEPT ![s] = n]
    /\ UNCHANGED <<registered, nextSeq, run, members, evidence, activation, receipted>>

\* Mutant: nobody asks for the evidence of the targets.
ActivateUnqualifiedSet(target, prior) ==
    /\ registered # {}
    /\ activation.number < MaxActivations
    /\ \A s \in registered : /\ nextSeq[s] > 1
                             /\ Activatable(s, target[s], prior[s])
    /\ status' = [s \in Sources |-> IF s \in registered
                                    THEN Promote(status[s], prior[s], target[s])
                                    ELSE status[s]]
    /\ pointer' = [s \in Sources |-> IF s \in registered THEN target[s] ELSE pointer[s]]
    /\ activation' = [number |-> activation.number + 1, covered |-> registered,
                      head |-> pointer']
    /\ UNCHANGED <<registered, nextSeq, run, members, evidence, receipted>>

\* Mutant: the set replaces whatever is active.
ActivateSetOverAnything(target, prior) ==
    /\ registered # {}
    /\ activation.number < MaxActivations
    /\ \A s \in registered : /\ nextSeq[s] > 1
                             /\ target[s] \in evidence[s]
                             /\ Activatable(s, target[s], pointer[s])
    /\ status' = [s \in Sources |-> IF s \in registered
                                    THEN Promote(status[s], pointer[s], target[s])
                                    ELSE status[s]]
    /\ pointer' = [s \in Sources |-> IF s \in registered THEN target[s] ELSE pointer[s]]
    /\ activation' = [number |-> activation.number + 1, covered |-> registered,
                      head |-> pointer']
    /\ UNCHANGED <<registered, nextSeq, run, members, evidence, receipted>>

\* An entry of the reviewed manifest names the candidate and the pointer it was
\* prepared against; one drifted entry aborts the whole set.
ActivateCandidateSet(target, prior) ==
    /\ registered # {}
    /\ activation.number < MaxActivations
    /\ \A s \in registered : /\ nextSeq[s] > 1
                             /\ target[s] \in evidence[s]
                             /\ Activatable(s, target[s], prior[s])
    /\ status' = [s \in Sources |-> IF s \in registered
                                    THEN Promote(status[s], prior[s], target[s])
                                    ELSE status[s]]
    /\ pointer' = [s \in Sources |-> IF s \in registered THEN target[s] ELSE pointer[s]]
    /\ activation' = [number |-> activation.number + 1, covered |-> registered,
                      head |-> pointer']
    /\ UNCHANGED <<registered, nextSeq, run, members, evidence, receipted>>

\* require_complete_active_set: the manifest names the newest activation, every
\* registered source is covered and active, and the pointers are exactly those
\* of the newest receipt.
CompleteActiveSet(number) ==
    /\ number # 0 /\ activation.number = number
    /\ activation.covered = registered
    /\ \A s \in registered : pointer[s] # Null /\ status[s][pointer[s]] = "active"
    /\ activation.head = pointer

\* Mutant: the receipt does not extend the chain of pointer sets.
ActivateUnchained(s, n, prior, number) ==
    /\ CompleteActiveSet(number)
    /\ s \in registered \ TestSources
    /\ pointer[s] = prior /\ prior # Null
    /\ status[s][prior] = "active" /\ status[s][n] = "verified"
    /\ n > prior
    /\ run[s][n].phase = "sealed" /\ run[s][n].expected = prior
    /\ \A k \in Seqs : k > n => status[s][k] \notin
           {"sealed", "verified", "release_candidate", "active"}
    /\ n \notin receipted[s]
    /\ status' = [status EXCEPT ![s] = Promote(@, prior, n)]
    /\ pointer' = [pointer EXCEPT ![s] = n]
    /\ receipted' = [receipted EXCEPT ![s] = @ \cup {n}]
    /\ UNCHANGED <<registered, nextSeq, run, members, evidence, activation>>

ActivateRegularIngest(s, n, prior, number) ==
    /\ CompleteActiveSet(number)
    /\ s \in registered \ TestSources
    /\ pointer[s] = prior /\ prior # Null
    /\ status[s][prior] = "active" /\ status[s][n] = "verified"
    /\ n > prior
    /\ run[s][n].phase = "sealed" /\ run[s][n].expected = prior
    /\ \A k \in Seqs : k > n => status[s][k] \notin
           {"sealed", "verified", "release_candidate", "active"}
    /\ n \notin receipted[s]
    /\ status' = [status EXCEPT ![s] = Promote(@, prior, n)]
    /\ pointer' = [pointer EXCEPT ![s] = n]
    /\ activation' = [activation EXCEPT !.head = pointer']
    /\ receipted' = [receipted EXCEPT ![s] = @ \cup {n}]
    /\ UNCHANGED <<registered, nextSeq, run, members, evidence>>

------------------------------------------------------------------------------
(* The catalogue under every legal call: any caller with the right to execute *)
(* the functions and to insert membership rows, in any order.  Evidence and   *)
(* receipts are written by their functions only (migrations 036:189, 065:253). *)

RunStep(s) ==
    \/ \E pred \in 0 .. nextSeq[s] - 1, m \in Manifests, b \in Builds :
          AllocateRun(s, pred, m, b)
    \/ \E n \in Seqs : \/ \E f \in Files : StageShadowItem(s, n, f)
                       \/ CommitShadowIngest(s, n)
                       \/ CancelShadowIngest(s, n)
                       \/ CleanupAbandonedIngest(s, n)

LifecycleStep(s) ==
    \E n \in Seqs : \/ VerifyGeneration(s, n)
                    \/ MarkReleaseCandidate(s, n)
                    \/ RequalifyGeneration(s, n)
                    \/ QualifyReleaseCandidate(s, n)
                    \/ ReplaceReleaseCandidate(s, n)

PointerStep ==
    \/ \E s \in Sources, n \in Seqs, prior \in Seqs \cup {Null} :
          \/ ActivateGeneration(s, n, prior)
          \/ \E number \in 1 .. MaxActivations :
                ActivateRegularIngest(s, n, prior, number)
    \/ \E target \in [Sources -> Seqs], prior \in [Sources -> Seqs \cup {Null}] :
          ActivateCandidateSet(target, prior)

\* What the server and the operator's scripts call.
WriterStep ==
    \/ \E s \in Sources : RegisterSource(s) \/ RunStep(s) \/ LifecycleStep(s)
    \/ PointerStep

\* What only a caller of his own, like the schema tests, calls or inserts.
DirectStep(s) ==
    \/ AllocateGeneration(s)
    \/ \E pred \in 0 .. nextSeq[s] - 1, m \in Manifests, b \in Builds :
          AllocateForcedRun(s, pred, m, b)
    \/ \E n \in Seqs :
          \/ SealGeneration(s, n)
          \/ \E v \in Versions, to \in Seqs \cup {Null} : OpenMembership(s, v, n, to)
          \/ \E m \in members[s] : CloseMembership(s, m, n)

StoreNext == WriterStep \/ \E s \in Sources : DirectStep(s)

StoreSpec == StoreInit /\ [][StoreNext]_storeVars

------------------------------------------------------------------------------
(* Properties.                                                              *)

\* The deferred constraint trigger validate_active_source: the pointer is NULL
\* and no generation is active, or it names the only active generation.  The
\* model has no trigger, so this says that no sequence of the functions ever
\* relies on it (migration 029, storage_v2_validate_active_source).
PointerNamesTheActive ==
    \A s \in Sources : \A n \in Seqs : status[s][n] = "active" <=> n = pointer[s]

\* A generation need not come from an ingest, and a pointer may be moved to one
\* that does not; but a set that require_complete_active_set admits readers to
\* consists of generations whose ingest run was completed, whatever was allocated,
\* sealed, marked, activated and requalified around it.
ServedSetsWereIngested ==
    CompleteActiveSet(activation.number) =>
        \A s \in registered : run[s][pointer[s]].phase = "sealed"

\* The generations whose number and all lower ones have left "building".
Settled(s, n) ==
    /\ status[s][n] # "absent"
    /\ \A k \in 1 .. n : status[s][k] # "building"

\* What a settled generation shows is fixed: commits of later runs and boundaries
\* set at later generations, in whatever order, describe later numbers only
\* (commit_shadow_ingest, close_membership, validate_membership_write).
SettledGenerationsAreFixed ==
    [][\A s \in Sources : \A n \in Seqs :
          Settled(s, n) => Visible(s, n)' = Visible(s, n)]_storeVars
==============================================================================
