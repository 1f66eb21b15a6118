---------------------------- MODULE IngestProtocol ----------------------------
(***************************************************************************)
(* The writers that drive the storage-v2 catalogue: checkpointed source      *)
(* sessions that build a release candidate or an ordinary update of an       *)
(* active source, public fixture slices, qualification, cleanup and the      *)
(* operator's activation of a candidate set (api/src/db/build_checkpoint.rs, *)
(* api/src/services/shadow_slice.rs, api/src/services/active_ingest.rs,      *)
(* api/src/api/handlers/admin.rs, ops/storage-v2/activation-set.py).         *)
(*                                                                          *)
(* A checkpointed session is a sequence of transactions under one session    *)
(* lock; whatever was checkpointed survives its crash, and a later session   *)
(* that observes the same predecessor, content and build resumes it.         *)
(*                                                                          *)
(* The disk under the source changes at any time, to anything.  An observation *)
(* is therefore merged with the transaction it is made in where it comes first   *)
(* there (a transaction on another content is one more change of the disk away), *)
(* and is a step of its own where a pointer moves after it.                       *)
(***************************************************************************)
EXTENDS GenerationStore

CONSTANTS
    Writers,        \* concurrent ingest requests
    NativeBuilds,   \* build identities of ordinary ingests (native lexical input)
    FixtureBuilds   \* build identities of public fixture slices

ASSUME BuildKindsAssumption ==
    /\ NativeBuilds \subseteq Builds
    /\ FixtureBuilds \subseteq Builds \ NativeBuilds

Idle == [pc |-> "idle"]

NoPlan == [kind |-> "none"]

\* pointer is the active pointer the session observed and re-checks; number is
\* the activation the serving process was configured with.
Sessions == [pc : {"building", "prepared", "observed", "fixture"}, src : Sources,
             build : Builds, pointer : Seqs \cup {Null}, pred : Seqs \cup {Null},
             manifest : Manifests, seq : Seqs \cup {Null},
             number : 0 .. MaxActivations]

Plans == [kind : {"set"}, covers : SUBSET Sources,
          target : [Sources -> Seqs], prior : [Sources -> Seqs \cup {Null}]]

VARIABLES
    disk,       \* what each source adapter would observe now
    session,    \* the ingest request each writer is serving
    plan        \* the activation the operator is about to apply

vars == <<registered, nextSeq, pointer, status, run, members, evidence,
          activation, receipted, disk, session, plan>>

TypeOK ==
    /\ StoreTypeOK
    /\ disk \in [Sources -> Manifests]
    /\ session \in [Writers -> Sessions \cup {Idle}]
    /\ plan \in Plans \cup {NoPlan}

Init ==
    /\ StoreInit
    /\ disk \in [Sources -> Manifests]
    /\ session = [w \in Writers |-> Idle]
    /\ plan = NoPlan

------------------------------------------------------------------------------
(* The environment and the unguarded operations.                            *)

ChangeDisk(s, m) ==
    /\ disk' = [disk EXCEPT ![s] = m]
    /\ disk' # disk
    /\ UNCHANGED <<storeVars, session, plan>>

Register(s) ==
    /\ RegisterSource(s)
    /\ UNCHANGED <<disk, session, plan>>

\* The cleanup endpoint takes no session lock.
Cleanup(s, n) ==
    /\ CleanupAbandonedIngest(s, n)
    /\ UNCHANGED <<disk, session, plan>>

Qualify(s, n) ==
    /\ ReplaceReleaseCandidate(s, n)
    /\ UNCHANGED <<disk, session, plan>>

------------------------------------------------------------------------------
(* Checkpointed source sessions.                                            *)

\* Mutant: sessions do not exclude each other.
LockedNever(s) == FALSE

\* pg_try_advisory_lock of the source: held from open to the end of the
\* session, so not by an ordinary ingest that is already prepared.
Locked(s) == \E w \in Writers : session[w].pc = "building" /\ session[w].src = s

\* NO_CHANGE: the active generation was built from this content and profile.
Unchanged(s, m, b) ==
    /\ run[s][pointer[s]].manifest = m
    /\ ProfileOf[run[s][pointer[s]].build] = ProfileOf[b]

\* What an ordinary ingest requires before it builds.
OrdinaryAdmitted(s, b) ==
    /\ s \notin TestSources
    /\ CompleteActiveSet(activation.number)
    /\ ~Unchanged(s, disk[s], b)

SessionAdmitted(w, s, b) ==
    /\ session[w] = Idle
    /\ s \in registered
    /\ ~Locked(s)
    /\ b \notin FixtureBuilds
    /\ b \in NativeBuilds => OrdinaryAdmitted(s, b)

Opening(s, b, phase, n) ==
    [pc |-> phase, src |-> s, build |-> b, pointer |-> pointer[s],
     pred |-> NewestSealed(s), manifest |-> disk[s], seq |-> n,
     number |-> activation.number]

\* Open, observation, begin_shadow_ingest and the content-store checkpoint: one
\* transaction, in which the run is newly allocated ...
BeginFresh(w, s, b) ==
    /\ SessionAdmitted(w, s, b)
    /\ AllocateRun(s, NewestSealed(s), disk[s], b)
    /\ session' = [session EXCEPT ![w] = Opening(s, b, "building", nextSeq[s])]
    /\ UNCHANGED <<disk, plan>>

\* Mutant: a run with checkpointed items is not resumed.
ResumeUntouched(w, s, b) ==
    /\ SessionAdmitted(w, s, b)
    /\ \E n \in KeyedRuns(s, NewestSealed(s), disk[s], b) :
          /\ run[s][n].phase = "building"
          /\ run[s][n].staged = {}
          /\ session' = [session EXCEPT ![w] = Opening(s, b, "building", n)]
    /\ UNCHANGED <<storeVars, disk, plan>>

\* ... or found under its idempotency key, with the items an earlier session
\* checkpointed.
ResumeRun(w, s, b) ==
    /\ SessionAdmitted(w, s, b)
    /\ \E n \in KeyedRuns(s, NewestSealed(s), disk[s], b) :
          /\ run[s][n].phase = "building"
          /\ run[s][n].staged \subseteq disk[s]
          /\ session' = [session EXCEPT ![w] = Opening(s, b, "building", n)]
    /\ UNCHANGED <<storeVars, disk, plan>>

\* A sealed run is answered as it is.  An ordinary ingest goes on to activate it
\* if it verifies against the live pointer; for a candidate nothing is left to do.
ReuseGeneration(w, s, b) ==
    /\ SessionAdmitted(w, s, b)
    /\ b \in NativeBuilds
    /\ LET n == BeginAnswer(s, NewestSealed(s), disk[s], b)
       IN  /\ n # nextSeq[s] /\ run[s][n].phase = "sealed"
           /\ status[s][n] = "verified"
           /\ run[s][n].expected = pointer[s]
           /\ session' = [session EXCEPT ![w] = Opening(s, b, "prepared", n)]
    /\ UNCHANGED <<storeVars, disk, plan>>

\* One durable checkpoint: the item is staged and the session re-reads the
\* pointer before it goes on.
CheckpointItem(w) ==
    /\ session[w].pc = "building"
    /\ pointer[session[w].src] = session[w].pointer
    /\ \E f \in Files : StageShadowItem(session[w].src, session[w].seq, f)
    /\ UNCHANGED <<disk, session, plan>>

\* Final observation, commit_shadow_ingest, verify_generation and the session's
\* last commit: one transaction.  The lock goes with the session.
SealBuild(w) ==
    /\ session[w].pc = "building"
    /\ LET s == session[w].src
           n == session[w].seq
       IN  /\ disk[s] = session[w].manifest
           /\ pointer[s] = session[w].pointer
           /\ run[s][n].staged = session[w].manifest
           /\ SealInto(s, n, run[s][n], "verified")
    /\ session' = [session EXCEPT ![w] =
                     IF @.build \in NativeBuilds THEN [@ EXCEPT !.pc = "prepared"]
                     ELSE Idle]
    /\ UNCHANGED <<registered, nextSeq, pointer, evidence, activation, receipted,
                   disk, plan>>

\* The second transaction of an ordinary ingest: the active set, the generation and
\* the source are looked at again, without a lock ...
ObserveAgain(w) ==
    /\ session[w].pc = "prepared"
    /\ LET s == session[w].src
           n == session[w].seq
       IN  /\ CompleteActiveSet(session[w].number)
           /\ pointer[s] = session[w].pointer
           /\ status[s][n] = "verified"
           /\ Visible(s, n) = StagedVersions(run[s][n])
           /\ disk[s] = session[w].manifest
    /\ session' = [session EXCEPT ![w].pc = "observed"]
    /\ UNCHANGED <<storeVars, disk, plan>>

\* ... and then the pointer moves, whatever the disk has become.
CommitActive(w) ==
    /\ session[w].pc = "observed"
    /\ ActivateRegularIngest(session[w].src, session[w].seq, session[w].pointer,
                             session[w].number)
    /\ session' = [session EXCEPT ![w] = Idle]
    /\ UNCHANGED <<disk, plan>>

\* A crash, a cancelled request or any error: the transaction in flight is
\* rolled back and the session lock released.
Abort(w) ==
    /\ session[w] # Idle
    /\ session' = [session EXCEPT ![w] = Idle]
    /\ UNCHANGED <<storeVars, disk, plan>>

------------------------------------------------------------------------------
(* Public fixture slices: one transaction that reads the predecessor before   *)
(* begin_shadow_ingest waits for the source lock.                            *)

ObserveFixture(w, s, b) ==
    /\ session[w] = Idle
    /\ s \in registered \cap TestSources
    /\ b \in FixtureBuilds
    /\ session' = [session EXCEPT ![w] = Opening(s, b, "fixture", Null)]
    /\ UNCHANGED <<storeVars, disk, plan>>

FixtureRun(f) ==
    [NewRun(f.src, f.pred, f.manifest, f.build) EXCEPT !.staged = f.manifest]

SealFixture(w) ==
    /\ session[w].pc = "fixture"
    /\ LET f == session[w]
           s == f.src
       IN  /\ ~Locked(s)
           /\ KeyedRuns(s, f.pred, f.manifest, f.build) = {}
           /\ ~Reusable(s, f.manifest, f.build)
           /\ nextSeq[s] <= MaxSeq
           /\ disk[s] = f.manifest
           /\ pointer[s] = f.pointer
           /\ SealInto(s, nextSeq[s], FixtureRun(f), "verified")
           /\ nextSeq' = [nextSeq EXCEPT ![s] = @ + 1]
    /\ session' = [session EXCEPT ![w] = Idle]
    /\ UNCHANGED <<registered, pointer, evidence, activation, receipted, disk, plan>>

------------------------------------------------------------------------------
(* Activation of a reviewed candidate set.                                  *)

\* The last live check of activation-set.py before its SQL call: every source
\* has one release candidate, built from what is on disk.
PlanSet ==
    /\ plan = NoPlan
    /\ registered # {}
    /\ \E target \in [Sources -> Seqs] :
          /\ \A s \in registered : /\ ReleaseCandidates(s) = {target[s]}
                                   /\ target[s] \in evidence[s]
                                   /\ run[s][target[s]].manifest = disk[s]
          /\ \A s \in Sources \ registered : target[s] = 1
          /\ plan' = [kind |-> "set", covers |-> registered,
                      target |-> target, prior |-> pointer]
    /\ UNCHANGED <<storeVars, disk, session>>

ApplyPlan ==
    /\ plan # NoPlan
    /\ plan.covers = registered
    /\ ActivateCandidateSet(plan.target, plan.prior)
    /\ plan' = NoPlan
    /\ UNCHANGED <<disk, session>>

DiscardPlan ==
    /\ plan # NoPlan
    /\ plan' = NoPlan
    /\ UNCHANGED <<storeVars, disk, session>>

------------------------------------------------------------------------------
BuildStep(w) ==
    \/ \E s \in Sources, b \in Builds : \/ BeginFresh(w, s, b)
                                        \/ ResumeRun(w, s, b)
                                        \/ ReuseGeneration(w, s, b)
                                        \/ ObserveFixture(w, s, b)
    \/ CheckpointItem(w)
    \/ SealBuild(w)
    \/ ObserveAgain(w)
    \/ CommitActive(w)
    \/ SealFixture(w)

OperatorStep ==
    \/ \E s \in Sources : \/ Register(s)
                          \/ \E n \in Seqs : Cleanup(s, n) \/ Qualify(s, n)
    \/ PlanSet
    \/ ApplyPlan
    \/ DiscardPlan

Next ==
    \/ \E s \in Sources, m \in Manifests : ChangeDisk(s, m)
    \/ \E w \in Writers : BuildStep(w) \/ Abort(w)
    \/ OperatorStep

Spec == Init /\ [][Next]_vars

\* The retries the code's operation justifies: a source that keeps differing
\* from its active generation is synchronised again and again, a session that is
\* not interrupted runs on, interruptions do not for ever hit the same stretch
\* between two durable points, and a session that cannot go on ends in an error.
Fairness ==
    \A w \in Writers :
        /\ WF_vars(Abort(w))
        /\ SF_vars(\E s \in Sources, b \in NativeBuilds :
                      BeginFresh(w, s, b) \/ ResumeRun(w, s, b) \/ ReuseGeneration(w, s, b))
        /\ SF_vars(CheckpointItem(w))
        /\ SF_vars(SealBuild(w))
        /\ SF_vars(ObserveAgain(w))
        /\ SF_vars(CommitActive(w))

FairSpec == Spec /\ Fairness

------------------------------------------------------------------------------
(* Properties.                                                              *)

\* A sealed generation shows exactly the versions its own run staged, whatever
\* was built, resumed or abandoned around it (commit_shadow_ingest applies a
\* delta to rows other runs left; the session key and lock keep it right).
SealedShowsItsRun ==
    \A s \in Sources : \A n \in SealedRuns(s) :
        /\ Visible(s, n) = StagedVersions(run[s][n])
        /\ run[s][n].staged = run[s][n].manifest

\* Once complete, the active set stays readable: only the registration of a source
\* that is not in it makes storage_v2_require_complete_active_set fail for every
\* reader, whatever ingests and activations of several sources interleave.
ActiveSetStaysComplete ==
    [][CompleteActiveSet(activation.number) /\ registered' = registered
          => CompleteActiveSet(activation.number)']_vars

\* The snapshots the catalogue keeps: what each sealed generation shows.
Snapshots == [s \in Sources |-> [n \in SealedRuns(s) |-> Visible(s, n)]]

Catalog == INSTANCE SnapshotCatalog WITH history <- Snapshots, current <- pointer

\* The protocol implements a catalogue of immutable, ever newer snapshots: what a
\* sealed generation shows never changes (docs/storage-v2.md), although every commit
\* revises rows that older generations share.
ImplementsSnapshotCatalog == Catalog!CatalogSpec

\* From here an ordinary ingest of content m by build b can succeed: the run
\* begin_shadow_ingest answers with is new (within the bound) or was allocated for
\* the live pointer.
Servable(s, m, b) ==
    LET n == BeginAnswer(s, NewestSealed(s), m, b)
    IN  \/ n = nextSeq[s] /\ n <= MaxSeq
        \/ n < nextSeq[s] /\ run[s][n].expected = pointer[s]
                          /\ status[s][n] \in {"building", "verified"}

Shows(s, m) == pointer[s] # Null /\ run[s][pointer[s]].manifest = m

\* Content that stays on disk is published, provided that from some time on the
\* active set is complete and the run in the way was allocated for the live
\* pointer: crashes, resumed runs and competing requests do not stop it.
ServableContentIsPublished ==
    \A s \in Sources, m \in Manifests :
        <>[](/\ disk[s] = m
             /\ CompleteActiveSet(activation.number)
             /\ \A b \in NativeBuilds : Servable(s, m, b))
           => <>Shows(s, m)

\* ops/storage-v2/README.md: the sync routes "build and commit a sealed, verified
\* storage-v2 generation when its watermark changes ... advancing exactly one
\* active pointer".
StableContentIsPublished ==
    \A s \in Sources, m \in Manifests :
        <>[](/\ disk[s] = m
             /\ CompleteActiveSet(activation.number)
             /\ nextSeq[s] <= MaxSeq)
           => <>Shows(s, m)
==============================================================================
