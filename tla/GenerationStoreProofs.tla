------------------------ MODULE GenerationStoreProofs ------------------------
(***************************************************************************)
(* Proofs about the catalogue.  Under every legal call: its type invariant,   *)
(* that the active pointer names the only active generation, that a complete  *)
(* active set consists of ingested generations, and that settled generations  *)
(* are fixed.  Under the calls of the writers, for the proofs about them: that *)
(* runs and generations agree and where membership intervals begin and end.   *)
(***************************************************************************)
EXTENDS GenerationStore, TLAPS

USE BoundsAssumption

------------------------------------------------------------------------------
(* Type correctness.                                                        *)

\* The record an absent run is represented by is a run.
LEMMA NoRunType == NoRun \in Runs
  BY BuildsAssumption DEF NoRun, Runs, Phases, Seqs, Null

\* Every state of the catalogue is well typed at the start.
LEMMA InitType == StoreInit => StoreTypeOK
  BY NoRunType DEF StoreInit, StoreTypeOK, Statuses, Seqs, Null, Activations

\* A freshly allocated run is a run, and its number is a sequence number.
LEMMA NewRunType ==
    ASSUME StoreTypeOK, NEW s \in Sources, NEW pred \in 0 .. nextSeq[s] - 1,
           NEW m \in Manifests, NEW b \in Builds, nextSeq[s] <= MaxSeq
    PROVE  /\ nextSeq[s] \in Seqs
           /\ NewRun(s, pred, m, b) \in Runs
  <1>1. nextSeq[s] \in 1 .. MaxSeq + 1
    BY DEF StoreTypeOK
  <1>2. nextSeq[s] \in Seqs
    BY <1>1 DEF Seqs
  <1>3. pred \in Seqs \cup {Null} /\ pointer[s] \in Seqs \cup {Null}
    BY <1>1 DEF Seqs, Null, StoreTypeOK
  <1>4. m \in SUBSET Files
    BY ManifestsAssumption
  <1> QED
    BY <1>2, <1>3, <1>4 DEF NewRun, Runs, Phases

\* The number an allocation hands out is a sequence number.
LEMMA AllocatedNumber ==
    ASSUME StoreTypeOK, NEW s \in Sources, NEW r, Allocates(s, r)
    PROVE  nextSeq[s] \in Seqs /\ s \in registered
  BY DEF Allocates, StoreTypeOK, Seqs

\* Allocation changes the sequence counter, one status and one run.
LEMMA AllocateType ==
    ASSUME StoreTypeOK, NEW s \in Sources, NEW r \in Runs, Allocates(s, r)
    PROVE  StoreTypeOK'
  <1>1. nextSeq[s] \in Seqs
    BY AllocatedNumber
  <1>2. nextSeq' \in [Sources -> 1 .. MaxSeq + 1]
    BY <1>1 DEF Allocates, StoreTypeOK, Seqs
  <1>3. status' \in [Sources -> [Seqs -> Statuses]]
    BY <1>1 DEF Allocates, StoreTypeOK, Statuses
  <1>4. run' \in [Sources -> [Seqs -> Runs]]
    BY <1>1 DEF Allocates, StoreTypeOK
  <1> QED
    BY <1>2, <1>3, <1>4 DEF Allocates, StoreTypeOK

\* Every allocation of the catalogue is one of a run that is well typed.
LEMMA AllocationType ==
    ASSUME StoreTypeOK, NEW s \in Sources,
           \/ AllocateGeneration(s)
           \/ \E pred \in 0 .. nextSeq[s] - 1, m \in Manifests, b \in Builds :
                 AllocateRun(s, pred, m, b) \/ AllocateForcedRun(s, pred, m, b)
    PROVE  StoreTypeOK'
  <1>1. CASE AllocateGeneration(s)
    BY <1>1, NoRunType, AllocateType DEF AllocateGeneration
  <1>2. ASSUME NEW pred \in 0 .. nextSeq[s] - 1, NEW m \in Manifests, NEW b \in Builds,
               AllocateRun(s, pred, m, b) \/ AllocateForcedRun(s, pred, m, b)
        PROVE  StoreTypeOK'
    <2>1. Allocates(s, NewRun(s, pred, m, b))
      BY <1>2 DEF AllocateRun, AllocateForcedRun
    <2>2. NewRun(s, pred, m, b) \in Runs
      BY <2>1, NewRunType DEF Allocates
    <2> QED
      BY <2>1, <2>2, AllocateType
  <1> QED
    BY <1>1, <1>2

\* Replacing one run by a run keeps the runs well typed.
LEMMA RunUpdateType ==
    ASSUME StoreTypeOK, NEW s \in Sources, NEW n \in Seqs, NEW r \in Runs
    PROVE  [run EXCEPT ![s][n] = r] \in [Sources -> [Seqs -> Runs]]
  BY DEF StoreTypeOK

\* A run in another phase, and a run with one more item, are runs.
LEMMA RunChangeType ==
    ASSUME NEW r \in Runs
    PROVE  /\ \A phase \in Phases : [r EXCEPT !.phase = phase] \in Runs
           /\ \A f \in Files : [r EXCEPT !.staged = @ \cup {f}] \in Runs
  BY DEF Runs

\* A change of one run's phase keeps the runs well typed.
LEMMA PhaseType ==
    ASSUME StoreTypeOK, NEW s \in Sources, NEW n \in Seqs, NEW phase \in Phases,
           run' = [run EXCEPT ![s][n].phase = phase]
    PROVE  run' \in [Sources -> [Seqs -> Runs]]
  <1> DEFINE r == [run[s][n] EXCEPT !.phase = phase]
  <1>1. r \in Runs
    BY RunChangeType DEF StoreTypeOK
  <1>2. run' = [run EXCEPT ![s][n] = r]
    OBVIOUS
  <1> QED
    BY <1>1, <1>2, RunUpdateType

\* Staging, cancelling and tombstoning a run change that run only.
LEMMA RunOnlyType ==
    ASSUME StoreTypeOK, NEW s \in Sources, NEW n \in Seqs,
           \/ \E f \in Files : StageShadowItem(s, n, f)
           \/ CancelShadowIngest(s, n)
           \/ CleanupAbandonedIngest(s, n)
    PROVE  StoreTypeOK'
  <1>1. CASE \E f \in Files : StageShadowItem(s, n, f)
    <2>1. PICK f \in Files : StageShadowItem(s, n, f)
      BY <1>1
    <2> DEFINE r == [run[s][n] EXCEPT !.staged = @ \cup {f}]
    <2>2. r \in Runs
      <3>1. run[s][n] \in Runs
        BY DEF StoreTypeOK
      <3> QED
        BY <3>1, RunChangeType
    <2>3. run' = [run EXCEPT ![s][n] = r]
      BY <2>1 DEF StageShadowItem
    <2>4. run' \in [Sources -> [Seqs -> Runs]]
      BY <2>2, <2>3, RunUpdateType
    <2> QED
      BY <2>1, <2>4 DEF StageShadowItem, StoreTypeOK
  <1>2. CASE CancelShadowIngest(s, n)
    <2>1. run' \in [Sources -> [Seqs -> Runs]]
      BY <1>2, PhaseType DEF CancelShadowIngest, Phases
    <2> QED
      BY <1>2, <2>1 DEF CancelShadowIngest, StoreTypeOK
  <1>3. CASE CleanupAbandonedIngest(s, n)
    <2>1. run' \in [Sources -> [Seqs -> Runs]]
      BY <1>3, PhaseType DEF CleanupAbandonedIngest, Phases
    <2> QED
      BY <1>3, <2>1 DEF CleanupAbandonedIngest, StoreTypeOK
  <1> QED
    BY <1>1, <1>2, <1>3

\* The versions a run stages are versions.
LEMMA StagedType ==
    ASSUME NEW r \in Runs
    PROVE  StagedVersions(r) \subseteq Versions
  BY DEF StagedVersions, Versions, Runs, Profiles

\* The membership delta of a commit maps rows to rows.
LEMMA DeltaType ==
    ASSUME NEW M \in SUBSET Memberships, NEW V \in SUBSET Versions, NEW n \in Seqs
    PROVE  Delta(M, V, n) \in SUBSET Memberships
  <1>1. Closed(M, V, n) \in SUBSET Memberships
    BY DEF Closed, Displaced, Memberships
  <1>2. \A C : Opened(C, V, n) \in SUBSET Memberships
    BY DEF Opened, Memberships
  <1> QED
    BY <1>1, <1>2 DEF Delta

\* Committing a well-typed run keeps membership, status and runs well typed.
LEMMA SealType ==
    ASSUME StoreTypeOK, NEW s \in Sources, NEW n \in Seqs, NEW r \in Runs,
           NEW final \in Statuses, SealInto(s, n, r, final)
    PROVE  /\ members' \in [Sources -> SUBSET Memberships]
           /\ status' \in [Sources -> [Seqs -> Statuses]]
           /\ run' \in [Sources -> [Seqs -> Runs]]
  <1>1. members[s] \in SUBSET Memberships /\ StagedVersions(r) \in SUBSET Versions
    BY StagedType DEF StoreTypeOK
  <1>2. Delta(members[s], StagedVersions(r), n) \in SUBSET Memberships
    BY <1>1, DeltaType
  <1>3. [r EXCEPT !.phase = "sealed"] \in Runs
    BY RunChangeType DEF Phases
  <1> QED
    BY <1>2, <1>3 DEF SealInto, StoreTypeOK

\* The steps of a generation's life change its status, and once its evidence.
LEMMA LifecycleType ==
    ASSUME StoreTypeOK, NEW s \in Sources, NEW n \in Seqs,
           \/ CommitShadowIngest(s, n)
           \/ VerifyGeneration(s, n)
           \/ MarkReleaseCandidate(s, n)
           \/ RequalifyGeneration(s, n)
           \/ QualifyReleaseCandidate(s, n)
           \/ ReplaceReleaseCandidate(s, n)
    PROVE  StoreTypeOK'
  <1>1. CASE CommitShadowIngest(s, n)
    <2>1. run[s][n] \in Runs /\ "sealed" \in Statuses
      BY DEF StoreTypeOK, Statuses
    <2> QED
      BY <1>1, <2>1, SealType DEF CommitShadowIngest, StoreTypeOK
  <1>2. CASE VerifyGeneration(s, n)
    BY <1>2 DEF VerifyGeneration, StoreTypeOK, Statuses
  <1>3. CASE MarkReleaseCandidate(s, n)
    BY <1>3 DEF MarkReleaseCandidate, StoreTypeOK, Statuses
  <1>4. CASE RequalifyGeneration(s, n)
    BY <1>4 DEF RequalifyGeneration, StoreTypeOK, Statuses
  <1>5. CASE QualifyReleaseCandidate(s, n)
    BY <1>5 DEF QualifyReleaseCandidate, StoreTypeOK, Statuses
  <1>6. CASE ReplaceReleaseCandidate(s, n)
    BY <1>6 DEF ReplaceReleaseCandidate, StoreTypeOK, Statuses
  <1> QED
    BY <1>1, <1>2, <1>3, <1>4, <1>5, <1>6

\* Promotion maps statuses to statuses.
LEMMA PromoteType ==
    ASSUME NEW column \in [Seqs -> Statuses], NEW prior, NEW n
    PROVE  Promote(column, prior, n) \in [Seqs -> Statuses]
  BY DEF Promote, Statuses

\* The steps that move pointers.
LEMMA ActivateType ==
    ASSUME StoreTypeOK, NEW s \in Sources, NEW n \in Seqs,
           NEW prior \in Seqs \cup {Null}, ActivateGeneration(s, n, prior)
    PROVE  StoreTypeOK'
  <1>1. status' \in [Sources -> [Seqs -> Statuses]]
    BY PromoteType DEF ActivateGeneration, StoreTypeOK
  <1> QED
    BY <1>1 DEF ActivateGeneration, StoreTypeOK

LEMMA RegularType ==
    ASSUME StoreTypeOK, NEW s \in Sources, NEW n \in Seqs,
           NEW prior \in Seqs \cup {Null}, NEW number,
           ActivateRegularIngest(s, n, prior, number)
    PROVE  StoreTypeOK'
  <1>1. status' \in [Sources -> [Seqs -> Statuses]]
    BY PromoteType DEF ActivateRegularIngest, StoreTypeOK
  <1>2. pointer' \in [Sources -> Seqs \cup {Null}]
    BY DEF ActivateRegularIngest, StoreTypeOK
  <1>3. activation' \in Activations
    BY <1>2 DEF ActivateRegularIngest, StoreTypeOK, Activations
  <1> QED
    BY <1>1, <1>2, <1>3 DEF ActivateRegularIngest, StoreTypeOK

LEMMA CandidateSetType ==
    ASSUME StoreTypeOK, NEW target \in [Sources -> Seqs],
           NEW prior \in [Sources -> Seqs \cup {Null}],
           ActivateCandidateSet(target, prior)
    PROVE  StoreTypeOK'
  <1>1. status' \in [Sources -> [Seqs -> Statuses]]
    BY PromoteType DEF ActivateCandidateSet, StoreTypeOK
  <1>2. pointer' \in [Sources -> Seqs \cup {Null}]
    BY DEF ActivateCandidateSet, StoreTypeOK
  <1>3. activation.number + 1 \in 0 .. MaxActivations
    BY DEF ActivateCandidateSet, StoreTypeOK, Activations
  <1>4. activation' \in Activations
    BY <1>2, <1>3 DEF ActivateCandidateSet, StoreTypeOK, Activations
  <1> QED
    BY <1>1, <1>2, <1>4 DEF ActivateCandidateSet, StoreTypeOK

\* Direct calls change one status or the rows of one source.
LEMMA DirectType ==
    ASSUME StoreTypeOK, NEW s \in Sources, NEW n \in Seqs,
           \/ SealGeneration(s, n)
           \/ \E v \in Versions, to \in Seqs \cup {Null} : OpenMembership(s, v, n, to)
           \/ \E m \in members[s] : CloseMembership(s, m, n)
    PROVE  StoreTypeOK'
  <1>1. CASE SealGeneration(s, n)
    BY <1>1 DEF SealGeneration, StoreTypeOK, Statuses
  <1>2. ASSUME NEW v \in Versions, NEW to \in Seqs \cup {Null}, OpenMembership(s, v, n, to)
        PROVE  StoreTypeOK'
    <2>1. [version |-> v, from |-> n, to |-> to] \in Memberships
      BY DEF Memberships
    <2> QED
      BY <1>2, <2>1 DEF OpenMembership, StoreTypeOK
  <1>3. ASSUME NEW m \in members[s], CloseMembership(s, m, n)
        PROVE  StoreTypeOK'
    <2>1. m \in Memberships
      BY DEF StoreTypeOK
    <2>2. [m EXCEPT !.to = n] \in Memberships
      BY <2>1 DEF Memberships
    <2> QED
      BY <1>3, <2>2 DEF CloseMembership, StoreTypeOK
  <1> QED
    BY <1>1, <1>2, <1>3

\* No step leaves the types.
LEMMA StepType == StoreTypeOK /\ [StoreNext]_storeVars => StoreTypeOK'
  <1> SUFFICES ASSUME StoreTypeOK, [StoreNext]_storeVars PROVE StoreTypeOK'
    OBVIOUS
  <1>1. CASE UNCHANGED storeVars
    BY <1>1 DEF storeVars, StoreTypeOK
  <1>2. ASSUME NEW s \in Sources, RegisterSource(s) PROVE StoreTypeOK'
    BY <1>2 DEF RegisterSource, StoreTypeOK
  <1>3. ASSUME NEW s \in Sources, RunStep(s) PROVE StoreTypeOK'
    BY <1>3, AllocationType, RunOnlyType, LifecycleType DEF RunStep
  <1>4. ASSUME NEW s \in Sources, LifecycleStep(s) PROVE StoreTypeOK'
    BY <1>4, LifecycleType DEF LifecycleStep
  <1>5. CASE PointerStep
    BY <1>5, ActivateType, RegularType, CandidateSetType DEF PointerStep
  <1>6. ASSUME NEW s \in Sources, DirectStep(s) PROVE StoreTypeOK'
    BY <1>6, AllocationType, DirectType DEF DirectStep
  <1> QED
    BY <1>1, <1>2, <1>3, <1>4, <1>5, <1>6 DEF StoreNext, WriterStep

\* The catalogue stays well typed under every sequence of its functions.
THEOREM TypeCorrect == StoreSpec => []StoreTypeOK
  <1> QED
    BY InitType, StepType, PTL DEF StoreSpec

------------------------------------------------------------------------------
(* Pointers, numbers and runs.                                              *)

\* A number is below the counter exactly when its generation exists, so an
\* allocation never reuses one.
NumbersAllocated ==
    \A s \in Sources : \A n \in Seqs : n < nextSeq[s] <=> status[s][n] # "absent"

\* A run belongs to a generation that exists.
RunsHaveGenerations ==
    \A s \in Sources : \A n \in Seqs : run[s][n].phase # "none" => status[s][n] # "absent"

\* A run is sealed exactly when its generation has left "building", and only an
\* absent generation has none.  True of what the writers call; a generation
\* allocated or sealed on its own is the exception.
SealedRunBehindEveryGeneration ==
    \A s \in Sources : \A n \in Seqs :
        /\ run[s][n].phase = "sealed" <=> status[s][n] \notin {"absent", "building"}
        /\ run[s][n].phase = "none" <=> status[s][n] = "absent"

\* What every legal call preserves ...
CatalogInv ==
    /\ StoreTypeOK
    /\ NumbersAllocated
    /\ RunsHaveGenerations
    /\ PointerNamesTheActive

\* ... and what the calls of the writers do.
StoreInv ==
    /\ StoreTypeOK
    /\ NumbersAllocated
    /\ SealedRunBehindEveryGeneration
    /\ PointerNamesTheActive

LEMMA StoreIsCatalog == StoreInv => CatalogInv
  BY DEF StoreInv, CatalogInv, SealedRunBehindEveryGeneration, RunsHaveGenerations

CatalogKept == (NumbersAllocated /\ RunsHaveGenerations /\ PointerNamesTheActive)'

RunsKept == SealedRunBehindEveryGeneration => SealedRunBehindEveryGeneration'

\* The statuses past "building".
Completed == Statuses \ {"absent", "building"}

\* A step that allocates nothing, makes no run and activates nothing.
LEMMA SameNumbers ==
    ASSUME CatalogInv, UNCHANGED <<nextSeq, pointer>>,
           \A s \in Sources : \A n \in Seqs :
              /\ status'[s][n] = "absent" <=> status[s][n] = "absent"
              /\ status'[s][n] = "active" <=> status[s][n] = "active"
              /\ run'[s][n].phase = "none" <=> run[s][n].phase = "none"
    PROVE  CatalogKept
  BY DEF CatalogInv, CatalogKept, NumbersAllocated, RunsHaveGenerations,
         PointerNamesTheActive

\* A step that seals neither a run nor a generation.
LEMMA SamePhases ==
    ASSUME \A s \in Sources : \A n \in Seqs :
              /\ status'[s][n] = "absent" <=> status[s][n] = "absent"
              /\ status'[s][n] = "building" <=> status[s][n] = "building"
              /\ run'[s][n].phase = "none" <=> run[s][n].phase = "none"
              /\ run'[s][n].phase = "sealed" <=> run[s][n].phase = "sealed"
    PROVE  RunsKept
  BY DEF RunsKept, SealedRunBehindEveryGeneration

\* A step that changes the phase of one run that is not sealed.
LEMMA UnsealedRunStep ==
    ASSUME CatalogInv, NEW s \in Sources, NEW n \in Seqs,
           UNCHANGED <<nextSeq, pointer, status>>,
           run[s][n].phase \in {"building", "cancelled"},
           NEW r, r.phase \in Phases \ {"none", "sealed"},
           run' = [run EXCEPT ![s][n] = r]
    PROVE  CatalogKept /\ RunsKept
  <1>1. \A t \in Sources : \A k \in Seqs :
           run'[t][k] = IF t = s /\ k = n THEN r ELSE run[t][k]
    BY DEF CatalogInv, StoreTypeOK
  <1>2. \A t \in Sources : \A k \in Seqs :
           run'[t][k].phase = IF t = s /\ k = n THEN r.phase ELSE run[t][k].phase
    BY <1>1
  <1> QED
    BY <1>2, SameNumbers, SamePhases

\* A step that changes the status of generations of one source past "building",
\* and activates none.
LEMMA CompletedStep ==
    ASSUME CatalogInv, NEW s \in Sources,
           UNCHANGED <<nextSeq, pointer, run>>,
           \A t \in Sources \ {s} : status'[t] = status[t],
           \A n \in Seqs : \/ status'[s][n] = status[s][n]
                          \/ /\ status[s][n] \in Completed \ {"active"}
                             /\ status'[s][n] \in Completed \ {"active"}
    PROVE  CatalogKept /\ RunsKept
  <1>1. \A t \in Sources : \A k \in Seqs :
           /\ status'[t][k] = "absent" <=> status[t][k] = "absent"
           /\ status'[t][k] = "building" <=> status[t][k] = "building"
           /\ status'[t][k] = "active" <=> status[t][k] = "active"
    BY DEF Completed
  <1> QED
    BY <1>1, SameNumbers, SamePhases

\* Allocation creates a building generation at a number that was absent, which no
\* pointer names and no run had; the writers insert a building run with it.
LEMMA AllocateInv ==
    ASSUME CatalogInv, NEW s \in Sources, NEW r \in Runs, Allocates(s, r)
    PROVE  CatalogKept /\ (r.phase = "building" => RunsKept)
  <1> DEFINE n == nextSeq[s]
  <1>1. n \in Seqs /\ n \in Nat
    BY AllocatedNumber DEF CatalogInv, Seqs
  <1>2. status[s][n] = "absent"
    BY <1>1 DEF CatalogInv, NumbersAllocated
  <1>3. \A t \in Sources : \A k \in Seqs :
           /\ status'[t][k] = IF t = s /\ k = n THEN "building" ELSE status[t][k]
           /\ run'[t][k] = IF t = s /\ k = n THEN r ELSE run[t][k]
           /\ nextSeq'[t] = IF t = s THEN n + 1 ELSE nextSeq[t]
    BY <1>1 DEF Allocates, CatalogInv, StoreTypeOK
  <1>n. Seqs \subseteq Nat
    BY DEF Seqs
  <1>s. \A t \in Sources : \A k \in Seqs :
           status'[t][k] = IF t = s /\ k = n THEN "building" ELSE status[t][k]
    BY <1>3
  <1>p. \A t \in Sources : \A k \in Seqs :
           run'[t][k].phase = IF t = s /\ k = n THEN r.phase ELSE run[t][k].phase
    BY <1>3
  <1>a. \A t \in Sources : nextSeq'[t] = IF t = s THEN n + 1 ELSE nextSeq[t]
    BY DEF Allocates, CatalogInv, StoreTypeOK
  <1>c. n = nextSeq[s]
    OBVIOUS
  <1> HIDE DEF n
  <1>4. NumbersAllocated'
    <2> SUFFICES ASSUME NEW t \in Sources, NEW k \in Seqs
                 PROVE  k < nextSeq'[t] <=> status'[t][k] # "absent"
      BY DEF NumbersAllocated
    <2>1. k < nextSeq[t] <=> status[t][k] # "absent"
      BY DEF CatalogInv, NumbersAllocated
    <2>2. CASE t # s
      BY <2>1, <2>2, <1>a, <1>s
    <2>3. CASE t = s /\ k = n
      <3>1. nextSeq'[t] = n + 1 /\ status'[t][k] = "building"
        BY <2>3, <1>a, <1>s
      <3> QED
        BY <2>3, <3>1, <1>1
    <2>4. CASE t = s /\ k # n
      <3>1. nextSeq'[t] = n + 1 /\ status'[t][k] = status[t][k]
        BY <2>4, <1>a, <1>s
      <3>2. k < n + 1 <=> k < n
        BY <2>4, <1>1, <1>n
      <3> QED
        BY <2>1, <2>4, <3>1, <3>2, <1>c
    <2> QED
      BY <2>2, <2>3, <2>4
  <1>5. RunsHaveGenerations'
    BY <1>s, <1>p DEF CatalogInv, RunsHaveGenerations
  <1>6. PointerNamesTheActive'
    BY <1>1, <1>2, <1>s DEF CatalogInv, PointerNamesTheActive, Allocates
  <1>7. ASSUME r.phase = "building" PROVE RunsKept
    <2> SUFFICES ASSUME SealedRunBehindEveryGeneration, NEW t \in Sources, NEW k \in Seqs
                 PROVE  /\ run'[t][k].phase = "sealed"
                             <=> status'[t][k] \notin {"absent", "building"}
                        /\ run'[t][k].phase = "none" <=> status'[t][k] = "absent"
      BY DEF RunsKept, SealedRunBehindEveryGeneration
    <2>1. CASE t = s /\ k = n
      BY <2>1, <1>7, <1>p, <1>s
    <2>2. ASSUME ~(t = s /\ k = n)
          PROVE  run'[t][k].phase = run[t][k].phase /\ status'[t][k] = status[t][k]
      BY <2>2, <1>p, <1>s
    <2> QED
      BY <2>1, <2>2 DEF SealedRunBehindEveryGeneration
  <1> QED
    BY <1>4, <1>5, <1>6, <1>7 DEF CatalogKept

\* The run begin_shadow_ingest inserts is building.
LEMMA AllocateRunInv ==
    ASSUME CatalogInv, NEW s \in Sources, NEW pred \in 0 .. nextSeq[s] - 1,
           NEW m \in Manifests, NEW b \in Builds,
           AllocateRun(s, pred, m, b) \/ AllocateForcedRun(s, pred, m, b)
    PROVE  CatalogKept /\ RunsKept
  <1>1. Allocates(s, NewRun(s, pred, m, b))
    BY DEF AllocateRun, AllocateForcedRun
  <1>2. NewRun(s, pred, m, b) \in Runs
    BY <1>1, NewRunType DEF Allocates, CatalogInv
  <1>3. NewRun(s, pred, m, b).phase = "building"
    BY DEF NewRun
  <1> QED
    BY <1>1, <1>2, <1>3, AllocateInv

\* Sealing takes a building generation and its run past the commit together.
LEMMA CommitInv ==
    ASSUME CatalogInv, NEW s \in Sources, NEW n \in Seqs, CommitShadowIngest(s, n)
    PROVE  CatalogKept /\ RunsKept
  <1> DEFINE r == [run[s][n] EXCEPT !.phase = "sealed"]
  <1>1. r.phase = "sealed" /\ run[s][n].phase = "building"
    BY DEF CatalogInv, StoreTypeOK, Runs, CommitShadowIngest, SealInto, Committable
  <1>2. \A t \in Sources : \A k \in Seqs :
           /\ status'[t][k] = IF t = s /\ k = n THEN "sealed" ELSE status[t][k]
           /\ run'[t][k] = IF t = s /\ k = n THEN r ELSE run[t][k]
    BY DEF CommitShadowIngest, SealInto, CatalogInv, StoreTypeOK
  <1>3. status[s][n] = "building" /\ UNCHANGED <<nextSeq, pointer>>
    BY DEF CommitShadowIngest
  <1> HIDE DEF r
  <1>4. \A t \in Sources : \A k \in Seqs :
           /\ status'[t][k] = (IF t = s /\ k = n THEN "sealed" ELSE status[t][k])
           /\ run'[t][k].phase = (IF t = s /\ k = n THEN "sealed" ELSE run[t][k].phase)
    BY <1>1, <1>2
  <1>5. CatalogKept
    BY <1>1, <1>3, <1>4, SameNumbers
  <1>6. RunsKept
    BY <1>4 DEF RunsKept, SealedRunBehindEveryGeneration
  <1> QED
    BY <1>5, <1>6

\* Activation of n over the current pointer: the statuses stay past "building", and
\* n becomes active as the pointer reaches it.
LEMMA PromoteInv ==
    ASSUME CatalogInv, NEW s \in Sources, NEW n \in Seqs,
           status[s][n] \in Completed,
           status'[s] = Promote(status[s], pointer[s], n), pointer'[s] = n
    PROVE  \A k \in Seqs :
              /\ status'[s][k] = "absent" <=> status[s][k] = "absent"
              /\ status'[s][k] = "building" <=> status[s][k] = "building"
              /\ status'[s][k] = "active" <=> k = pointer'[s]
  <1>1. \A k \in Seqs : status'[s][k] = IF k = n THEN "active"
                                       ELSE IF k = pointer[s] THEN "superseded"
                                       ELSE status[s][k]
    BY DEF Promote
  <1>2. \A k \in Seqs : k = pointer[s] => status[s][k] = "active"
    BY DEF CatalogInv, PointerNamesTheActive
  <1> QED
    BY <1>1, <1>2 DEF CatalogInv, PointerNamesTheActive, Completed

\* A step that promotes a generation past "building" in each source of a set, over
\* the pointer of that source.
LEMMA PromotionsInv ==
    ASSUME CatalogInv, NEW S \in SUBSET Sources, NEW target, UNCHANGED <<nextSeq, run>>,
           \A s \in S : /\ target[s] \in Seqs
                        /\ status[s][target[s]] \in Completed
                        /\ status'[s] = Promote(status[s], pointer[s], target[s])
                        /\ pointer'[s] = target[s],
           \A s \in Sources \ S : status'[s] = status[s] /\ pointer'[s] = pointer[s]
    PROVE  CatalogKept /\ RunsKept
  <1>1. \A s \in Sources : \A k \in Seqs :
           /\ status'[s][k] = "absent" <=> status[s][k] = "absent"
           /\ status'[s][k] = "building" <=> status[s][k] = "building"
           /\ status'[s][k] = "active" <=> k = pointer'[s]
    <2>1. ASSUME NEW s \in S
          PROVE  \A k \in Seqs :
                    /\ status'[s][k] = "absent" <=> status[s][k] = "absent"
                    /\ status'[s][k] = "building" <=> status[s][k] = "building"
                    /\ status'[s][k] = "active" <=> k = pointer'[s]
      BY <2>1, PromoteInv
    <2>2. ASSUME NEW s \in Sources \ S
          PROVE  \A k \in Seqs : status'[s][k] = "active" <=> k = pointer'[s]
      BY <2>2 DEF CatalogInv, PointerNamesTheActive
    <2> QED
      BY <2>1, <2>2
  <1>2. CatalogKept
    BY <1>1 DEF CatalogInv, CatalogKept, NumbersAllocated, RunsHaveGenerations,
                PointerNamesTheActive
  <1>3. RunsKept
    BY <1>1, SamePhases
  <1> QED
    BY <1>2, <1>3

\* One source promotes n over its pointer.
LEMMA ActivateInv ==
    ASSUME CatalogInv, NEW s \in Sources, NEW n \in Seqs,
           UNCHANGED <<nextSeq, run>>,
           status[s][n] \in Completed,
           status' = [status EXCEPT ![s] = Promote(@, pointer[s], n)],
           pointer' = [pointer EXCEPT ![s] = n]
    PROVE  CatalogKept /\ RunsKept
  <1> DEFINE target == [t \in {s} |-> n]
  <1>1. status'[s] = Promote(status[s], pointer[s], n) /\ pointer'[s] = n
    BY DEF CatalogInv, StoreTypeOK
  <1>2. \A t \in Sources \ {s} : status'[t] = status[t] /\ pointer'[t] = pointer[t]
    BY DEF CatalogInv, StoreTypeOK
  <1>3. target[s] = n
    OBVIOUS
  <1>4. \A t \in {s} : /\ target[t] \in Seqs
                       /\ status[t][target[t]] \in Completed
                       /\ status'[t] = Promote(status[t], pointer[t], target[t])
                       /\ pointer'[t] = target[t]
    BY <1>1, <1>3
  <1>5. {s} \in SUBSET Sources
    OBVIOUS
  <1> HIDE DEF target
  <1> QED
    BY <1>2, <1>4, <1>5, PromotionsInv

LEMMA CandidateSetInv ==
    ASSUME CatalogInv, NEW target \in [Sources -> Seqs],
           NEW prior \in [Sources -> Seqs \cup {Null}],
           ActivateCandidateSet(target, prior)
    PROVE  CatalogKept /\ RunsKept
  <1>1. UNCHANGED <<nextSeq, run>>
    BY DEF ActivateCandidateSet
  <1>2. \A s \in registered :
           /\ s \in Sources /\ target[s] \in Seqs
           /\ status[s][target[s]] \in Completed
           /\ status'[s] = Promote(status[s], pointer[s], target[s])
           /\ pointer'[s] = target[s]
    BY DEF ActivateCandidateSet, Activatable, CatalogInv, StoreTypeOK, Completed, Statuses
  <1>3. \A s \in Sources \ registered : status'[s] = status[s] /\ pointer'[s] = pointer[s]
    BY DEF ActivateCandidateSet
  <1>4. registered \in SUBSET Sources
    BY DEF CatalogInv, StoreTypeOK
  <1> QED
    BY <1>1, <1>2, <1>3, <1>4, PromotionsInv

\* The calls of the writers.
LEMMA WriterKeeps ==
    ASSUME CatalogInv, WriterStep PROVE CatalogKept /\ RunsKept
  <1>2. ASSUME NEW s \in Sources, RegisterSource(s) PROVE CatalogKept /\ RunsKept
    BY <1>2, SameNumbers, SamePhases DEF RegisterSource
  <1>3. ASSUME NEW s \in Sources, RunStep(s) PROVE CatalogKept /\ RunsKept
    <2>2. ASSUME NEW n \in Seqs, NEW f \in Files, StageShadowItem(s, n, f)
          PROVE  CatalogKept /\ RunsKept
      <3>1. [run[s][n] EXCEPT !.staged = @ \cup {f}].phase = "building"
        BY <2>2 DEF StageShadowItem, CatalogInv, StoreTypeOK, Runs
      <3> QED
        BY <2>2, <3>1, UnsealedRunStep DEF StageShadowItem, Phases
    <2>4. ASSUME NEW n \in Seqs, CancelShadowIngest(s, n) PROVE CatalogKept /\ RunsKept
      <3>1. [run[s][n] EXCEPT !.phase = "cancelled"].phase = "cancelled"
        BY DEF CatalogInv, StoreTypeOK, Runs
      <3> QED
        BY <2>4, <3>1, UnsealedRunStep DEF CancelShadowIngest, Phases
    <2>5. ASSUME NEW n \in Seqs, CleanupAbandonedIngest(s, n)
          PROVE  CatalogKept /\ RunsKept
      <3>1. [run[s][n] EXCEPT !.phase = "abandoned"].phase = "abandoned"
        BY DEF CatalogInv, StoreTypeOK, Runs
      <3> QED
        BY <2>5, <3>1, UnsealedRunStep DEF CleanupAbandonedIngest, Phases
    <2> QED
      BY <1>3, <2>2, <2>4, <2>5, AllocateRunInv, CommitInv DEF RunStep
  <1>4. ASSUME NEW s \in Sources, LifecycleStep(s) PROVE CatalogKept /\ RunsKept
    <2> PICK n \in Seqs : \/ VerifyGeneration(s, n)
                          \/ MarkReleaseCandidate(s, n)
                          \/ RequalifyGeneration(s, n)
                          \/ QualifyReleaseCandidate(s, n)
                          \/ ReplaceReleaseCandidate(s, n)
      BY <1>4 DEF LifecycleStep
    <2>1. UNCHANGED <<nextSeq, pointer, run>>
      BY DEF VerifyGeneration, MarkReleaseCandidate, RequalifyGeneration,
             QualifyReleaseCandidate, ReplaceReleaseCandidate
    <2>2. \A t \in Sources \ {s} : status'[t] = status[t]
      BY DEF VerifyGeneration, MarkReleaseCandidate, RequalifyGeneration,
             QualifyReleaseCandidate, ReplaceReleaseCandidate, CatalogInv, StoreTypeOK
    <2>3. \A k \in Seqs : \/ status'[s][k] = status[s][k]
                          \/ /\ status[s][k] \in Completed \ {"active"}
                             /\ status'[s][k] \in Completed \ {"active"}
      BY DEF VerifyGeneration, MarkReleaseCandidate, RequalifyGeneration,
             QualifyReleaseCandidate, ReplaceReleaseCandidate, Qualifiable,
             ReleaseCandidates, CatalogInv, StoreTypeOK, Completed, Statuses
    <2> QED
      BY <2>1, <2>2, <2>3, CompletedStep
  <1>5. ASSUME PointerStep PROVE CatalogKept /\ RunsKept
    <2>1. ASSUME NEW s \in Sources, NEW n \in Seqs, NEW prior \in Seqs \cup {Null},
                 ActivateGeneration(s, n, prior)
          PROVE  CatalogKept /\ RunsKept
      <3>1. pointer[s] = prior /\ status[s][n] \in Completed
        BY <2>1 DEF ActivateGeneration, Activatable, Completed, Statuses
      <3>2. /\ UNCHANGED <<nextSeq, run>>
            /\ status' = [status EXCEPT ![s] = Promote(@, prior, n)]
            /\ pointer' = [pointer EXCEPT ![s] = n]
        BY <2>1 DEF ActivateGeneration
      <3> QED
        BY <3>1, <3>2, ActivateInv
    <2>2. ASSUME NEW s \in Sources, NEW n \in Seqs, NEW prior \in Seqs \cup {Null},
                 NEW number, ActivateRegularIngest(s, n, prior, number)
          PROVE  CatalogKept /\ RunsKept
      <3>1. pointer[s] = prior /\ status[s][n] \in Completed
        BY <2>2 DEF ActivateRegularIngest, Completed, Statuses
      <3>2. /\ UNCHANGED <<nextSeq, run>>
            /\ status' = [status EXCEPT ![s] = Promote(@, prior, n)]
            /\ pointer' = [pointer EXCEPT ![s] = n]
        BY <2>2 DEF ActivateRegularIngest
      <3> QED
        BY <3>1, <3>2, ActivateInv
    <2> QED
      BY <1>5, <2>1, <2>2, CandidateSetInv DEF PointerStep
  <1> QED
    BY <1>2, <1>3, <1>4, <1>5 DEF WriterStep

\* Direct calls keep numbers, runs and pointers, though not runs and generations
\* together.
LEMMA DirectKeeps ==
    ASSUME CatalogInv, NEW s \in Sources, DirectStep(s) PROVE CatalogKept
  <1>1. CASE AllocateGeneration(s)
    BY <1>1, NoRunType, AllocateInv DEF AllocateGeneration
  <1>2. CASE \E pred \in 0 .. nextSeq[s] - 1, m \in Manifests, b \in Builds :
                AllocateForcedRun(s, pred, m, b)
    BY <1>2, AllocateRunInv
  <1>3. ASSUME NEW n \in Seqs, SealGeneration(s, n) PROVE CatalogKept
    <2>1. \A t \in Sources : \A k \in Seqs :
             status'[t][k] = IF t = s /\ k = n THEN "sealed" ELSE status[t][k]
      BY <1>3 DEF SealGeneration, CatalogInv, StoreTypeOK
    <2> QED
      BY <1>3, <2>1, SameNumbers DEF SealGeneration
  <1>4. CASE UNCHANGED <<nextSeq, pointer, status, run>>
    BY <1>4, SameNumbers
  <1> QED
    BY <1>1, <1>2, <1>3, <1>4 DEF DirectStep, OpenMembership, CloseMembership

\* No step leaves the invariant of the catalogue ...
LEMMA CatalogStep == CatalogInv /\ [StoreNext]_storeVars => CatalogInv'
  <1> SUFFICES ASSUME CatalogInv, [StoreNext]_storeVars PROVE CatalogInv'
    OBVIOUS
  <1>t. StoreTypeOK'
    BY StepType DEF CatalogInv
  <1>1. CatalogKept
    <2>1. CASE UNCHANGED storeVars
      BY <2>1, SameNumbers DEF storeVars
    <2> QED
      BY <2>1, WriterKeeps, DirectKeeps DEF StoreNext
  <1> QED
    BY <1>t, <1>1 DEF CatalogInv, CatalogKept

\* ... and no call of a writer the stronger one.
LEMMA StepInv == StoreInv /\ [WriterStep]_storeVars => StoreInv'
  <1> SUFFICES ASSUME StoreInv, [WriterStep]_storeVars PROVE StoreInv'
    OBVIOUS
  <1>1. CatalogInv'
    BY StoreIsCatalog, CatalogStep DEF StoreNext
  <1>2. RunsKept
    <2>1. CASE UNCHANGED storeVars
      BY <2>1, SamePhases DEF storeVars
    <2> QED
      BY <2>1, WriterKeeps, StoreIsCatalog
  <1> QED
    BY <1>1, <1>2 DEF StoreInv, CatalogInv, RunsKept

\* The empty catalogue satisfies the invariants.
LEMMA InitInv == StoreInit => StoreInv
  BY InitType DEF StoreInit, StoreInv, NumbersAllocated, SealedRunBehindEveryGeneration,
                  PointerNamesTheActive, NoRun, Seqs, Null

LEMMA CatalogInvariant == StoreSpec => []CatalogInv
  BY InitInv, StoreIsCatalog, CatalogStep, PTL DEF StoreSpec

\* The deferred trigger never has to roll a transaction back: whatever functions
\* are called in whatever order, the pointer of a source and its only active
\* generation agree.
THEOREM PointerAgreement == StoreSpec => []PointerNamesTheActive
  BY CatalogInvariant, PTL DEF CatalogInv

------------------------------------------------------------------------------
(* Complete active sets.                                                    *)

\* No step takes a sealed run away.
LEMMA SealedStaysSealed ==
    ASSUME CatalogInv, [StoreNext]_storeVars, NEW s \in Sources, NEW n \in Seqs,
           run[s][n].phase = "sealed"
    PROVE  run'[s][n].phase = "sealed"
  <1>1. CASE UNCHANGED run
    BY <1>1
  <1>2. ASSUME NEW t \in Sources, NEW r, Allocates(t, r)
        PROVE  run'[s][n].phase = "sealed"
    <2>1. nextSeq[t] \in Seqs /\ ~(nextSeq[t] < nextSeq[t])
      BY <1>2, AllocatedNumber DEF CatalogInv, Seqs
    <2>2. status[t][nextSeq[t]] = "absent"
      BY <2>1 DEF CatalogInv, NumbersAllocated
    <2>3. ~(s = t /\ n = nextSeq[t])
      BY <2>1, <2>2 DEF CatalogInv, RunsHaveGenerations
    <2>4. run'[s][n] = run[s][n]
      BY <1>2, <2>1, <2>3 DEF Allocates, CatalogInv, StoreTypeOK
    <2> QED
      BY <2>4
  <1>3. ASSUME NEW t \in Sources, NEW k \in Seqs, NEW r,
               run[t][k].phase # "sealed" \/ r.phase = "sealed",
               run' = [run EXCEPT ![t][k] = r]
        PROVE  run'[s][n].phase = "sealed"
    <2>1. run'[s][n] = IF s = t /\ n = k THEN r ELSE run[s][n]
      BY <1>3 DEF CatalogInv, StoreTypeOK
    <2>2. CASE s = t /\ n = k
      BY <1>3, <2>1, <2>2
    <2>3. CASE ~(s = t /\ n = k)
      BY <2>1, <2>3
    <2> QED
      BY <2>2, <2>3
  <1>4. ASSUME NEW t \in Sources, RunStep(t) PROVE run'[s][n].phase = "sealed"
    <2>1. ASSUME NEW k \in Seqs, NEW f \in Files, StageShadowItem(t, k, f)
          PROVE  run'[s][n].phase = "sealed"
      BY <2>1, <1>3 DEF StageShadowItem
    <2>2. ASSUME NEW k \in Seqs, CommitShadowIngest(t, k)
          PROVE  run'[s][n].phase = "sealed"
      <3>1. [run[t][k] EXCEPT !.phase = "sealed"].phase = "sealed"
        BY DEF CatalogInv, StoreTypeOK, Runs
      <3> QED
        BY <2>2, <3>1, <1>3 DEF CommitShadowIngest, SealInto
    <2>3. ASSUME NEW k \in Seqs, CancelShadowIngest(t, k)
          PROVE  run'[s][n].phase = "sealed"
      BY <2>3, <1>3 DEF CancelShadowIngest
    <2>4. ASSUME NEW k \in Seqs, CleanupAbandonedIngest(t, k)
          PROVE  run'[s][n].phase = "sealed"
      BY <2>4, <1>3 DEF CleanupAbandonedIngest
    <2>5. CASE \E pred \in 0 .. nextSeq[t] - 1, m \in Manifests, b \in Builds :
                  AllocateRun(t, pred, m, b)
      BY <2>5, <1>2 DEF AllocateRun
    <2> QED
      BY <1>4, <2>1, <2>2, <2>3, <2>4, <2>5 DEF RunStep
  <1>5. ASSUME NEW t \in Sources, RegisterSource(t) PROVE UNCHANGED run
    BY <1>5 DEF RegisterSource
  <1>6. ASSUME NEW t \in Sources, LifecycleStep(t) PROVE UNCHANGED run
    BY <1>6 DEF LifecycleStep, VerifyGeneration, MarkReleaseCandidate,
                RequalifyGeneration, QualifyReleaseCandidate, ReplaceReleaseCandidate
  <1>7. ASSUME PointerStep PROVE UNCHANGED run
    BY <1>7 DEF PointerStep, ActivateGeneration, ActivateRegularIngest,
                ActivateCandidateSet
  <1>8. ASSUME NEW t \in Sources, DirectStep(t) PROVE run'[s][n].phase = "sealed"
    <2>1. CASE AllocateGeneration(t)
      BY <2>1, <1>2 DEF AllocateGeneration
    <2>2. CASE \E pred \in 0 .. nextSeq[t] - 1, m \in Manifests, b \in Builds :
                  AllocateForcedRun(t, pred, m, b)
      BY <2>2, <1>2 DEF AllocateForcedRun
    <2> QED
      BY <1>1, <1>8, <2>1, <2>2 DEF DirectStep, SealGeneration, OpenMembership,
                                   CloseMembership
  <1> QED
    BY <1>1, <1>4, <1>5, <1>6, <1>7, <1>8 DEF StoreNext, WriterStep, storeVars

\* Evidence is of sealed runs, and so are the generations the newest receipt names.
EvidenceIsOfIngests ==
    \A s \in Sources : \A n \in evidence[s] : run[s][n].phase = "sealed"

ReceiptsNameIngests ==
    activation.number # 0 =>
        \A s \in activation.covered :
            /\ activation.head[s] \in Seqs
            /\ run[s][activation.head[s]].phase = "sealed"

ServedInv ==
    /\ CatalogInv
    /\ EvidenceIsOfIngests
    /\ ReceiptsNameIngests

\* Registration, runs and direct calls write neither evidence nor receipts.
LEMMA OtherColumns ==
    ASSUME NEW s \in Sources, RegisterSource(s) \/ RunStep(s) \/ DirectStep(s)
    PROVE  UNCHANGED <<evidence, activation>>
  <1>1. CASE RegisterSource(s)
    BY <1>1 DEF RegisterSource
  <1>2. CASE RunStep(s)
    BY <1>2 DEF RunStep, AllocateRun, Allocates, StageShadowItem, CommitShadowIngest,
                CancelShadowIngest, CleanupAbandonedIngest
  <1>3. CASE DirectStep(s)
    BY <1>3 DEF DirectStep, AllocateGeneration, AllocateForcedRun, Allocates,
                SealGeneration, OpenMembership, CloseMembership
  <1> QED
    BY <1>1, <1>2, <1>3

\* Evidence is added by qualification only, for a generation whose run is sealed.
LEMMA EvidenceStep ==
    ASSUME ServedInv, [StoreNext]_storeVars PROVE EvidenceIsOfIngests'
  <1>t. \A s \in Sources : evidence[s] \subseteq Seqs
    BY DEF ServedInv, CatalogInv, StoreTypeOK
  <1>1. ASSUME UNCHANGED evidence PROVE EvidenceIsOfIngests'
    BY <1>1, <1>t, SealedStaysSealed DEF ServedInv, EvidenceIsOfIngests
  <1>2. ASSUME NEW s \in Sources, NEW n \in Seqs, run[s][n].phase = "sealed",
               evidence' = [evidence EXCEPT ![s] = @ \cup {n}]
        PROVE  EvidenceIsOfIngests'
    <2>1. \A t \in Sources : \A k \in evidence'[t] :
             k \in Seqs /\ run[t][k].phase = "sealed"
      BY <1>2, <1>t DEF ServedInv, EvidenceIsOfIngests, CatalogInv, StoreTypeOK
    <2> QED
      BY <2>1, SealedStaysSealed DEF EvidenceIsOfIngests, ServedInv
  <1>3. ASSUME NEW s \in Sources, LifecycleStep(s) PROVE EvidenceIsOfIngests'
    <2> PICK n \in Seqs : \/ VerifyGeneration(s, n)
                          \/ MarkReleaseCandidate(s, n)
                          \/ RequalifyGeneration(s, n)
                          \/ QualifyReleaseCandidate(s, n)
                          \/ ReplaceReleaseCandidate(s, n)
      BY <1>3 DEF LifecycleStep
    <2>1. CASE QualifyReleaseCandidate(s, n) \/ ReplaceReleaseCandidate(s, n)
      BY <2>1, <1>2 DEF QualifyReleaseCandidate, ReplaceReleaseCandidate, Qualifiable
    <2>2. CASE VerifyGeneration(s, n) \/ MarkReleaseCandidate(s, n)
               \/ RequalifyGeneration(s, n)
      <3>1. UNCHANGED evidence
        BY <2>2 DEF VerifyGeneration, MarkReleaseCandidate, RequalifyGeneration
      <3> QED
        BY <3>1, <1>1
    <2> QED
      BY <2>1, <2>2
  <1>4. ASSUME PointerStep PROVE UNCHANGED evidence
    BY <1>4 DEF PointerStep, ActivateGeneration, ActivateRegularIngest, ActivateCandidateSet
  <1>5. CASE UNCHANGED storeVars
    BY <1>1, <1>5 DEF storeVars
  <1> QED
    BY <1>1, <1>3, <1>4, <1>5, OtherColumns DEF StoreNext, WriterStep

\* A set activation writes a receipt of qualified generations; an ordinary ingest
\* extends a receipt that agreed with every pointer by one sealed run.
LEMMA ReceiptStep ==
    ASSUME ServedInv, [StoreNext]_storeVars PROVE ReceiptsNameIngests'
  <1>t. activation.covered \subseteq Sources
    BY DEF ServedInv, CatalogInv, StoreTypeOK, Activations
  <1>c. CatalogInv
    BY DEF ServedInv
  <1>1. ASSUME UNCHANGED activation PROVE ReceiptsNameIngests'
    <2> SUFFICES ASSUME activation.number # 0, NEW s \in activation.covered
                 PROVE  /\ activation.head[s] \in Seqs
                        /\ run'[s][activation.head[s]].phase = "sealed"
      BY <1>1 DEF ReceiptsNameIngests
    <2>1. activation.head[s] \in Seqs /\ run[s][activation.head[s]].phase = "sealed"
      BY DEF ServedInv, ReceiptsNameIngests
    <2> QED
      BY <1>t, <1>c, <2>1, SealedStaysSealed
  <1>2. ASSUME NEW s \in Sources, NEW n \in Seqs, NEW prior \in Seqs \cup {Null},
               NEW number \in 1 .. MaxActivations, ActivateRegularIngest(s, n, prior, number)
        PROVE  ReceiptsNameIngests'
    <2>1. /\ CompleteActiveSet(number)
          /\ run[s][n].phase = "sealed" /\ UNCHANGED run
          /\ pointer' = [pointer EXCEPT ![s] = n]
          /\ activation' = [activation EXCEPT !.head = pointer']
      BY <1>2 DEF ActivateRegularIngest
    <2>2. activation.number # 0 /\ activation.head = pointer
      BY <2>1 DEF CompleteActiveSet
    <2>3. activation'.covered = activation.covered /\ activation'.head = pointer'
      BY <2>1 DEF ServedInv, CatalogInv, StoreTypeOK, Activations
    <2> SUFFICES ASSUME NEW t \in activation.covered
                 PROVE  pointer'[t] \in Seqs /\ run'[t][pointer'[t]].phase = "sealed"
      BY <2>3 DEF ReceiptsNameIngests
    <2>4. pointer[t] \in Seqs /\ run[t][pointer[t]].phase = "sealed"
      BY <2>2 DEF ServedInv, ReceiptsNameIngests
    <2>5. pointer'[t] = IF t = s THEN n ELSE pointer[t]
      BY <1>t, <2>1 DEF ServedInv, CatalogInv, StoreTypeOK
    <2> QED
      BY <2>1, <2>4, <2>5
  <1>3. ASSUME NEW target \in [Sources -> Seqs], NEW prior \in [Sources -> Seqs \cup {Null}],
               ActivateCandidateSet(target, prior)
        PROVE  ReceiptsNameIngests'
    <2>1. /\ activation'.covered = registered /\ activation'.head = pointer'
          /\ UNCHANGED run
      BY <1>3 DEF ActivateCandidateSet
    <2>2. \A s \in registered : s \in Sources /\ pointer'[s] = target[s]
                                /\ target[s] \in evidence[s]
      BY <1>3 DEF ActivateCandidateSet, ServedInv, CatalogInv, StoreTypeOK
    <2> QED
      BY <2>1, <2>2 DEF ReceiptsNameIngests, ServedInv, EvidenceIsOfIngests
  <1>4. ASSUME NEW s \in Sources, NEW n \in Seqs, NEW prior, ActivateGeneration(s, n, prior)
        PROVE  UNCHANGED activation
    BY <1>4 DEF ActivateGeneration
  <1>5. CASE PointerStep
    <2>1. CASE \E s \in Sources, n \in Seqs, prior \in Seqs \cup {Null} :
                  ActivateGeneration(s, n, prior)
      <3>1. UNCHANGED activation
        BY <2>1, <1>4
      <3> QED
        BY <3>1, <1>1
    <2>2. CASE \E s \in Sources, n \in Seqs, prior \in Seqs \cup {Null} :
                  \E number \in 1 .. MaxActivations :
                     ActivateRegularIngest(s, n, prior, number)
      BY <2>2, <1>2
    <2>3. CASE \E target \in [Sources -> Seqs], prior \in [Sources -> Seqs \cup {Null}] :
                  ActivateCandidateSet(target, prior)
      BY <2>3, <1>3
    <2> QED
      BY <1>5, <2>1, <2>2, <2>3 DEF PointerStep
  <1>6. ASSUME NEW s \in Sources, LifecycleStep(s) PROVE UNCHANGED activation
    BY <1>6 DEF LifecycleStep, VerifyGeneration, MarkReleaseCandidate, RequalifyGeneration,
                QualifyReleaseCandidate, ReplaceReleaseCandidate
  <1>7. CASE UNCHANGED storeVars
    BY <1>1, <1>7 DEF storeVars
  <1> QED
    BY <1>1, <1>5, <1>6, <1>7, OtherColumns DEF StoreNext, WriterStep

LEMMA ServedInit == StoreInit => ServedInv
  BY InitInv, StoreIsCatalog DEF StoreInit, ServedInv, EvidenceIsOfIngests,
                                 ReceiptsNameIngests

\* Readers are admitted to ingested generations only, whatever is allocated, sealed,
\* marked, activated and requalified outside of an ingest.
THEOREM ServedSetsAreIngested == StoreSpec => []ServedSetsWereIngested
  <1>1. StoreInit => ServedInv
    BY ServedInit
  <1>2. ServedInv /\ [StoreNext]_storeVars => ServedInv'
    BY CatalogStep, EvidenceStep, ReceiptStep DEF ServedInv
  <1>3. ServedInv => ServedSetsWereIngested
    BY DEF ServedInv, ReceiptsNameIngests, ServedSetsWereIngested, CompleteActiveSet
  <1> QED
    BY <1>1, <1>2, <1>3, PTL DEF StoreSpec

------------------------------------------------------------------------------
(* Settled generations.                                                     *)

\* The versions the rows M show to generation n.
ShownBy(M, n) == {m.version : m \in VisibleRows(M, n)}

\* Rows that agree up to boundaries above k show the same to generation k.
LEMMA SameBelow ==
    ASSUME NEW M, NEW D, NEW k,
           \A m \in D : LiveAt(m, k) => \E x \in M : LiveAt(x, k) /\ x.version = m.version,
           \A x \in M : LiveAt(x, k) => \E m \in D : LiveAt(m, k) /\ m.version = x.version
    PROVE  ShownBy(D, k) = ShownBy(M, k)
  <1>1. {m.version : m \in VisibleRows(D, k)} \subseteq {m.version : m \in VisibleRows(M, k)}
    BY DEF VisibleRows
  <1>2. {m.version : m \in VisibleRows(M, k)} \subseteq {m.version : m \in VisibleRows(D, k)}
    BY DEF VisibleRows
  <1> QED
    BY <1>1, <1>2 DEF ShownBy

\* An open row closed above k still shows at k what it showed.
LEMMA ClosedAbove ==
    ASSUME NEW x \in Memberships, x.to = Null, NEW n \in Seqs, NEW k \in Seqs, k < n
    PROVE  /\ LiveAt([x EXCEPT !.to = n], k) <=> LiveAt(x, k)
           /\ [x EXCEPT !.to = n].version = x.version
  <1>1. /\ [x EXCEPT !.to = n].from = x.from /\ [x EXCEPT !.to = n].to = n
        /\ [x EXCEPT !.to = n].version = x.version
    BY DEF Memberships
  <1>2. k \in Nat /\ n \in Nat
    BY DEF Seqs
  <1> QED
    BY <1>1, <1>2 DEF LiveAt

\* A commit at n changes nothing for a generation before n.
LEMMA DeltaKeeps ==
    ASSUME NEW M \in SUBSET Memberships, NEW V, NEW n \in Seqs, NEW k \in Seqs, k < n
    PROVE  ShownBy(Delta(M, V, n), k) = ShownBy(M, k)
  <1> DEFINE D == Delta(M, V, n)
  <1>n. n \in Nat /\ k \in Nat /\ ~(n <= k)
    BY DEF Seqs
  <1>d. \A x \in Displaced(M, V) : x \in M /\ x \in Memberships /\ x.to = Null
    BY DEF Displaced
  <1>1. ASSUME NEW m \in D, LiveAt(m, k)
        PROVE  \E x \in M : LiveAt(x, k) /\ x.version = m.version
    <2>1. CASE m \in M
      BY <1>1, <2>1
    <2>2. ASSUME NEW x \in Displaced(M, V), m = [x EXCEPT !.to = n]
          PROVE  x \in M /\ LiveAt(x, k) /\ x.version = m.version
      BY <1>1, <1>d, <2>2, ClosedAbove
    <2>3. CASE m \in Opened(Closed(M, V, n), V, n)
      <3>1. m.from = n
        BY <2>3 DEF Opened
      <3> QED
        BY <1>n, <1>1, <3>1 DEF LiveAt
    <2> QED
      BY <2>1, <2>2, <2>3 DEF Delta, Closed
  <1>2. ASSUME NEW x \in M, LiveAt(x, k)
        PROVE  \E m \in D : LiveAt(m, k) /\ m.version = x.version
    <2>1. CASE x \notin Displaced(M, V)
      <3>1. x \in D
        BY <2>1 DEF Delta, Closed
      <3> QED
        BY <1>2, <3>1
    <2>2. CASE x \in Displaced(M, V)
      <3>1. [x EXCEPT !.to = n] \in D
        BY <2>2 DEF Delta, Closed
      <3> QED
        BY <1>2, <1>d, <2>2, <3>1, ClosedAbove
    <2> QED
      BY <2>1, <2>2
  <1> HIDE DEF D
  <1>3. ShownBy(D, k) = ShownBy(M, k)
    BY <1>1, <1>2, SameBelow
  <1> QED
    BY <1>3 DEF D

\* Rows change by a commit, an insertion or a closing, each at a building generation.
LEMMA RowsChangeAtBuilding ==
    ASSUME [StoreNext]_storeVars, UNCHANGED members => FALSE
    PROVE  \E s \in Sources, n \in Seqs :
              \/ CommitShadowIngest(s, n)
              \/ \E v \in Versions, to \in Seqs \cup {Null} : OpenMembership(s, v, n, to)
              \/ \E m \in members[s] : CloseMembership(s, m, n)
  BY DEF StoreNext, storeVars, WriterStep, RegisterSource, RunStep, AllocateRun, Allocates,
         StageShadowItem, CancelShadowIngest, CleanupAbandonedIngest, LifecycleStep,
         VerifyGeneration, MarkReleaseCandidate, RequalifyGeneration,
         QualifyReleaseCandidate, ReplaceReleaseCandidate, PointerStep, ActivateGeneration,
         ActivateRegularIngest, ActivateCandidateSet, DirectStep, AllocateGeneration,
         AllocateForcedRun, SealGeneration

LEMMA SettledStep ==
    ASSUME StoreTypeOK, [StoreNext]_storeVars, NEW s \in Sources, NEW k \in Seqs,
           Settled(s, k)
    PROVE  Visible(s, k)' = Visible(s, k)
  <1>m. members[s] \in SUBSET Memberships
    BY DEF StoreTypeOK
  <1>g. \A m \in members[s] : m \in Memberships
    BY <1>m
  <1>v. Visible(s, k) = ShownBy(members[s], k) /\ Visible(s, k)' = ShownBy(members'[s], k)
    BY DEF Visible, ShownBy
  <1>1. CASE members'[s] = members[s]
    BY <1>v, <1>1
  <1>2. CASE members'[s] # members[s]
    <2>1. PICK t \in Sources, n \in Seqs :
             \/ CommitShadowIngest(t, n)
             \/ \E v \in Versions, to \in Seqs \cup {Null} : OpenMembership(t, v, n, to)
             \/ \E m \in members[t] : CloseMembership(t, m, n)
      BY <1>2, RowsChangeAtBuilding
    <2>2. t = s
      BY <1>2, <2>1 DEF CommitShadowIngest, SealInto, OpenMembership, CloseMembership,
                        StoreTypeOK
    <2>3. status[s][n] = "building"
      BY <2>1, <2>2 DEF CommitShadowIngest, OpenMembership, CloseMembership
    <2>4. k \in Nat /\ n \in Nat /\ k < n /\ ~(n <= k)
      BY <2>3 DEF Settled, Seqs
    <2>5. CASE CommitShadowIngest(s, n)
      <3>1. members'[s] = Delta(members[s], StagedVersions(run[s][n]), n)
        BY <2>5 DEF CommitShadowIngest, SealInto, StoreTypeOK
      <3> QED
        BY <1>m, <1>v, <2>4, <3>1, DeltaKeeps
    <2>6. ASSUME NEW v \in Versions, NEW to \in Seqs \cup {Null}, OpenMembership(s, v, n, to)
          PROVE  ShownBy(members'[s], k) = ShownBy(members[s], k)
      <3>1. members'[s] = members[s] \cup {[version |-> v, from |-> n, to |-> to]}
        BY <2>6 DEF OpenMembership, StoreTypeOK
      <3>2. ~LiveAt([version |-> v, from |-> n, to |-> to], k)
        BY <2>4 DEF LiveAt
      <3> QED
        BY <3>1, <3>2, SameBelow
    <2>7. ASSUME NEW m \in members[s], CloseMembership(s, m, n)
          PROVE  ShownBy(members'[s], k) = ShownBy(members[s], k)
      <3> DEFINE c == [m EXCEPT !.to = n]
      <3>1. members'[s] = (members[s] \ {m}) \cup {c}
        BY <2>7 DEF CloseMembership, StoreTypeOK
      <3>2. (LiveAt(c, k) <=> LiveAt(m, k)) /\ c.version = m.version
        BY <1>g, <2>4, <2>7, ClosedAbove DEF CloseMembership
      <3> HIDE DEF c
      <3> QED
        BY <3>1, <3>2, SameBelow
    <2> QED
      BY <1>v, <2>1, <2>2, <2>5, <2>6, <2>7
  <1> QED
    BY <1>1, <1>2

\* Nothing that any caller does revises what a settled generation shows.
THEOREM SettledIsFixed == StoreSpec => SettledGenerationsAreFixed
  <1>1. StoreTypeOK /\ [StoreNext]_storeVars =>
           [\A s \in Sources : \A n \in Seqs :
               Settled(s, n) => Visible(s, n)' = Visible(s, n)]_storeVars
    BY SettledStep
  <1> QED
    BY <1>1, TypeCorrect, PTL DEF StoreSpec, SettledGenerationsAreFixed

------------------------------------------------------------------------------
(* Membership intervals under the calls of the writers.                     *)

\* Membership rows begin and end at generations whose run is sealed.  True of what
\* the writers call; a row inserted or closed on its own is the exception.
BoundariesAreSealed ==
    \A s \in Sources : \A m \in members[s] :
        /\ run[s][m.from].phase = "sealed"
        /\ m.to # Null => run[s][m.to].phase = "sealed"

\* Every interval of a commit's delta begins and ends where one did before, or at
\* the generation being sealed.
LEMMA DeltaBoundaries ==
    ASSUME NEW M \in SUBSET Memberships, NEW V, NEW n \in Seqs,
           NEW m \in Delta(M, V, n)
    PROVE  /\ m.from = n \/ \E k \in M : m.from = k.from
           /\ m.to = Null \/ m.to = n \/ \E k \in M : m.to = k.to
  <1>1. CASE m \in M
    BY <1>1
  <1>2. CASE m \in {[k EXCEPT !.to = n] : k \in Displaced(M, V)}
    <2>1. PICK k \in M : m = [k EXCEPT !.to = n]
      BY <1>2 DEF Displaced
    <2>2. m.from = k.from /\ m.to = n
      BY <2>1 DEF Memberships
    <2> QED
      BY <2>2
  <1>3. CASE m \in Opened(Closed(M, V, n), V, n)
    BY <1>3 DEF Opened
  <1> QED
    BY <1>1, <1>2, <1>3 DEF Delta, Closed

\* A call of a writer that is not a commit leaves the rows alone.
LEMMA RowsChangeByCommit ==
    ASSUME [WriterStep]_storeVars, UNCHANGED members => FALSE
    PROVE  \E s \in Sources, n \in Seqs : CommitShadowIngest(s, n)
  BY DEF WriterStep, storeVars, RegisterSource, RunStep, AllocateRun, Allocates,
         StageShadowItem, CancelShadowIngest, CleanupAbandonedIngest, LifecycleStep,
         VerifyGeneration, MarkReleaseCandidate, RequalifyGeneration,
         QualifyReleaseCandidate, ReplaceReleaseCandidate, PointerStep,
         ActivateGeneration, ActivateRegularIngest, ActivateCandidateSet

LEMMA BoundaryStep ==
    StoreInv /\ BoundariesAreSealed /\ [WriterStep]_storeVars => BoundariesAreSealed'
  <1> SUFFICES ASSUME StoreInv, BoundariesAreSealed, [WriterStep]_storeVars,
                      NEW t \in Sources, NEW m \in members'[t]
               PROVE  /\ run'[t][m.from].phase = "sealed"
                      /\ m.to # Null => run'[t][m.to].phase = "sealed"
    BY DEF BoundariesAreSealed
  <1>t. members[t] \in SUBSET Memberships
    BY DEF StoreInv, StoreTypeOK
  <1>1. ASSUME NEW k \in members[t]
        PROVE  /\ run'[t][k.from].phase = "sealed"
               /\ k.to # Null => run'[t][k.to].phase = "sealed"
    <2>1. k.from \in Seqs /\ k.to \in Seqs \cup {Null}
      BY <1>t, <1>1 DEF Memberships
    <2>2. /\ run[t][k.from].phase = "sealed"
          /\ k.to # Null => run[t][k.to].phase = "sealed"
      BY <1>1 DEF BoundariesAreSealed
    <2> QED
      BY <2>1, <2>2, SealedStaysSealed, StoreIsCatalog DEF StoreNext
  <1>2. CASE m \in members[t]
    BY <1>1, <1>2
  <1>3. CASE m \notin members[t]
    <2>1. PICK s \in Sources, n \in Seqs : CommitShadowIngest(s, n)
      BY <1>3, RowsChangeByCommit
    <2>2. members' = [members EXCEPT ![s] = Delta(@, StagedVersions(run[s][n]), n)]
      BY <2>1 DEF CommitShadowIngest, SealInto
    <2>3. s = t /\ m \in Delta(members[t], StagedVersions(run[s][n]), n)
      BY <1>3, <2>2 DEF StoreInv, StoreTypeOK
    <2>4. run'[t][n].phase = "sealed"
      <3>1. run' = [run EXCEPT ![s][n] = [run[s][n] EXCEPT !.phase = "sealed"]]
        BY <2>1 DEF CommitShadowIngest, SealInto
      <3>2. run'[t][n] = [run[s][n] EXCEPT !.phase = "sealed"]
        BY <2>3, <3>1 DEF StoreInv, StoreTypeOK
      <3> QED
        BY <2>3, <3>2 DEF StoreInv, StoreTypeOK, Runs
    <2>5. /\ m.from = n \/ \E k \in members[t] : m.from = k.from
          /\ m.to = Null \/ m.to = n \/ \E k \in members[t] : m.to = k.to
      BY <1>t, <2>3, DeltaBoundaries
    <2> QED
      BY <1>1, <2>4, <2>5
  <1> QED
    BY <1>2, <1>3

LEMMA BoundaryInit == StoreInit => BoundariesAreSealed
  BY DEF StoreInit, BoundariesAreSealed
==============================================================================
