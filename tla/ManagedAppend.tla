---------------------------- MODULE ManagedAppend ----------------------------
(***************************************************************************)
(* Managed append sources: a producer publishes immutable segments under an  *)
(* append-only manifest (tools/managed_append.py), and a build trusts the     *)
(* prefix that a frontier row says was verified (api/src/plugins/             *)
(* managed_append.rs, the managed_append branches of shadow_slice.rs and        *)
(* active_ingest.rs, migrations 063 and 065).                                 *)
(*                                                                          *)
(* This is the ingest protocol for sources of that type: a file is a segment,   *)
(* and a manifest the set of the segments it lists.  Its actions are those of    *)
(* IngestProtocol with what a managed source adds in the same transaction.      *)
(* The chain over a manifest is a digest, so it stands for the manifest.        *)
(***************************************************************************)
EXTENDS IngestProtocol

CONSTANTS
    EpochOf,    \* the epoch of the root a segment was written under
    FullEvery,  \* DEFAULT_FULL_COMPARE_EVERY
    MaxDamage   \* bound: segments whose bytes change on disk

EpochsOf(m) == {EpochOf[f] : f \in m}

\* A manifest is never empty here: a producer has appended at least once.  Two
\* releases may have two adapter profiles; fixture slices are left out.
ASSUME AppendAssumption ==
    /\ \A m \in Manifests : m # {} /\ Cardinality(EpochsOf(m)) = 1
    /\ FullEvery \in Nat \ {0}
    /\ MaxDamage \in Nat
    /\ FixtureBuilds = {}

VARIABLES
    frontier,  \* storage_v2_managed_append_frontier, per source and profile
    basis,     \* what each writer took from the frontier when it began
    damaged,   \* segments on disk whose bytes no longer have their digest
    unnoticed  \* generations sealed over damage since it occurred (observability)

appendVars == <<frontier, basis, damaged, unnoticed>>

NoFrontier == [seq |-> Null, segments |-> {}, appends |-> 0]
NoBasis == [prior |-> Null, prefix |-> {}, full |-> TRUE]

AppendTypeOK ==
    /\ TypeOK
    /\ frontier \in [Sources -> [Profiles ->
          [seq : Seqs \cup {Null}, segments : Manifests \cup {{}},
           appends : 0 .. FullEvery - 1]]]
    /\ basis \in [Writers ->
          [prior : Seqs \cup {Null}, prefix : Manifests \cup {{}}, full : BOOLEAN]]
    /\ damaged \subseteq Files
    /\ unnoticed \in [Sources -> Nat]

AppendInit ==
    /\ Init
    /\ frontier = [s \in Sources |-> [p \in Profiles |-> NoFrontier]]
    /\ basis = [w \in Writers |-> NoBasis]
    /\ damaged = {}
    /\ unnoticed = [s \in Sources |-> 0]

------------------------------------------------------------------------------
(* The root of a source.                                                    *)

\* The producer: the segment is on disk before the manifest that lists it takes
\* the place of the old one.  A crash in between leaves a segment that no
\* manifest lists, which changes nothing a reader sees.
Append(s) ==
    \E m \in Manifests :
        /\ disk[s] \subseteq m
        /\ Cardinality(m) = Cardinality(disk[s]) + 1
        /\ ChangeDisk(s, m)
        /\ UNCHANGED appendVars

\* Outside of the contract: another manifest, of the same epoch or of a new one.
Replace(s, m) ==
    /\ ChangeDisk(s, m)
    /\ UNCHANGED appendVars

\* Outside of the contract: an edit of a segment that keeps its size.
Damage(s, f) ==
    /\ f \in disk[s] \ damaged
    /\ Cardinality(damaged) < MaxDamage
    /\ damaged' = damaged \cup {f}
    /\ UNCHANGED <<vars, frontier, basis, unnoticed>>

\* Mutant: the prefix is not looked at.
ReadableAnew(s, prefix, full) ==
    (IF full THEN disk[s] ELSE disk[s] \ prefix) \cap damaged = {}

\* read_snapshot: the manifest continues the trusted prefix, and the bytes of the
\* segments after it, or of all, have their digests.
Readable(s, prefix, full) ==
    /\ prefix \subseteq disk[s]
    /\ (IF full THEN disk[s] ELSE disk[s] \ prefix) \cap damaged = {}

------------------------------------------------------------------------------
(* The frontier.                                                            *)

Trusted(s, n) == n # Null /\ status[s][n] \in {"verified", "release_candidate", "active"}

\* The row, if its generation still stands.
Known(s, p) ==
    IF Trusted(s, frontier[s][p].seq) THEN frontier[s][p] ELSE NoFrontier

\* Mutant: one delta more.
FullDueLate(s, f) ==
    \/ f.seq = Null
    \/ f.seq # NewestSealed(s)
    \/ f.appends >= FullEvery

\* Whether a build compares all bytes.
FullDue(s, f) ==
    \/ f.seq = Null
    \/ f.seq # NewestSealed(s)
    \/ f.appends + 1 >= FullEvery

Basis(s, b) ==
    LET f == Known(s, ProfileOf[b])
    IN  [prior |-> f.seq, prefix |-> f.segments, full |-> FullDue(s, f)]

\* managed_prefix of an ordinary ingest: the frontier is that of generation n or of
\* a verified one that was built on n.
Bound(s, p, n) ==
    LET k == Known(s, p).seq
    IN  /\ k # Null
        /\ k = n \/ (status[s][k] = "verified" /\ run[s][k].expected = n)

ActiveProfile(s) == ProfileOf[run[s][pointer[s]].build]

OrdinaryObserves(s) ==
    /\ Bound(s, ActiveProfile(s), pointer[s])
    /\ Readable(s, Known(s, ActiveProfile(s)).segments, FALSE)

\* What a build of s by b reads before it begins a run.
Observes(w, s, b) ==
    LET o == Basis(s, b)
    IN  /\ b \in NativeBuilds => OrdinaryObserves(s)
        /\ Readable(s, o.prefix, o.full)
        /\ basis' = [basis EXCEPT ![w] = o]

\* storage_v2_copy_managed_append_prefix: the items of the prior run, which is the
\* newest sealed one, when a delta build has nothing staged yet.
Copied(s, o, staged) ==
    IF ~o.full /\ staged = {} /\ o.prior = NewestSealed(s) THEN o.prefix ELSE {}

CopyAccepted(s, p, o, staged) ==
    Copied(s, o, staged) # {} =>
        /\ Known(s, p).seq = o.prior
        /\ NewestSealed(s) = o.prior
        /\ run[s][o.prior].staged = o.prefix

\* Mutant: the count is never reset.
PublishWithoutReset(s, p, n, o, m) ==
    LET f == frontier[s][p]
    IN  /\ \A k \in SealedRuns(s) : k <= n
        /\ IF f.seq = Null
           THEN o.prior = Null /\ o.full
           ELSE /\ o.prior = f.seq
                /\ EpochsOf(m) = EpochsOf(f.segments)
                /\ Cardinality(m) >= Cardinality(f.segments)
        /\ frontier' = [frontier EXCEPT ![s][p] =
              [seq |-> n, segments |-> m, appends |-> f.appends + 1]]

\* Mutant: only a full comparison moves the row.
PublishFullOnly(s, p, n, o, m) ==
    LET f == frontier[s][p]
    IN  IF f.seq = Null \/ o.full
        THEN frontier' = [frontier EXCEPT ![s][p] =
                [seq |-> n, segments |-> m, appends |-> 0]]
        ELSE frontier' = [frontier EXCEPT ![s][p].appends = @ + 1]

\* storage_v2_publish_managed_append_frontier, in the transaction that seals n.
Publish(s, p, n, o, m) ==
    LET f == frontier[s][p]
    IN  /\ \A k \in SealedRuns(s) : k <= n
        /\ IF f.seq = Null
           THEN o.prior = Null /\ o.full
           ELSE /\ o.prior = f.seq
                /\ EpochsOf(m) = EpochsOf(f.segments)
                /\ Cardinality(m) >= Cardinality(f.segments)
        /\ frontier' = [frontier EXCEPT ![s][p] =
              [seq |-> n, segments |-> m,
               appends |-> IF o.full THEN 0 ELSE f.appends + 1]]

------------------------------------------------------------------------------
(* Sessions.                                                                *)

\* As BeginFresh, with the verified prefix staged in the same transaction.
BeginAppend(w, s, b) ==
    /\ SessionAdmitted(w, s, b)
    /\ Observes(w, s, b)
    /\ LET n == nextSeq[s]
           pred == NewestSealed(s)
           o == Basis(s, b)
       IN  /\ KeyedRuns(s, pred, disk[s], b) = {}
           /\ ~Reusable(s, disk[s], b)
           /\ n <= MaxSeq
           /\ CopyAccepted(s, ProfileOf[b], o, {})
           /\ nextSeq' = [nextSeq EXCEPT ![s] = @ + 1]
           /\ status' = [status EXCEPT ![s][n] = "building"]
           /\ run' = [run EXCEPT ![s][n] =
                        [NewRun(s, pred, disk[s], b) EXCEPT !.staged = Copied(s, o, {})]]
           /\ session' = [session EXCEPT ![w] = Opening(s, b, "building", n)]
    /\ UNCHANGED <<registered, pointer, members, evidence, activation, receipted,
                   disk, plan, frontier, damaged, unnoticed>>

\* Mutant: a run with a copied prefix is not resumed.
ResumeAppendFresh(w, s, b) ==
    /\ SessionAdmitted(w, s, b)
    /\ Observes(w, s, b)
    /\ \E n \in KeyedRuns(s, NewestSealed(s), disk[s], b) :
          /\ run[s][n].phase = "building"
          /\ run[s][n].staged = {}
          /\ session' = [session EXCEPT ![w] = Opening(s, b, "building", n)]
    /\ UNCHANGED <<storeVars, disk, plan, frontier, damaged, unnoticed>>

\* As ResumeRun: what was checkpointed before is kept, and the prefix is copied
\* only where nothing was.
ResumeAppend(w, s, b) ==
    /\ SessionAdmitted(w, s, b)
    /\ Observes(w, s, b)
    /\ \E n \in KeyedRuns(s, NewestSealed(s), disk[s], b) :
          LET staged == run[s][n].staged
              o == Basis(s, b)
          IN  /\ run[s][n].phase = "building"
              /\ staged \subseteq disk[s]
              /\ CopyAccepted(s, ProfileOf[b], o, staged)
              /\ run' = [run EXCEPT ![s][n].staged = @ \cup Copied(s, o, staged)]
              /\ session' = [session EXCEPT ![w] = Opening(s, b, "building", n)]
    /\ UNCHANGED <<registered, nextSeq, pointer, status, members, evidence, activation,
                   receipted, disk, plan, frontier, damaged, unnoticed>>

\* The answered generation has its frontier: no run is sealed without one.
ReuseAppend(w, s, b) ==
    /\ ReuseGeneration(w, s, b)
    /\ Observes(w, s, b)
    /\ Known(s, ProfileOf[b]).seq = BeginAnswer(s, NewestSealed(s), disk[s], b)
    /\ UNCHANGED <<frontier, damaged, unnoticed>>

\* The bytes that are stored are read and hashed again.
StageSegment(w) ==
    /\ CheckpointItem(w)
    /\ LET s == session[w].src
           n == session[w].seq
       IN  (run'[s][n].staged \ run[s][n].staged) \cap damaged = {}
    /\ UNCHANGED appendVars

Tally(s, m) ==
    [unnoticed EXCEPT ![s] = IF m \cap damaged = {} THEN 0 ELSE @ + 1]

\* The root is read as at the beginning, and the frontier moves with the seal.
SealAppend(w) ==
    /\ SealBuild(w)
    /\ LET s == session[w].src
           m == session[w].manifest
       IN  /\ Readable(s, basis[w].prefix, basis[w].full)
           /\ Publish(s, ProfileOf[session[w].build], session[w].seq, basis[w], m)
           /\ unnoticed' = Tally(s, m)
    /\ UNCHANGED <<basis, damaged>>

\* The root is read once more before the pointer moves ...
ObserveAppend(w) ==
    /\ ObserveAgain(w)
    /\ LET s == session[w].src
           p == ProfileOf[run[s][session[w].seq].build]
       IN  /\ Bound(s, p, session[w].seq)
           /\ Readable(s, Known(s, p).segments, FALSE)
    /\ UNCHANGED appendVars

\* ... but not when it does.
CommitAppend(w) ==
    /\ CommitActive(w)
    /\ UNCHANGED appendVars

AbortAppend(w) ==
    /\ Abort(w)
    /\ UNCHANGED appendVars

------------------------------------------------------------------------------
AppendBuildStep(w) ==
    \/ \E s \in Sources, b \in Builds : \/ BeginAppend(w, s, b)
                                        \/ ResumeAppend(w, s, b)
                                        \/ ReuseAppend(w, s, b)
    \/ StageSegment(w)
    \/ SealAppend(w)
    \/ ObserveAppend(w)
    \/ CommitAppend(w)
    \/ AbortAppend(w)

RootStep ==
    \E s \in Sources : \/ Append(s)
                       \/ \E m \in Manifests : Replace(s, m)
                       \/ \E f \in Files : Damage(s, f)

AppendNext ==
    \/ RootStep
    \/ \E w \in Writers : AppendBuildStep(w)
    \/ OperatorStep /\ UNCHANGED appendVars

allVars == <<vars, appendVars>>

AppendSpec == AppendInit /\ [][AppendNext]_allVars

\* The fairness of IngestProtocol, of the steps as they are here.
AppendFairness ==
    \A w \in Writers :
        /\ WF_allVars(AbortAppend(w))
        /\ SF_allVars(\E s \in Sources, b \in NativeBuilds :
              BeginAppend(w, s, b) \/ ResumeAppend(w, s, b) \/ ReuseAppend(w, s, b))
        /\ SF_allVars(StageSegment(w))
        /\ SF_allVars(SealAppend(w))
        /\ SF_allVars(ObserveAppend(w))
        /\ SF_allVars(CommitAppend(w))

AppendFairSpec == AppendSpec /\ AppendFairness

------------------------------------------------------------------------------
(* Properties.                                                              *)

SealedWith(s, p) == {n \in SealedRuns(s) : ProfileOf[run[s][n].build] = p}

\* The frontier is neither behind the sealed runs of its profile nor ahead of
\* them: it names the newest, with exactly the segments that run staged, whatever
\* slices, crashes and resumed runs came in between (the row moves in the
\* transaction of the seal).  So a prefix that is copied was verified.
FrontierNamesTheNewest ==
    \A s \in Sources, p \in Profiles :
        LET f == frontier[s][p]
        IN  IF SealedWith(s, p) = {} THEN f = NoFrontier
            ELSE /\ f.seq \in SealedWith(s, p)
                 /\ \A n \in SealedWith(s, p) : n <= f.seq
                 /\ f.segments = run[s][f.seq].staged

\* An edit of an old segment goes unnoticed for fewer than FullEvery generations in
\* a row, of whatever profiles: "detected at the next full comparison"
\* (eval/storage_v2/MANAGED_APPEND.md).
DamageIsFoundInTime ==
    \A s \in Sources : unnoticed[s] < FullEvery

\* The sealed generations of a profile only ever extend one another: no rotated,
\* shrunk or rewritten manifest is sealed behind an older one (the prefix check of
\* read_snapshot, the epoch and count of the frontier).
GenerationsExtend ==
    \A s \in Sources, p \in Profiles : \A n, k \in SealedWith(s, p) :
        n <= k => run[s][n].manifest \subseteq run[s][k].manifest

\* The frontier lets the source advance: there is none yet under a profile, or
\* its generation still stands, and it belongs to the active generation.
Unblocked(s) ==
    /\ Bound(s, ActiveProfile(s), pointer[s])
    /\ \A b \in NativeBuilds :
          LET k == frontier[s][ProfileOf[b]].seq IN k = Null \/ Trusted(s, k)

\* What a producer appended is published, provided that from some time on the root
\* stays as it is and undamaged and neither the newest run nor the frontier stands
\* in the way: crashes, resumed deltas, candidates, a release with another profile
\* do not stop it.
AppendedContentIsPublished ==
    \A s \in Sources, m \in Manifests :
        <>[](/\ disk[s] = m /\ damaged = {}
             /\ CompleteActiveSet(activation.number)
             /\ \A p \in Profiles : Known(s, p).segments \subseteq m
             /\ Unblocked(s)
             /\ \A b \in NativeBuilds : Servable(s, m, b))
           => <>Shows(s, m)
==============================================================================
