------------------------- MODULE IngestProtocolProofs -------------------------
(***************************************************************************)
(* Proofs about the writers: that a sealed generation shows what its run      *)
(* staged, that no pointer moves to content older than what it replaces, that *)
(* a complete active set stays complete, and that the protocol implements the *)
(* abstract catalogue of immutable snapshots.                                *)
(***************************************************************************)
EXTENDS IngestHistory, GenerationStoreProofs

------------------------------------------------------------------------------
(* The inductive invariant.                                                 *)

\* Every run follows its predecessor and has staged only files of its manifest.
RunsFollow ==
    \A s \in Sources : \A n \in Seqs :
        run[s][n].phase # "none" =>
            /\ run[s][n].pred < n
            /\ run[s][n].manifest \in Manifests
            /\ run[s][n].staged \subseteq run[s][n].manifest

\* A source that has sealed runs has a newest one.
NewestExists ==
    \A s \in Sources : SealedRuns(s) # {} =>
        \E n \in SealedRuns(s) : \A k \in SealedRuns(s) : k <= n

\* A session at work on a run knows its manifest and its predecessor.
OwnsRun(f) ==
    /\ f.seq \in Seqs
    /\ run[f.src][f.seq].phase # "none"
    /\ run[f.src][f.seq].manifest = f.manifest

\* Nothing was sealed in the source since the session observed it.
AtTheTip(f) ==
    /\ run[f.src][f.seq].pred = f.pred
    /\ \A k \in SealedRuns(f.src) : k <= f.pred

\* A predecessor was observed, so it has been allocated.
Observed(f) == f.pred < nextSeq[f.src]

SessionIsSound(w) ==
    /\ session[w].pc \in {"building", "prepared", "observed"} => OwnsRun(session[w])
    /\ session[w].pc = "building" => AtTheTip(session[w])
    /\ session[w].pc = "fixture" => Observed(session[w])

SessionsAreSound == \A w \in Writers : SessionIsSound(w)

\* The source lock.
OneBuilderPerSource ==
    \A v, w \in Writers :
        /\ session[v].pc = "building" /\ session[w].pc = "building"
        /\ session[v].src = session[w].src
        => v = w

ProtocolInv ==
    /\ TypeOK
    /\ StoreInv
    /\ BoundariesAreSealed
    /\ RunsFollow
    /\ NewestExists
    /\ SessionsAreSound
    /\ OneBuilderPerSource
    /\ SealedShowsItsRun

------------------------------------------------------------------------------
(* The membership delta.                                                    *)

\* What a commit at n leaves visible at n, when every boundary lies before n and
\* the staged versions are of different items: exactly the staged versions.
LEMMA DeltaShows ==
    ASSUME NEW M \in SUBSET Memberships, NEW V \in SUBSET Versions, NEW n \in Seqs,
           \A m \in M : m.from < n /\ (m.to # Null => m.to < n),
           \A u, v \in V : ItemOf[u[1]] = ItemOf[v[1]] => u = v
    PROVE  ShownBy(Delta(M, V, n), n) = V
  <1> DEFINE D == Delta(M, V, n)
             C == Closed(M, V, n)
  <1>n. n \in Nat /\ n # Null
    BY DEF Seqs, Null
  <1>m. \A m \in M : m.from \in Nat /\ (m.to = Null \/ m.to \in Nat)
    BY DEF Memberships, Seqs, Null
  <1>1. ASSUME NEW m \in D, LiveAt(m, n) PROVE m.version \in V
    <2>1. CASE m \in M \ Displaced(M, V)
      <3>1. m.to = Null
        BY <1>n, <1>m, <2>1, <1>1 DEF LiveAt, Null
      <3> QED
        BY <2>1, <3>1 DEF Displaced
    <2>2. CASE m \in {[k EXCEPT !.to = n] : k \in Displaced(M, V)}
      <3>1. m.to = n
        BY <2>2 DEF Displaced, Memberships
      <3> QED
        BY <1>n, <1>1, <3>1 DEF LiveAt
    <2>3. CASE m \in Opened(C, V, n)
      BY <2>3 DEF Opened
    <2> QED
      BY <1>1, <2>1, <2>2, <2>3 DEF Delta, Closed
  <1>2. ASSUME NEW v \in V PROVE \E m \in D : LiveAt(m, n) /\ m.version = v
    <2>1. CASE ItemOf[v[1]] \notin OpenItems(C)
      <3> DEFINE o == [version |-> v, from |-> n, to |-> Null]
      <3>1. o \in D
        BY <2>1 DEF Opened, Delta
      <3>2. LiveAt(o, n) /\ o.version = v
        BY <1>n DEF LiveAt
      <3> QED
        BY <3>1, <3>2
    <2>2. CASE ItemOf[v[1]] \in OpenItems(C)
      <3>1. PICK m \in C : m.to = Null /\ ItemOf[m.version[1]] = ItemOf[v[1]]
        BY <2>2 DEF OpenItems
      <3>2. m \in M \ Displaced(M, V)
        <4>1. ASSUME NEW k \in Displaced(M, V), m = [k EXCEPT !.to = n] PROVE FALSE
          <5>1. m.to = n
            BY <4>1 DEF Displaced, Memberships
          <5> QED
            BY <1>n, <3>1, <5>1
        <4> QED
          BY <3>1, <4>1 DEF Closed
      <3>3. m.version \in V
        BY <3>1, <3>2 DEF Displaced
      <3>4. m.version = v
        BY <3>1, <3>3
      <3>5. LiveAt(m, n)
        BY <1>n, <1>m, <3>1, <3>2 DEF LiveAt
      <3>6. m \in D
        BY <3>1 DEF Delta
      <3> QED
        BY <3>4, <3>5, <3>6
    <2> QED
      BY <2>1, <2>2
  <1> HIDE DEF D
  <1>3. {m.version : m \in VisibleRows(D, n)} \subseteq V
    BY <1>1 DEF VisibleRows
  <1>4. V \subseteq {m.version : m \in VisibleRows(D, n)}
    BY <1>2 DEF VisibleRows
  <1> QED
    BY <1>3, <1>4 DEF D, ShownBy

\* The versions of what was staged of one manifest are of different items.
LEMMA StagedItemsDiffer ==
    ASSUME NEW r \in Runs, NEW mf \in Manifests, r.staged \subseteq mf,
           NEW u \in StagedVersions(r), NEW v \in StagedVersions(r),
           ItemOf[u[1]] = ItemOf[v[1]]
    PROVE  u = v
  <1>1. PICK f \in r.staged : u = <<f, ProfileOf[r.build]>>
    BY DEF StagedVersions
  <1>2. PICK g \in r.staged : v = <<g, ProfileOf[r.build]>>
    BY DEF StagedVersions
  <1>3. OneFilePerItem(mf)
    BY ManifestsAssumption
  <1>4. ItemOf[f] = ItemOf[g]
    BY <1>1, <1>2
  <1>5. f = g
    BY <1>3, <1>4 DEF OneFilePerItem
  <1> QED
    BY <1>1, <1>2, <1>5

\* The newest sealed run, and that nothing sealed is newer.
LEMMA NewestFacts ==
    ASSUME ProtocolInv, NEW s \in Sources
    PROVE  /\ NewestSealed(s) \in Seqs \cup {Null}
           /\ NewestSealed(s) < nextSeq[s]
           /\ \A k \in SealedRuns(s) : k <= NewestSealed(s)
           /\ SealedRuns(s) # {} => NewestSealed(s) \in SealedRuns(s)
  <1>t. nextSeq[s] \in 1 .. MaxSeq + 1
    BY DEF ProtocolInv, StoreInv, StoreTypeOK
  <1>1. CASE SealedRuns(s) = {}
    BY <1>1, <1>t DEF NewestSealed, Null
  <1>2. CASE SealedRuns(s) # {}
    <2>1. /\ NewestSealed(s) \in SealedRuns(s)
          /\ \A k \in SealedRuns(s) : k <= NewestSealed(s)
      BY <1>2 DEF NewestSealed, ProtocolInv, NewestExists
    <2>2. NewestSealed(s) \in Seqs /\ run[s][NewestSealed(s)].phase = "sealed"
      BY <2>1 DEF SealedRuns
    <2>3. status[s][NewestSealed(s)] # "absent"
      BY <2>2 DEF ProtocolInv, StoreInv, SealedRunBehindEveryGeneration
    <2> QED
      BY <2>1, <2>2, <2>3 DEF ProtocolInv, StoreInv, NumbersAllocated
  <1> QED
    BY <1>1, <1>2

------------------------------------------------------------------------------
(* Steps that seal nothing.                                                 *)

\* No step removes a run or renames its manifest and predecessor.
RunsNamed ==
    \A s \in Sources : \A n \in Seqs :
        run[s][n].phase # "none" =>
            /\ run'[s][n].phase # "none"
            /\ run'[s][n].manifest = run[s][n].manifest
            /\ run'[s][n].pred = run[s][n].pred

SealsNothing(s) ==
    \A n \in Seqs : run'[s][n].phase = "sealed" <=> run[s][n].phase = "sealed"

Quiet ==
    /\ RunsNamed
    /\ \A s \in Sources : SealsNothing(s)
    /\ \A s \in Sources : \A n \in SealedRuns(s) : run'[s][n] = run[s][n]
    /\ \A s \in Sources : nextSeq[s] <= nextSeq'[s]
    /\ UNCHANGED members

\* What a sealed generation shows is untouched by a step that seals nothing.
LEMMA QuietKeeps ==
    ASSUME ProtocolInv, Quiet
    PROVE  /\ (NewestExists /\ SealedShowsItsRun)'
           /\ UNCHANGED Snapshots
  <1>1. \A s \in Sources : SealedRuns(s)' = SealedRuns(s)
    BY DEF Quiet, SealsNothing, SealedRuns
  <1>2. \A s \in Sources : \A n \in Seqs : Visible(s, n)' = Visible(s, n)
    BY DEF Quiet, Visible
  <1>s. \A s \in Sources : SealedRuns(s) \subseteq Seqs
    BY DEF SealedRuns
  <1>3. NewestExists'
    BY <1>1 DEF NewestExists, ProtocolInv
  <1>4. SealedShowsItsRun'
    <2> SUFFICES ASSUME NEW s \in Sources, NEW n \in SealedRuns(s)'
                 PROVE  /\ Visible(s, n)' = StagedVersions(run'[s][n])
                        /\ run'[s][n].staged = run'[s][n].manifest
      BY DEF SealedShowsItsRun
    <2>1. n \in SealedRuns(s) /\ n \in Seqs
      BY <1>1, <1>s
    <2>2. run'[s][n] = run[s][n] /\ Visible(s, n)' = Visible(s, n)
      BY <2>1, <1>2 DEF Quiet
    <2>3. /\ Visible(s, n) = StagedVersions(run[s][n])
          /\ run[s][n].staged = run[s][n].manifest
      BY <2>1 DEF ProtocolInv, SealedShowsItsRun
    <2> QED
      BY <2>2, <2>3
  <1>5. UNCHANGED Snapshots
    BY <1>1, <1>2, <1>s DEF Snapshots
  <1> QED
    BY <1>3, <1>4, <1>5

\* A session that does not move stays sound while nothing is sealed in its source.
LEMMA SessionKept ==
    ASSUME ProtocolInv, RunsNamed, NEW w \in Writers, session'[w] = session[w],
           \A s \in Sources : nextSeq'[s] \in Nat /\ nextSeq[s] <= nextSeq'[s],
           session[w].pc = "building" => SealsNothing(session[w].src)
    PROVE  SessionIsSound(w)'
  <1>1. SessionIsSound(w)
    BY DEF ProtocolInv, SessionsAreSound
  <1>2. CASE session[w] = Idle
    BY <1>2 DEF SessionIsSound, Idle
  <1>3. CASE session[w] \in Sessions
    <2>1. session[w].src \in Sources /\ session[w].pred \in Nat
      BY <1>3 DEF Sessions, Seqs, Null
    <2>2. session[w].pc \in {"building", "prepared", "observed"} => OwnsRun(session[w])'
      BY <1>1, <2>1 DEF SessionIsSound, OwnsRun, RunsNamed
    <2>3. session[w].pc = "building" => AtTheTip(session[w])'
      <3> SUFFICES ASSUME session[w].pc = "building" PROVE AtTheTip(session[w])'
        OBVIOUS
      <3>1. OwnsRun(session[w]) /\ AtTheTip(session[w])
        BY <1>1 DEF SessionIsSound
      <3>2. run'[session[w].src][session[w].seq].pred = session[w].pred
        BY <2>1, <3>1 DEF OwnsRun, AtTheTip, RunsNamed
      <3>3. SealedRuns(session[w].src)' = SealedRuns(session[w].src)
        BY DEF SealsNothing, SealedRuns
      <3> QED
        BY <3>1, <3>2, <3>3 DEF AtTheTip
    <2>4. session[w].pc = "fixture" => Observed(session[w])'
      <3>1. nextSeq[session[w].src] \in Nat
        BY <2>1 DEF ProtocolInv, StoreInv, StoreTypeOK
      <3> QED
        BY <1>1, <2>1, <3>1 DEF SessionIsSound, Observed
    <2> QED
      BY <2>2, <2>3, <2>4 DEF SessionIsSound
  <1> QED
    BY <1>2, <1>3 DEF ProtocolInv, TypeOK

\* A step that leaves runs, rows and counters alone is quiet.
LEMMA UnchangedIsQuiet ==
    ASSUME StoreInv, UNCHANGED <<run, members, nextSeq>>
    PROVE  Quiet
  <1>1. \A s \in Sources : nextSeq[s] \in Nat
    BY DEF StoreInv, StoreTypeOK
  <1> QED
    BY <1>1 DEF Quiet, RunsNamed, SealsNothing, SealedRuns

\* So is the allocation of a run, whose number no run has.
LEMMA AllocateIsQuiet ==
    ASSUME StoreInv, NEW s \in Sources, NEW pred \in 0 .. nextSeq[s] - 1,
           NEW m \in Manifests, NEW b \in Builds, AllocateRun(s, pred, m, b)
    PROVE  /\ Quiet
           /\ run[s][nextSeq[s]].phase = "none"
           /\ \A t \in Sources : \A k \in Seqs :
                 run'[t][k] = IF t = s /\ k = nextSeq[s] THEN NewRun(s, pred, m, b)
                              ELSE run[t][k]
  <1> DEFINE n == nextSeq[s]
  <1>1. n \in Seqs /\ n \in Nat
    BY NewRunType DEF StoreInv, AllocateRun, Allocates, Seqs
  <1>2. status[s][n] = "absent"
    BY <1>1 DEF StoreInv, NumbersAllocated
  <1>3. run[s][n].phase = "none"
    BY <1>1, <1>2 DEF StoreInv, SealedRunBehindEveryGeneration
  <1>4. \A t \in Sources : \A k \in Seqs :
           run'[t][k] = IF t = s /\ k = n THEN NewRun(s, pred, m, b) ELSE run[t][k]
    BY <1>1 DEF AllocateRun, Allocates, StoreInv, StoreTypeOK
  <1>5. NewRun(s, pred, m, b).phase = "building"
    BY DEF NewRun
  <1>6. RunsNamed
    BY <1>3, <1>4 DEF RunsNamed
  <1>7. \A t \in Sources : SealsNothing(t)
    BY <1>3, <1>4, <1>5 DEF SealsNothing
  <1>8. \A t \in Sources : \A k \in SealedRuns(t) : run'[t][k] = run[t][k]
    BY <1>3, <1>4 DEF SealedRuns
  <1>9. \A t \in Sources : nextSeq[t] <= nextSeq'[t]
    <2>1. \A t \in Sources : nextSeq[t] \in Nat
      BY DEF StoreInv, StoreTypeOK
    <2>2. \A t \in Sources : nextSeq'[t] = IF t = s THEN n + 1 ELSE nextSeq[t]
      BY DEF AllocateRun, Allocates, StoreInv, StoreTypeOK
    <2> QED
      BY <2>1, <2>2
  <1>10. UNCHANGED members
    BY DEF AllocateRun, Allocates
  <1> QED
    BY <1>3, <1>4, <1>6, <1>7, <1>8, <1>9, <1>10 DEF Quiet

\* So is any change of a run that is not sealed, to one that is not sealed, of the
\* same manifest and predecessor.
LEMMA RunChangeIsQuiet ==
    ASSUME StoreInv, NEW s \in Sources, NEW n \in Seqs, NEW r,
           run' = [run EXCEPT ![s][n] = r],
           run[s][n].phase # "sealed", r.phase \notin {"sealed", "none"},
           r.manifest = run[s][n].manifest, r.pred = run[s][n].pred,
           UNCHANGED <<members, nextSeq>>
    PROVE  Quiet
  <1>1. \A t \in Sources : \A k \in Seqs :
           run'[t][k] = IF t = s /\ k = n THEN r ELSE run[t][k]
    BY DEF StoreInv, StoreTypeOK
  <1>2. RunsNamed
    <2> SUFFICES ASSUME NEW t \in Sources, NEW k \in Seqs, run[t][k].phase # "none"
                 PROVE  /\ run'[t][k].phase # "none"
                        /\ run'[t][k].manifest = run[t][k].manifest
                        /\ run'[t][k].pred = run[t][k].pred
      BY DEF RunsNamed
    <2>1. CASE t = s /\ k = n
      BY <1>1, <2>1
    <2>2. CASE ~(t = s /\ k = n)
      BY <1>1, <2>2
    <2> QED
      BY <2>1, <2>2
  <1>3. \A t \in Sources : SealsNothing(t)
    <2> SUFFICES ASSUME NEW t \in Sources, NEW k \in Seqs
                 PROVE  run'[t][k].phase = "sealed" <=> run[t][k].phase = "sealed"
      BY DEF SealsNothing
    <2>1. CASE t = s /\ k = n
      BY <1>1, <2>1
    <2>2. CASE ~(t = s /\ k = n)
      BY <1>1, <2>2
    <2> QED
      BY <2>1, <2>2
  <1>4. \A t \in Sources : \A k \in SealedRuns(t) : run'[t][k] = run[t][k]
    BY <1>1 DEF SealedRuns
  <1>5. \A t \in Sources : nextSeq[t] <= nextSeq'[t]
    BY DEF StoreInv, StoreTypeOK
  <1> QED
    BY <1>1, <1>2, <1>3, <1>4, <1>5 DEF Quiet

LEMMA StageIsQuiet ==
    ASSUME StoreInv, RunsFollow, NEW s \in Sources, NEW n \in Seqs, NEW f \in Files,
           StageShadowItem(s, n, f)
    PROVE  Quiet /\ RunsFollow'
  <1> DEFINE r == [run[s][n] EXCEPT !.staged = @ \cup {f}]
  <1>1. run[s][n] \in Runs
    BY DEF StoreInv, StoreTypeOK
  <1>2. /\ r.phase = run[s][n].phase /\ r.manifest = run[s][n].manifest
        /\ r.pred = run[s][n].pred /\ r.staged = run[s][n].staged \cup {f}
    BY <1>1 DEF Runs
  <1>3. run' = [run EXCEPT ![s][n] = r] /\ UNCHANGED <<members, nextSeq>>
    BY DEF StageShadowItem
  <1>4. run[s][n].phase = "building" /\ f \in run[s][n].manifest
    BY DEF StageShadowItem
  <1>5. /\ Quiet
        /\ \A t \in Sources : \A k \in Seqs :
              run'[t][k] = IF t = s /\ k = n THEN r ELSE run[t][k]
    <2>1. r.phase \notin {"sealed", "none"} /\ run[s][n].phase # "sealed"
      BY <1>2, <1>4
    <2>2. Quiet
      BY <1>2, <1>3, <2>1, RunChangeIsQuiet
    <2>3. \A t \in Sources : \A k \in Seqs :
             run'[t][k] = IF t = s /\ k = n THEN r ELSE run[t][k]
      BY <1>3 DEF StoreInv, StoreTypeOK
    <2> QED
      BY <2>2, <2>3
  <1> HIDE DEF r
  <1>6. RunsFollow'
    <2> SUFFICES ASSUME NEW t \in Sources, NEW k \in Seqs, run'[t][k].phase # "none"
                 PROVE  /\ run'[t][k].pred < k
                        /\ run'[t][k].manifest \in Manifests
                        /\ run'[t][k].staged \subseteq run'[t][k].manifest
      BY DEF RunsFollow
    <2>1. CASE t = s /\ k = n
      BY <1>2, <1>4, <1>5, <2>1 DEF RunsFollow
    <2>2. CASE ~(t = s /\ k = n)
      <3>1. run'[t][k] = run[t][k]
        BY <1>5, <2>2
      <3> QED
        BY <3>1 DEF RunsFollow
    <2> QED
      BY <2>1, <2>2
  <1> QED
    BY <1>5, <1>6

LEMMA CleanupIsQuiet ==
    ASSUME StoreInv, RunsFollow, NEW s \in Sources, NEW n \in Seqs,
           CleanupAbandonedIngest(s, n)
    PROVE  Quiet /\ RunsFollow'
  <1> DEFINE r == [run[s][n] EXCEPT !.phase = "abandoned"]
  <1>1. run[s][n] \in Runs
    BY DEF StoreInv, StoreTypeOK
  <1>2. /\ r.phase = "abandoned" /\ r.manifest = run[s][n].manifest
        /\ r.pred = run[s][n].pred /\ r.staged = run[s][n].staged
    BY <1>1 DEF Runs
  <1>3. run' = [run EXCEPT ![s][n] = r] /\ UNCHANGED <<members, nextSeq>>
    BY DEF CleanupAbandonedIngest
  <1>4. run[s][n].phase \in {"building", "cancelled"}
    BY DEF CleanupAbandonedIngest
  <1>5. /\ Quiet
        /\ \A t \in Sources : \A k \in Seqs :
              run'[t][k] = IF t = s /\ k = n THEN r ELSE run[t][k]
    <2>1. r.phase \notin {"sealed", "none"} /\ run[s][n].phase # "sealed"
      BY <1>2, <1>4
    <2>2. Quiet
      BY <1>2, <1>3, <2>1, RunChangeIsQuiet
    <2>3. \A t \in Sources : \A k \in Seqs :
             run'[t][k] = IF t = s /\ k = n THEN r ELSE run[t][k]
      BY <1>3 DEF StoreInv, StoreTypeOK
    <2> QED
      BY <2>2, <2>3
  <1> HIDE DEF r
  <1>6. RunsFollow'
    <2> SUFFICES ASSUME NEW t \in Sources, NEW k \in Seqs, run'[t][k].phase # "none"
                 PROVE  /\ run'[t][k].pred < k
                        /\ run'[t][k].manifest \in Manifests
                        /\ run'[t][k].staged \subseteq run'[t][k].manifest
      BY DEF RunsFollow
    <2>1. CASE t = s /\ k = n
      BY <1>2, <1>4, <1>5, <2>1 DEF RunsFollow
    <2>2. CASE ~(t = s /\ k = n)
      <3>1. run'[t][k] = run[t][k]
        BY <1>5, <2>2
      <3> QED
        BY <3>1 DEF RunsFollow
    <2> QED
      BY <2>1, <2>2
  <1> QED
    BY <1>5, <1>6

\* A new run follows the predecessor it was given.
LEMMA AllocateFollows ==
    ASSUME StoreInv, RunsFollow, NEW s \in Sources, NEW pred \in 0 .. nextSeq[s] - 1,
           NEW m \in Manifests, NEW b \in Builds, AllocateRun(s, pred, m, b)
    PROVE  RunsFollow'
  <1> DEFINE n == nextSeq[s]
             r == NewRun(s, pred, m, b)
  <1>1. r.pred < n /\ r.manifest = m /\ r.staged = {}
    <2>1. n \in Nat
      BY DEF StoreInv, StoreTypeOK
    <2> QED
      BY <2>1 DEF NewRun
  <1>2. \A t \in Sources : \A k \in Seqs :
           run'[t][k] = IF t = s /\ k = n THEN r ELSE run[t][k]
    BY AllocateIsQuiet
  <1> HIDE DEF n, r
  <1> SUFFICES ASSUME NEW t \in Sources, NEW k \in Seqs, run'[t][k].phase # "none"
               PROVE  /\ run'[t][k].pred < k
                      /\ run'[t][k].manifest \in Manifests
                      /\ run'[t][k].staged \subseteq run'[t][k].manifest
    BY DEF RunsFollow
  <1>3. CASE t = s /\ k = n
    BY <1>1, <1>2, <1>3
  <1>4. CASE ~(t = s /\ k = n)
    <2>1. run'[t][k] = run[t][k]
      BY <1>2, <1>4
    <2> QED
      BY <2>1 DEF RunsFollow
  <1> QED
    BY <1>3, <1>4

------------------------------------------------------------------------------
(* Steps that seal a run.                                                   *)

\* A commit of run r at generation n of source s by a caller that verifies at once:
\* n was building, or is the next number, and lies above everything sealed; the run
\* has staged its manifest.
Seals(s, n, r) ==
    /\ SealInto(s, n, r, "verified")
    /\ r.manifest \in Manifests /\ r.staged = r.manifest /\ r.pred < n
    /\ \A k \in SealedRuns(s) : k < n
    /\ \/ /\ run[s][n] = r /\ status[s][n] = "building"
          /\ UNCHANGED nextSeq
       \/ /\ n = nextSeq[s]
          /\ nextSeq' = [nextSeq EXCEPT ![s] = @ + 1]
    /\ UNCHANGED <<registered, pointer, evidence, activation, receipted>>

\* A sealing step seals what was not sealed.
LEMMA SealTarget ==
    ASSUME StoreInv, NEW s \in Sources, NEW n \in Seqs, NEW r, Seals(s, n, r)
    PROVE  /\ status[s][n] \in {"absent", "building"}
           /\ run[s][n].phase # "sealed"
           /\ run[s][n].phase # "none" => run[s][n] = r
  <1>n. n \in Nat
    BY DEF Seqs
  <1>1. status[s][n] \in {"absent", "building"} /\ (run[s][n].phase # "none" => run[s][n] = r)
    <2>1. CASE run[s][n] = r /\ status[s][n] = "building"
      BY <2>1
    <2>2. CASE n = nextSeq[s]
      <3>1. status[s][n] = "absent"
        BY <1>n, <2>2 DEF StoreInv, NumbersAllocated
      <3> QED
        BY <3>1 DEF StoreInv, SealedRunBehindEveryGeneration
    <2> QED
      BY <2>1, <2>2 DEF Seals
  <1>2. run[s][n].phase # "sealed"
    BY <1>1 DEF StoreInv, SealedRunBehindEveryGeneration
  <1> QED
    BY <1>1, <1>2

\* The new values of a sealing step.
LEMMA SealFacts ==
    ASSUME StoreInv, NEW s \in Sources, NEW n \in Seqs, NEW r \in Runs, Seals(s, n, r)
    PROVE  /\ \A t \in Sources : \A k \in Seqs :
                 /\ status'[t][k] = IF t = s /\ k = n THEN "verified" ELSE status[t][k]
                 /\ run'[t][k] = IF t = s /\ k = n THEN [r EXCEPT !.phase = "sealed"]
                                 ELSE run[t][k]
           /\ members' = [members EXCEPT ![s] = Delta(@, StagedVersions(r), n)]
           /\ nextSeq' \in [Sources -> 1 .. MaxSeq + 1]
           /\ \A t \in Sources : nextSeq[t] <= nextSeq'[t]
           /\ \A t \in Sources : \A k \in Seqs :
                 k < nextSeq'[t] <=> k < nextSeq[t] \/ (t = s /\ k = n)
  <1>n. n \in Nat /\ n <= MaxSeq /\ Seqs \subseteq Nat
    BY DEF Seqs
  <1>t. nextSeq \in [Sources -> 1 .. MaxSeq + 1]
    BY DEF StoreInv, StoreTypeOK
  <1>3. \A t \in Sources : \A k \in Seqs :
           /\ status'[t][k] = IF t = s /\ k = n THEN "verified" ELSE status[t][k]
           /\ run'[t][k] = IF t = s /\ k = n THEN [r EXCEPT !.phase = "sealed"]
                           ELSE run[t][k]
    BY DEF Seals, SealInto, StoreInv, StoreTypeOK
  <1>4. /\ nextSeq' \in [Sources -> 1 .. MaxSeq + 1]
        /\ \A t \in Sources : nextSeq[t] <= nextSeq'[t]
        /\ \A t \in Sources : \A k \in Seqs :
              k < nextSeq'[t] <=> k < nextSeq[t] \/ (t = s /\ k = n)
    <2>1. CASE UNCHANGED nextSeq /\ status[s][n] = "building"
      <3>1. n < nextSeq[s]
        BY <2>1 DEF StoreInv, NumbersAllocated
      <3> QED
        BY <1>t, <2>1, <3>1
    <2>2. CASE n = nextSeq[s] /\ nextSeq' = [nextSeq EXCEPT ![s] = @ + 1]
      <3>1. \A t \in Sources : nextSeq'[t] = IF t = s THEN n + 1 ELSE nextSeq[t]
        BY <1>t, <2>2
      <3>2. nextSeq' \in [Sources -> 1 .. MaxSeq + 1]
        <4>1. n + 1 \in 1 .. MaxSeq + 1
          BY <1>n, BoundsAssumption
        <4>2. nextSeq' = [nextSeq EXCEPT ![s] = n + 1]
          BY <2>2
        <4> QED
          BY <1>t, <4>1, <4>2
      <3>3. \A k \in Seqs : k < n + 1 <=> k < n \/ k = n
        BY <1>n
      <3> QED
        BY <1>n, <1>t, <2>2, <3>1, <3>2, <3>3
    <2> QED
      BY <2>1, <2>2 DEF Seals
  <1>5. members' = [members EXCEPT ![s] = Delta(@, StagedVersions(r), n)]
    BY DEF Seals, SealInto
  <1> QED
    BY <1>3, <1>4, <1>5

\* The catalogue's invariant across a sealing step.
LEMMA SealKeepsStore ==
    ASSUME StoreInv, NEW s \in Sources, NEW n \in Seqs, NEW r \in Runs, Seals(s, n, r)
    PROVE  StoreInv'
  <1> DEFINE q == [r EXCEPT !.phase = "sealed"]
  <1>q. q.phase = "sealed"
    BY DEF Runs
  <1>1. StoreTypeOK'
    <2>1. "verified" \in Statuses /\ StoreTypeOK
      BY DEF Statuses, StoreInv
    <2>2. /\ members' \in [Sources -> SUBSET Memberships]
          /\ status' \in [Sources -> [Seqs -> Statuses]]
          /\ run' \in [Sources -> [Seqs -> Runs]]
      BY <2>1, SealType DEF Seals
    <2>3. nextSeq' \in [Sources -> 1 .. MaxSeq + 1]
      BY SealFacts
    <2> QED
      BY <2>1, <2>2, <2>3 DEF StoreTypeOK, Seals
  <1>2. \A t \in Sources : \A k \in Seqs :
           /\ status'[t][k] = IF t = s /\ k = n THEN "verified" ELSE status[t][k]
           /\ run'[t][k] = IF t = s /\ k = n THEN q ELSE run[t][k]
           /\ k < nextSeq'[t] <=> k < nextSeq[t] \/ (t = s /\ k = n)
    BY SealFacts
  <1>3. status[s][n] \in {"absent", "building"}
    BY SealTarget
  <1> HIDE DEF q
  <1>4. NumbersAllocated'
    <2> SUFFICES ASSUME NEW t \in Sources, NEW k \in Seqs
                 PROVE  k < nextSeq'[t] <=> status'[t][k] # "absent"
      BY DEF NumbersAllocated
    <2>1. CASE t = s /\ k = n
      BY <1>2, <2>1
    <2>2. CASE ~(t = s /\ k = n)
      BY <1>2, <2>2 DEF StoreInv, NumbersAllocated
    <2> QED
      BY <2>1, <2>2
  <1>5. SealedRunBehindEveryGeneration'
    <2> SUFFICES ASSUME NEW t \in Sources, NEW k \in Seqs
                 PROVE  /\ run'[t][k].phase = "sealed"
                             <=> status'[t][k] \notin {"absent", "building"}
                        /\ run'[t][k].phase = "none" <=> status'[t][k] = "absent"
      BY DEF SealedRunBehindEveryGeneration
    <2>1. CASE t = s /\ k = n
      BY <1>q, <1>2, <2>1
    <2>2. CASE ~(t = s /\ k = n)
      <3>1. run'[t][k] = run[t][k] /\ status'[t][k] = status[t][k]
        BY <1>2, <2>2
      <3> QED
        BY <3>1 DEF StoreInv, SealedRunBehindEveryGeneration
    <2> QED
      BY <2>1, <2>2
  <1>6. PointerNamesTheActive'
    <2> SUFFICES ASSUME NEW t \in Sources, NEW k \in Seqs
                 PROVE  status'[t][k] = "active" <=> k = pointer[t]
      BY DEF PointerNamesTheActive, Seals
    <2>1. status[t][k] = "active" <=> k = pointer[t]
      BY DEF StoreInv, PointerNamesTheActive
    <2>2. CASE t = s /\ k = n
      <3>1. status'[t][k] = "verified"
        BY <1>2, <2>2
      <3>2. status[t][k] # "active"
        BY <1>3, <2>2
      <3> QED
        BY <2>1, <3>1, <3>2
    <2>3. CASE ~(t = s /\ k = n)
      <3>1. status'[t][k] = status[t][k]
        BY <1>2, <2>3
      <3> QED
        BY <2>1, <3>1
    <2> QED
      BY <2>2, <2>3
  <1> QED
    BY <1>1, <1>4, <1>5, <1>6 DEF StoreInv

\* The boundaries of the delta are sealed, the new one included.
LEMMA SealKeepsBoundaries ==
    ASSUME StoreInv, BoundariesAreSealed, NEW s \in Sources, NEW n \in Seqs,
           NEW r \in Runs, Seals(s, n, r)
    PROVE  BoundariesAreSealed'
  <1>1. \A t \in Sources : \A k \in Seqs :
           run[t][k].phase = "sealed" => run'[t][k].phase = "sealed"
    <2> TAKE t \in Sources
    <2> TAKE k \in Seqs
    <2>1. run[s][n].phase # "sealed"
      BY SealTarget
    <2>2. CASE ~(t = s /\ k = n)
      <3>1. \A u \in Sources : \A j \in Seqs :
               run'[u][j] = IF u = s /\ j = n THEN [r EXCEPT !.phase = "sealed"]
                            ELSE run[u][j]
        BY SealFacts
      <3>2. run'[t][k] = run[t][k]
        BY <2>2, <3>1
      <3> QED
        BY <3>2
    <2> QED
      BY <2>1, <2>2
  <1>2. run'[s][n].phase = "sealed"
    <2>1. [r EXCEPT !.phase = "sealed"].phase = "sealed"
      BY DEF Runs
    <2>2. run'[s][n] = [r EXCEPT !.phase = "sealed"]
      BY SealFacts
    <2> QED
      BY <2>1, <2>2
  <1> SUFFICES ASSUME NEW t \in Sources, NEW m \in members'[t]
               PROVE  /\ run'[t][m.from].phase = "sealed"
                      /\ m.to # Null => run'[t][m.to].phase = "sealed"
    BY DEF BoundariesAreSealed
  <1>t. members[t] \in SUBSET Memberships
    BY DEF StoreInv, StoreTypeOK
  <1>3. ASSUME NEW k \in members[t]
        PROVE  /\ run'[t][k.from].phase = "sealed"
               /\ k.to # Null => run'[t][k.to].phase = "sealed"
    <2>1. k.from \in Seqs /\ k.to \in Seqs \cup {Null}
      BY <1>t, <1>3 DEF Memberships
    <2>2. /\ run[t][k.from].phase = "sealed"
          /\ k.to # Null => run[t][k.to].phase = "sealed"
      BY <1>3 DEF BoundariesAreSealed
    <2> QED
      BY <1>1, <2>1, <2>2
  <1>4. members' = [members EXCEPT ![s] = Delta(@, StagedVersions(r), n)]
    BY DEF Seals, SealInto
  <1>5. CASE t # s
    BY <1>3, <1>4, <1>5 DEF StoreInv, StoreTypeOK
  <1>6. CASE t = s
    <2>1. m \in Delta(members[t], StagedVersions(r), n)
      BY <1>4, <1>6 DEF StoreInv, StoreTypeOK
    <2>2. /\ m.from = n \/ \E k \in members[t] : m.from = k.from
          /\ m.to = Null \/ m.to = n \/ \E k \in members[t] : m.to = k.to
      BY <1>t, <2>1, DeltaBoundaries
    <2> QED
      BY <1>2, <1>3, <1>6, <2>2
  <1> QED
    BY <1>5, <1>6

\* The sealed run shows what it staged, and no other generation changes: every
\* boundary of the source is sealed and so lies before n.
LEMMA SealShows ==
    ASSUME ProtocolInv, NEW s \in Sources, NEW n \in Seqs, NEW r \in Runs, Seals(s, n, r)
    PROVE  /\ Visible(s, n)' = StagedVersions(r)
           /\ \A t \in Sources : \A k \in SealedRuns(t) : Visible(t, k)' = Visible(t, k)
  <1>i. StoreInv /\ BoundariesAreSealed
    BY DEF ProtocolInv
  <1>1. members' = [members EXCEPT ![s] = Delta(@, StagedVersions(r), n)]
    BY DEF Seals, SealInto
  <1>2. members[s] \in SUBSET Memberships /\ StagedVersions(r) \in SUBSET Versions
    BY <1>i, StagedType DEF StoreInv, StoreTypeOK
  <1>3. members'[s] = Delta(members[s], StagedVersions(r), n)
    BY <1>i, <1>1 DEF StoreInv, StoreTypeOK
  <1>4. \A m \in members[s] : m.from < n /\ (m.to # Null => m.to < n)
    <2> TAKE m \in members[s]
    <2>1. m.from \in Seqs /\ m.to \in Seqs \cup {Null}
      BY <1>2 DEF Memberships
    <2>2. /\ run[s][m.from].phase = "sealed"
          /\ m.to # Null => run[s][m.to].phase = "sealed"
      BY <1>i DEF BoundariesAreSealed
    <2>3. m.from \in SealedRuns(s) /\ (m.to # Null => m.to \in SealedRuns(s))
      BY <2>1, <2>2 DEF SealedRuns
    <2> QED
      BY <2>3 DEF Seals
  <1>5. \A u, v \in StagedVersions(r) : ItemOf[u[1]] = ItemOf[v[1]] => u = v
    BY StagedItemsDiffer DEF Seals
  <1>6. ShownBy(Delta(members[s], StagedVersions(r), n), n) = StagedVersions(r)
    BY <1>2, <1>4, <1>5, DeltaShows
  <1>7. Visible(s, n)' = StagedVersions(r)
    BY <1>3, <1>6 DEF Visible, ShownBy
  <1>8. ASSUME NEW t \in Sources, NEW k \in SealedRuns(t)
        PROVE  Visible(t, k)' = Visible(t, k)
    <2>1. CASE t = s
      <3>1. k \in Seqs /\ k \in SealedRuns(s)
        BY <1>8, <2>1 DEF SealedRuns
      <3>n. k < n
        BY <3>1 DEF Seals
      <3>2. ShownBy(Delta(members[s], StagedVersions(r), n), k) = ShownBy(members[s], k)
        BY <1>2, <3>1, <3>n, DeltaKeeps
      <3>3. Visible(s, k)' = Visible(s, k)
        BY <1>3, <3>2 DEF Visible, ShownBy
      <3> QED
        BY <2>1, <3>3
    <2>2. CASE t # s
      <3>1. members'[t] = members[t]
        BY <1>i, <1>1, <2>2 DEF StoreInv, StoreTypeOK
      <3> QED
        BY <3>1 DEF Visible, ShownBy
    <2> QED
      BY <2>1, <2>2
  <1> QED
    BY <1>7, <1>8

\* The runs after a sealing step: one more is sealed, above all others, and no
\* manifest or predecessor changes.
LEMMA SealRuns ==
    ASSUME ProtocolInv, NEW s \in Sources, NEW n \in Seqs, NEW r \in Runs, Seals(s, n, r)
    PROVE  /\ RunsNamed /\ RunsFollow'
           /\ \A t \in Sources \ {s} : SealsNothing(t)
           /\ SealedRuns(s)' = SealedRuns(s) \cup {n}
           /\ \A t \in Sources \ {s} : SealedRuns(t)' = SealedRuns(t)
           /\ \A t \in Sources : \A k \in SealedRuns(t) : run'[t][k] = run[t][k]
           /\ n \notin SealedRuns(s)
  <1> DEFINE q == [r EXCEPT !.phase = "sealed"]
  <1>i. StoreInv /\ RunsFollow
    BY DEF ProtocolInv
  <1>q. /\ q.phase = "sealed" /\ q.manifest = r.manifest /\ q.pred = r.pred
        /\ q.staged = r.staged
    BY DEF Runs
  <1>0. run' = [run EXCEPT ![s][n] = q]
    BY DEF Seals, SealInto
  <1>2. run[s][n].phase # "sealed" /\ (run[s][n].phase # "none" => run[s][n] = r)
    BY <1>i, SealTarget
  <1> HIDE DEF q
  <1>1. \A t \in Sources : \A k \in Seqs :
           run'[t][k] = IF t = s /\ k = n THEN q ELSE run[t][k]
    BY <1>i, <1>0 DEF StoreInv, StoreTypeOK
  <1>3. RunsNamed
    <2> SUFFICES ASSUME NEW t \in Sources, NEW k \in Seqs, run[t][k].phase # "none"
                 PROVE  /\ run'[t][k].phase # "none"
                        /\ run'[t][k].manifest = run[t][k].manifest
                        /\ run'[t][k].pred = run[t][k].pred
      BY DEF RunsNamed
    <2>1. CASE t = s /\ k = n
      <3>1. run'[t][k] = q /\ run[t][k] = r
        BY <1>1, <1>2, <2>1
      <3> QED
        BY <1>q, <3>1
    <2>2. CASE ~(t = s /\ k = n)
      <3>1. run'[t][k] = run[t][k]
        BY <1>1, <2>2
      <3> QED
        BY <3>1
    <2> QED
      BY <2>1, <2>2
  <1>4. RunsFollow'
    <2> SUFFICES ASSUME NEW t \in Sources, NEW k \in Seqs, run'[t][k].phase # "none"
                 PROVE  /\ run'[t][k].pred < k
                        /\ run'[t][k].manifest \in Manifests
                        /\ run'[t][k].staged \subseteq run'[t][k].manifest
      BY DEF RunsFollow
    <2>1. CASE t = s /\ k = n
      <3>1. run'[t][k] = q
        BY <1>1, <2>1
      <3> QED
        BY <1>q, <2>1, <3>1 DEF Seals
    <2>2. CASE ~(t = s /\ k = n)
      <3>1. run'[t][k] = run[t][k]
        BY <1>1, <2>2
      <3> QED
        BY <1>i, <3>1 DEF RunsFollow
    <2> QED
      BY <2>1, <2>2
  <1>5. \A t \in Sources \ {s} : SealsNothing(t)
    BY <1>1 DEF SealsNothing
  <1>6. \A t \in Sources \ {s} : SealedRuns(t)' = SealedRuns(t)
    BY <1>1 DEF SealedRuns
  <1>7. SealedRuns(s)' = SealedRuns(s) \cup {n}
    BY <1>1, <1>2, <1>q DEF SealedRuns
  <1>8. n \notin SealedRuns(s)
    BY <1>2 DEF SealedRuns
  <1>9. \A t \in Sources : \A k \in SealedRuns(t) : run'[t][k] = run[t][k]
    BY <1>1, <1>2 DEF SealedRuns
  <1> QED
    BY <1>3, <1>4, <1>5, <1>6, <1>7, <1>8, <1>9

LEMMA SealKeepsShown ==
    ASSUME ProtocolInv, NEW s \in Sources, NEW n \in Seqs, NEW r \in Runs, Seals(s, n, r)
    PROVE  (SealedShowsItsRun /\ NewestExists)'
  <1>i. StoreInv
    BY DEF ProtocolInv
  <1>1. SealedShowsItsRun'
    <2> SUFFICES ASSUME NEW t \in Sources, NEW k \in SealedRuns(t)'
                 PROVE  /\ Visible(t, k)' = StagedVersions(run'[t][k])
                        /\ run'[t][k].staged = run'[t][k].manifest
      BY DEF SealedShowsItsRun
    <2>1. CASE k \in SealedRuns(t)
      <3>1. run'[t][k] = run[t][k] /\ Visible(t, k)' = Visible(t, k)
        BY <2>1, SealRuns, SealShows
      <3>2. /\ Visible(t, k) = StagedVersions(run[t][k])
            /\ run[t][k].staged = run[t][k].manifest
        BY <2>1 DEF ProtocolInv, SealedShowsItsRun
      <3> QED
        BY <3>1, <3>2
    <2>2. CASE k \notin SealedRuns(t)
      <3>1. t = s /\ k = n
        BY <2>2, SealRuns
      <3>2. run'[t][k] = [r EXCEPT !.phase = "sealed"]
        BY <1>i, <3>1, SealFacts
      <3>3. /\ run'[t][k].staged = r.staged /\ run'[t][k].manifest = r.manifest
            /\ run'[t][k].build = r.build
        BY <3>2 DEF Runs
      <3>4. StagedVersions(run'[t][k]) = StagedVersions(r)
        BY <3>3 DEF StagedVersions
      <3>5. Visible(t, k)' = StagedVersions(r)
        BY <3>1, SealShows
      <3> QED
        BY <3>3, <3>4, <3>5 DEF Seals
    <2> QED
      BY <2>1, <2>2
  <1>2. NewestExists'
    <2> SUFFICES ASSUME NEW t \in Sources, SealedRuns(t)' # {}
                 PROVE  \E j \in SealedRuns(t)' : \A k \in SealedRuns(t)' : k <= j
      BY DEF NewestExists
    <2>1. CASE t = s
      <3>1. SealedRuns(t)' = SealedRuns(s) \cup {n}
        BY <2>1, SealRuns
      <3>2. \A k \in SealedRuns(s) : k < n
        BY DEF Seals
      <3>3. n \in Nat /\ SealedRuns(s) \subseteq Nat
        BY DEF Seqs, SealedRuns
      <3> QED
        BY <3>1, <3>2, <3>3
    <2>2. CASE t # s
      <3>1. SealedRuns(t)' = SealedRuns(t)
        BY <2>2, SealRuns
      <3> QED
        BY <3>1 DEF ProtocolInv, NewestExists
    <2> QED
      BY <2>1, <2>2
  <1> QED
    BY <1>1, <1>2

------------------------------------------------------------------------------
(* Sessions.                                                                *)

\* The part of the invariant that no session or plan occurs in.
StorePart ==
    /\ StoreInv
    /\ BoundariesAreSealed
    /\ RunsFollow
    /\ NewestExists
    /\ SealedShowsItsRun

\* The part about sessions and plans.
SessionPart ==
    /\ disk \in [Sources -> Manifests]
    /\ session \in [Writers -> Sessions \cup {Idle}]
    /\ plan \in Plans \cup {NoPlan}
    /\ SessionsAreSound
    /\ OneBuilderPerSource

\* Both parts, kept, are the invariant kept.
LEMMA InvariantKept ==
    ASSUME StorePart', SessionPart'
    PROVE  ProtocolInv'
  BY DEF ProtocolInv, StorePart, SessionPart, TypeOK, StoreInv

\* A step of the catalogue that seals nothing keeps the first part.
LEMMA QuietStep ==
    ASSUME ProtocolInv, [WriterStep]_storeVars, Quiet, RunsFollow'
    PROVE  StorePart'
  <1>1. StoreInv' /\ BoundariesAreSealed'
    BY StepInv, BoundaryStep DEF ProtocolInv
  <1> QED
    BY <1>1, QuietKeeps DEF StorePart

\* Steps that leave runs, rows and counters alone.
LEMMA UnchangedStep ==
    ASSUME ProtocolInv, [WriterStep]_storeVars, UNCHANGED <<run, members, nextSeq>>
    PROVE  StorePart' /\ Quiet
  <1>1. Quiet
    BY UnchangedIsQuiet DEF ProtocolInv
  <1>2. RunsFollow'
    BY DEF ProtocolInv, RunsFollow
  <1> QED
    BY <1>1, <1>2, QuietStep

\* One session moves; those at work on other runs stay sound.
LEMMA SessionMove ==
    ASSUME ProtocolInv, StoreInv', NEW w \in Writers,
           session' \in [Writers -> Sessions \cup {Idle}],
           \A v \in Writers \ {w} : session'[v] = session[v],
           RunsNamed, \A s \in Sources : nextSeq[s] <= nextSeq'[s],
           SessionIsSound(w)',
           \A v \in Writers \ {w} :
              session[v].pc = "building" => SealsNothing(session[v].src),
           session'[w].pc = "building" => ~Locked(session'[w].src)
    PROVE  (SessionsAreSound /\ OneBuilderPerSource)'
  <1>t. \A s \in Sources : nextSeq'[s] \in Nat
    BY DEF StoreInv, StoreTypeOK
  <1>1. ASSUME NEW v \in Writers PROVE SessionIsSound(v)'
    <2>1. CASE v = w
      BY <2>1
    <2>2. CASE v # w
      BY <1>t, <2>2, SessionKept
    <2> QED
      BY <2>1, <2>2
  <1>2. OneBuilderPerSource'
    BY DEF OneBuilderPerSource, ProtocolInv, Locked
  <1> QED
    BY <1>1, <1>2 DEF SessionsAreSound

\* No session moves, and nothing is sealed.
LEMMA SessionsStay ==
    ASSUME ProtocolInv, StoreInv', Quiet, UNCHANGED session
    PROVE  (SessionsAreSound /\ OneBuilderPerSource)'
  <1>t. \A s \in Sources : nextSeq'[s] \in Nat
    BY DEF StoreInv, StoreTypeOK
  <1>b. \A w \in Writers : session[w].pc = "building" => session[w].src \in Sources
    BY DEF ProtocolInv, TypeOK, Idle, Sessions
  <1>1. \A w \in Writers : SessionIsSound(w)'
    BY <1>t, <1>b, SessionKept DEF Quiet
  <1>2. OneBuilderPerSource'
    BY DEF OneBuilderPerSource, ProtocolInv
  <1> QED
    BY <1>1, <1>2 DEF SessionsAreSound

\* One session moves, and nothing is sealed.
LEMMA QuietMove ==
    ASSUME ProtocolInv, StoreInv', Quiet, NEW w \in Writers,
           session' \in [Writers -> Sessions \cup {Idle}],
           \A v \in Writers \ {w} : session'[v] = session[v],
           SessionIsSound(w)',
           session'[w].pc = "building" => ~Locked(session'[w].src)
    PROVE  (SessionsAreSound /\ OneBuilderPerSource)'
  <1>b. \A v \in Writers : session[v].pc = "building" => session[v].src \in Sources
    BY DEF ProtocolInv, TypeOK, Idle, Sessions
  <1> QED
    BY <1>b, SessionMove DEF Quiet

\* What a session holds when it opens.
LEMMA OpeningFacts ==
    ASSUME ProtocolInv, NEW s \in Sources, NEW b \in Builds,
           NEW phase \in {"building", "prepared", "observed", "fixture"}, NEW n \in Seqs \cup {Null}
    PROVE  /\ Opening(s, b, phase, n) \in Sessions
           /\ Opening(s, b, phase, n).pc = phase
           /\ Opening(s, b, phase, n).src = s
           /\ Opening(s, b, phase, n).seq = n
           /\ Opening(s, b, phase, n).pred = NewestSealed(s)
           /\ Opening(s, b, phase, n).manifest = disk[s]
  <1>1. NewestSealed(s) \in Seqs \cup {Null}
    BY NewestFacts
  <1>2. /\ disk[s] \in Manifests /\ pointer[s] \in Seqs \cup {Null}
        /\ activation.number \in 0 .. MaxActivations
    BY DEF ProtocolInv, TypeOK, StoreTypeOK, Activations
  <1> QED
    BY <1>1, <1>2 DEF Opening, Sessions

\* The session of a writer after it has opened.
LEMMA OpenedSession ==
    ASSUME ProtocolInv, NEW w \in Writers, NEW s \in Sources, NEW b \in Builds,
           NEW phase \in {"building", "prepared", "observed", "fixture"}, NEW n \in Seqs \cup {Null},
           session' = [session EXCEPT ![w] = Opening(s, b, phase, n)]
    PROVE  /\ session' \in [Writers -> Sessions \cup {Idle}]
           /\ \A v \in Writers \ {w} : session'[v] = session[v]
           /\ session'[w].pc = phase /\ session'[w].src = s /\ session'[w].seq = n
           /\ session'[w].pred = NewestSealed(s) /\ session'[w].manifest = disk[s]
  <1> DEFINE f == Opening(s, b, phase, n)
  <1>1. /\ f \in Sessions /\ f.pc = phase /\ f.src = s /\ f.seq = n
        /\ f.pred = NewestSealed(s) /\ f.manifest = disk[s]
    BY OpeningFacts
  <1>2. session' = [session EXCEPT ![w] = f]
    OBVIOUS
  <1> HIDE DEF f
  <1>3. session'[w] = f
    BY <1>2 DEF ProtocolInv, TypeOK
  <1>4. /\ session' \in [Writers -> Sessions \cup {Idle}]
        /\ \A v \in Writers \ {w} : session'[v] = session[v]
    BY <1>1, <1>2 DEF ProtocolInv, TypeOK
  <1> QED
    BY <1>1, <1>3, <1>4

\* The session of a writer after it has ended.
LEMMA EndedSession ==
    ASSUME ProtocolInv, StoreInv', Quiet, NEW w \in Writers,
           session' = [session EXCEPT ![w] = Idle]
    PROVE  /\ session' \in [Writers -> Sessions \cup {Idle}]
           /\ (SessionsAreSound /\ OneBuilderPerSource)'
  <1>1. /\ session' \in [Writers -> Sessions \cup {Idle}]
        /\ \A v \in Writers \ {w} : session'[v] = session[v]
        /\ session'[w] = Idle
    BY DEF ProtocolInv, TypeOK
  <1>2. session'[w].pc = "idle"
    BY <1>1 DEF Idle
  <1>3. SessionIsSound(w)'
    BY <1>2 DEF SessionIsSound
  <1> QED
    BY <1>1, <1>2, <1>3, QuietMove

------------------------------------------------------------------------------
(* The steps.                                                               *)

\* A new run: its session owns it and stands at the tip.
LEMMA BeginFreshStep ==
    ASSUME ProtocolInv, NEW w \in Writers, NEW s \in Sources, NEW b \in Builds,
           BeginFresh(w, s, b)
    PROVE  StorePart' /\ SessionPart' /\ Quiet
  <1> DEFINE n == nextSeq[s]
  <1>i. StoreInv /\ RunsFollow /\ StoreTypeOK
    BY DEF ProtocolInv, StoreInv
  <1>1. AllocateRun(s, NewestSealed(s), disk[s], b)
    BY DEF BeginFresh
  <1>2. disk[s] \in Manifests /\ NewestSealed(s) \in 0 .. nextSeq[s] - 1
    <2>1. /\ NewestSealed(s) \in Seqs \cup {Null} /\ NewestSealed(s) < nextSeq[s]
          /\ nextSeq[s] \in Nat
      BY <1>i, NewestFacts DEF StoreTypeOK
    <2>2. disk[s] \in Manifests
      BY DEF ProtocolInv, TypeOK
    <2> QED
      BY <2>1, <2>2 DEF Seqs, Null
  <1>3. n \in Seqs
    BY <1>i, <1>1, <1>2, NewRunType DEF AllocateRun, Allocates
  <1>4. [WriterStep]_storeVars
    BY <1>1, <1>2 DEF WriterStep, RunStep
  <1>5. Quiet /\ RunsFollow'
    BY <1>i, <1>1, <1>2, AllocateIsQuiet, AllocateFollows
  <1>6. StorePart'
    BY <1>4, <1>5, QuietStep
  <1>7. run'[s][n] = NewRun(s, NewestSealed(s), disk[s], b)
    BY <1>i, <1>1, <1>2, <1>3, AllocateIsQuiet
  <1>8. /\ session' \in [Writers -> Sessions \cup {Idle}]
        /\ \A v \in Writers \ {w} : session'[v] = session[v]
        /\ session'[w].pc = "building" /\ session'[w].src = s /\ session'[w].seq = n
        /\ session'[w].pred = NewestSealed(s) /\ session'[w].manifest = disk[s]
    BY <1>3, OpenedSession DEF BeginFresh
  <1> HIDE DEF n
  <1>9. SessionIsSound(w)'
    <2>1. /\ run'[s][n].phase # "none" /\ run'[s][n].manifest = disk[s]
          /\ run'[s][n].pred = NewestSealed(s)
      BY <1>7 DEF NewRun
    <2>2. SealedRuns(s)' = SealedRuns(s)
      BY <1>5 DEF Quiet, SealsNothing, SealedRuns
    <2>3. \A k \in SealedRuns(s) : k <= NewestSealed(s)
      BY NewestFacts
    <2>4. OwnsRun(session[w])'
      BY <1>3, <1>8, <2>1 DEF OwnsRun
    <2>5. AtTheTip(session[w])'
      BY <1>8, <2>1, <2>2, <2>3 DEF AtTheTip
    <2> QED
      BY <1>8, <2>4, <2>5 DEF SessionIsSound
  <1>10. ~Locked(s)
    BY DEF BeginFresh, SessionAdmitted
  <1>11. (SessionsAreSound /\ OneBuilderPerSource)'
    BY <1>5, <1>6, <1>8, <1>9, <1>10, QuietMove DEF StorePart
  <1> QED
    BY <1>5, <1>6, <1>8, <1>11 DEF SessionPart, BeginFresh, ProtocolInv, TypeOK

\* A step in which only the session of w moves.
LEMMA SessionOnly ==
    ASSUME ProtocolInv, NEW w \in Writers, UNCHANGED <<storeVars, disk, plan>>,
           session' \in [Writers -> Sessions \cup {Idle}],
           \A v \in Writers \ {w} : session'[v] = session[v],
           SessionIsSound(w)',
           session'[w].pc = "building" => ~Locked(session'[w].src)
    PROVE  StorePart' /\ SessionPart' /\ Quiet
  <1>1. [WriterStep]_storeVars /\ UNCHANGED <<run, members, nextSeq>>
    BY DEF storeVars
  <1>2. StorePart' /\ Quiet
    BY <1>1, UnchangedStep
  <1>3. (SessionsAreSound /\ OneBuilderPerSource)'
    BY <1>2, QuietMove DEF StorePart
  <1> QED
    BY <1>2, <1>3 DEF SessionPart, ProtocolInv, TypeOK

\* A run that is resumed was begun above the newest sealed one.
LEMMA ResumeRunStep ==
    ASSUME ProtocolInv, NEW w \in Writers, NEW s \in Sources, NEW b \in Builds,
           ResumeRun(w, s, b)
    PROVE  StorePart' /\ SessionPart' /\ Quiet
  <1>1. PICK n \in KeyedRuns(s, NewestSealed(s), disk[s], b) :
           session' = [session EXCEPT ![w] = Opening(s, b, "building", n)]
    BY DEF ResumeRun
  <1>2. /\ n \in Seqs /\ run[s][n].phase # "none"
        /\ run[s][n].pred = NewestSealed(s) /\ run[s][n].manifest = disk[s]
    BY DEF KeyedRuns
  <1>3. /\ session' \in [Writers -> Sessions \cup {Idle}]
        /\ \A v \in Writers \ {w} : session'[v] = session[v]
        /\ session'[w].pc = "building" /\ session'[w].src = s /\ session'[w].seq = n
        /\ session'[w].pred = NewestSealed(s) /\ session'[w].manifest = disk[s]
    BY <1>1, <1>2, OpenedSession
  <1>4. UNCHANGED run
    BY DEF ResumeRun, storeVars
  <1>5. SessionIsSound(w)'
    <2>1. OwnsRun(session[w])'
      BY <1>2, <1>3, <1>4 DEF OwnsRun
    <2>2. SealedRuns(s)' = SealedRuns(s)
      BY <1>4 DEF SealedRuns
    <2>3. \A k \in SealedRuns(s) : k <= NewestSealed(s)
      BY NewestFacts
    <2>4. AtTheTip(session[w])'
      BY <1>2, <1>3, <1>4, <2>2, <2>3 DEF AtTheTip
    <2> QED
      BY <1>3, <2>1, <2>4 DEF SessionIsSound
  <1> QED
    BY <1>3, <1>5, SessionOnly DEF ResumeRun, SessionAdmitted

\* A sealed run that is answered has the observed manifest.
LEMMA ReuseGenerationStep ==
    ASSUME ProtocolInv, NEW w \in Writers, NEW s \in Sources, NEW b \in Builds,
           ReuseGeneration(w, s, b)
    PROVE  StorePart' /\ SessionPart' /\ Quiet
  <1> DEFINE a == BeginAnswer(s, NewestSealed(s), disk[s], b)
  <1>1. a \in Seqs /\ run[s][a].phase # "none" /\ run[s][a].manifest = disk[s]
    <2>1. CASE KeyedRuns(s, NewestSealed(s), disk[s], b) # {}
      <3>1. a \in KeyedRuns(s, NewestSealed(s), disk[s], b)
        BY <2>1 DEF BeginAnswer
      <3> QED
        BY <3>1 DEF KeyedRuns
    <2>2. CASE KeyedRuns(s, NewestSealed(s), disk[s], b) = {}
      <3>1. a # nextSeq[s] /\ run[s][a].phase = "sealed"
        BY DEF ReuseGeneration
      <3>2. Reusable(s, disk[s], b) /\ a = NewestSealed(s)
        BY <2>2, <3>1 DEF BeginAnswer
      <3>3. a \in SealedRuns(s)
        BY <3>2, NewestFacts DEF Reusable
      <3> QED
        BY <3>1, <3>2, <3>3 DEF Reusable, SealedRuns
    <2> QED
      BY <2>1, <2>2
  <1>2. session' = [session EXCEPT ![w] = Opening(s, b, "prepared", a)]
    BY DEF ReuseGeneration
  <1> HIDE DEF a
  <1>n. PICK n \in Seqs : n = a
    BY <1>1
  <1>3. /\ session' \in [Writers -> Sessions \cup {Idle}]
        /\ \A v \in Writers \ {w} : session'[v] = session[v]
        /\ session'[w].pc = "prepared" /\ session'[w].src = s /\ session'[w].seq = n
        /\ session'[w].pred = NewestSealed(s) /\ session'[w].manifest = disk[s]
    <2>1. session' = [session EXCEPT ![w] = Opening(s, b, "prepared", n)]
      BY <1>2, <1>n
    <2> QED
      BY <2>1, OpenedSession
  <1>4. UNCHANGED run
    BY DEF ReuseGeneration, storeVars
  <1>5. SessionIsSound(w)'
    <2>1. OwnsRun(session[w])'
      BY <1>1, <1>n, <1>3, <1>4 DEF OwnsRun
    <2> QED
      BY <1>3, <2>1 DEF SessionIsSound
  <1> QED
    BY <1>3, <1>5, SessionOnly DEF ReuseGeneration

LEMMA ObserveFixtureStep ==
    ASSUME ProtocolInv, NEW w \in Writers, NEW s \in Sources, NEW b \in Builds,
           ObserveFixture(w, s, b)
    PROVE  StorePart' /\ SessionPart' /\ Quiet
  <1>1. /\ session' \in [Writers -> Sessions \cup {Idle}]
        /\ \A v \in Writers \ {w} : session'[v] = session[v]
        /\ session'[w].pc = "fixture" /\ session'[w].src = s
        /\ session'[w].pred = NewestSealed(s)
    <2>1. session' = [session EXCEPT ![w] = Opening(s, b, "fixture", Null)]
      BY DEF ObserveFixture
    <2>2. Null \in Seqs \cup {Null}
      OBVIOUS
    <2> QED
      BY <2>1, <2>2, OpenedSession
  <1>2. UNCHANGED nextSeq /\ NewestSealed(s) < nextSeq[s]
    BY NewestFacts DEF ObserveFixture, storeVars
  <1>3. SessionIsSound(w)'
    BY <1>1, <1>2 DEF SessionIsSound, Observed
  <1> QED
    BY <1>1, <1>3, SessionOnly DEF ObserveFixture

LEMMA AbortStep ==
    ASSUME ProtocolInv, NEW w \in Writers, Abort(w)
    PROVE  StorePart' /\ SessionPart' /\ Quiet
  <1>1. /\ session' \in [Writers -> Sessions \cup {Idle}]
        /\ \A v \in Writers \ {w} : session'[v] = session[v]
        /\ session'[w].pc = "idle"
    BY DEF Abort, Idle, ProtocolInv, TypeOK
  <1>2. SessionIsSound(w)'
    BY <1>1 DEF SessionIsSound
  <1> QED
    BY <1>1, <1>2, SessionOnly DEF Abort

\* The catalogue's part across a sealing step.
LEMMA SealStep ==
    ASSUME ProtocolInv, NEW s \in Sources, NEW n \in Seqs, NEW r \in Runs, Seals(s, n, r)
    PROVE  /\ StorePart'
           /\ RunsNamed
           /\ \A t \in Sources : nextSeq[t] <= nextSeq'[t]
  <1>1. StoreInv' /\ BoundariesAreSealed'
    BY SealKeepsStore, SealKeepsBoundaries DEF ProtocolInv
  <1>2. RunsFollow' /\ RunsNamed
    BY SealRuns
  <1>3. (SealedShowsItsRun /\ NewestExists)'
    BY SealKeepsShown
  <1>4. \A t \in Sources : nextSeq[t] <= nextSeq'[t]
    BY SealFacts DEF ProtocolInv
  <1> QED
    BY <1>1, <1>2, <1>3, <1>4 DEF StorePart

\* A session seals its run: it stands at the tip, so the run is above all others.
LEMMA SealBuildSeals ==
    ASSUME ProtocolInv, NEW w \in Writers, SealBuild(w)
    PROVE  \E s \in Sources, n \in Seqs, r \in Runs :
              s = session[w].src /\ n = session[w].seq /\ Seals(s, n, r)
  <1>1. session[w].pc = "building"
    BY DEF SealBuild
  <1>2. session[w] \in Sessions
    BY <1>1 DEF ProtocolInv, TypeOK, Idle
  <1>3. OwnsRun(session[w]) /\ AtTheTip(session[w])
    BY <1>1 DEF ProtocolInv, SessionsAreSound, SessionIsSound
  <1>4. PICK s \in Sources : s = session[w].src
    BY <1>2 DEF Sessions
  <1>5. PICK n \in Seqs : n = session[w].seq
    BY <1>3 DEF OwnsRun
  <1>6. PICK r \in Runs : r = run[s][n]
    BY DEF ProtocolInv, StoreInv, StoreTypeOK
  <1>7. /\ SealInto(s, n, r, "verified") /\ r.staged = session[w].manifest
        /\ UNCHANGED <<registered, nextSeq, pointer, evidence, activation, receipted>>
    BY <1>4, <1>5, <1>6 DEF SealBuild
  <1>8. r.manifest = session[w].manifest /\ r.phase = "building" /\ r.pred = session[w].pred
    BY <1>3, <1>4, <1>5, <1>6, <1>7 DEF OwnsRun, AtTheTip, SealInto, Committable
  <1>9. r.manifest \in Manifests /\ r.pred < n
    BY <1>6, <1>8 DEF ProtocolInv, RunsFollow
  <1>10. \A k \in SealedRuns(s) : k < n
    <2>1. r.pred \in Nat /\ n \in Nat /\ SealedRuns(s) \subseteq Nat
      BY DEF Runs, Seqs, Null, SealedRuns
    <2>2. \A k \in SealedRuns(s) : k <= r.pred
      BY <1>3, <1>4, <1>8 DEF AtTheTip
    <2> QED
      BY <1>9, <2>1, <2>2
  <1>11. status[s][n] = "building"
    BY <1>6, <1>8 DEF ProtocolInv, StoreInv, SealedRunBehindEveryGeneration
  <1>12. Seals(s, n, r)
    BY <1>6, <1>7, <1>8, <1>9, <1>10, <1>11 DEF Seals
  <1> QED
    BY <1>4, <1>5, <1>12

LEMMA SealBuildStep ==
    ASSUME ProtocolInv, NEW w \in Writers, SealBuild(w)
    PROVE  StorePart' /\ SessionPart'
  <1>1. PICK s \in Sources, n \in Seqs, r \in Runs :
           s = session[w].src /\ n = session[w].seq /\ Seals(s, n, r)
    BY SealBuildSeals
  <1>2. StorePart' /\ RunsNamed /\ \A t \in Sources : nextSeq[t] <= nextSeq'[t]
    BY <1>1, SealStep
  <1>3. session[w].pc = "building" /\ session[w] \in Sessions
    BY DEF SealBuild, ProtocolInv, TypeOK, Idle
  <1>4. /\ session' \in [Writers -> Sessions \cup {Idle}]
        /\ \A v \in Writers \ {w} : session'[v] = session[v]
        /\ session'[w] = IF session[w].build \in NativeBuilds
                         THEN [session[w] EXCEPT !.pc = "prepared"] ELSE Idle
    <2> DEFINE f == IF session[w].build \in NativeBuilds
                    THEN [session[w] EXCEPT !.pc = "prepared"] ELSE Idle
    <2>1. f \in Sessions \cup {Idle}
      BY <1>3 DEF Sessions
    <2>2. session' = [session EXCEPT ![w] = f]
      BY DEF SealBuild
    <2> HIDE DEF f
    <2>3. /\ session' \in [Writers -> Sessions \cup {Idle}]
          /\ \A v \in Writers \ {w} : session'[v] = session[v]
          /\ session'[w] = f
      BY <2>1, <2>2 DEF ProtocolInv, TypeOK
    <2> QED
      BY <2>3 DEF f
  <1>5. SessionIsSound(w)'
    <2>1. CASE session[w].build \in NativeBuilds
      <3>1. /\ session'[w].pc = "prepared" /\ session'[w].src = s
            /\ session'[w].seq = n /\ session'[w].manifest = session[w].manifest
        BY <1>1, <1>3, <1>4, <2>1 DEF Sessions
      <3>2. OwnsRun(session[w])
        BY <1>3 DEF ProtocolInv, SessionsAreSound, SessionIsSound
      <3>3. OwnsRun(session[w])'
        BY <1>1, <1>2, <3>1, <3>2 DEF OwnsRun, RunsNamed
      <3> QED
        BY <3>1, <3>3 DEF SessionIsSound
    <2>2. CASE session[w].build \notin NativeBuilds
      <3>1. session'[w].pc = "idle"
        BY <1>4, <2>2 DEF Idle
      <3> QED
        BY <3>1 DEF SessionIsSound
    <2> QED
      BY <2>1, <2>2
  <1>6. \A v \in Writers \ {w} :
           session[v].pc = "building" => SealsNothing(session[v].src)
    <2> SUFFICES ASSUME NEW v \in Writers \ {w}, session[v].pc = "building"
                 PROVE  SealsNothing(session[v].src)
      OBVIOUS
    <2>1. session[v].src # s
      BY <1>1, <1>3 DEF ProtocolInv, OneBuilderPerSource
    <2>2. session[v].src \in Sources
      BY DEF ProtocolInv, TypeOK, Idle, Sessions
    <2> QED
      BY <1>1, <2>1, <2>2, SealRuns
  <1>7. session'[w].pc # "building"
    BY <1>3, <1>4 DEF Idle, Sessions
  <1>8. (SessionsAreSound /\ OneBuilderPerSource)'
    BY <1>2, <1>4, <1>5, <1>6, <1>7, SessionMove DEF StorePart
  <1> QED
    BY <1>2, <1>4, <1>8 DEF SessionPart, SealBuild, ProtocolInv, TypeOK

\* A fixture slice seals the next number, which is above everything.
LEMMA SealFixtureSeals ==
    ASSUME ProtocolInv, NEW w \in Writers, SealFixture(w)
    PROVE  \E s \in Sources, n \in Seqs, r \in Runs :
              s = session[w].src /\ ~Locked(s) /\ Seals(s, n, r)
  <1>1. session[w].pc = "fixture"
    BY DEF SealFixture
  <1>2. session[w] \in Sessions /\ Observed(session[w])
    BY <1>1 DEF ProtocolInv, TypeOK, Idle, SessionsAreSound, SessionIsSound
  <1>3. PICK s \in Sources : s = session[w].src
    BY <1>2 DEF Sessions
  <1>4. nextSeq[s] \in 1 .. MaxSeq + 1 /\ nextSeq[s] <= MaxSeq
    BY <1>3 DEF SealFixture, ProtocolInv, StoreInv, StoreTypeOK
  <1>5. PICK n \in Seqs : n = nextSeq[s]
    BY <1>4 DEF Seqs
  <1>6. /\ FixtureRun(session[w]) \in Runs
        /\ FixtureRun(session[w]).manifest = session[w].manifest
        /\ FixtureRun(session[w]).staged = session[w].manifest
        /\ FixtureRun(session[w]).pred = session[w].pred
    <2>1. /\ session[w].pred \in Seqs \cup {Null} /\ session[w].build \in Builds
          /\ session[w].manifest \in Manifests /\ session[w].manifest \in SUBSET Files
          /\ pointer[s] \in Seqs \cup {Null}
      BY <1>2, ManifestsAssumption DEF Sessions, ProtocolInv, StoreInv, StoreTypeOK
    <2> QED
      BY <1>3, <2>1 DEF FixtureRun, NewRun, Runs, Phases
  <1>7. PICK r \in Runs : r = FixtureRun(session[w])
    BY <1>6
  <1>8. /\ SealInto(s, n, r, "verified") /\ ~Locked(s)
        /\ nextSeq' = [nextSeq EXCEPT ![s] = @ + 1]
        /\ UNCHANGED <<registered, pointer, evidence, activation, receipted>>
    BY <1>3, <1>5, <1>7 DEF SealFixture
  <1>9. r.manifest \in Manifests /\ r.staged = r.manifest /\ r.pred < n
    BY <1>2, <1>3, <1>5, <1>6, <1>7 DEF Sessions, Observed
  <1>10. \A k \in SealedRuns(s) : k < n
    <2> SUFFICES ASSUME NEW k \in SealedRuns(s) PROVE k < n
      OBVIOUS
    <2>1. k \in Seqs /\ run[s][k].phase = "sealed"
      BY DEF SealedRuns
    <2>2. status[s][k] # "absent"
      BY <2>1 DEF ProtocolInv, StoreInv, SealedRunBehindEveryGeneration
    <2> QED
      BY <1>5, <2>1, <2>2 DEF ProtocolInv, StoreInv, NumbersAllocated
  <1>11. Seals(s, n, r)
    BY <1>5, <1>8, <1>9, <1>10 DEF Seals
  <1> QED
    BY <1>3, <1>8, <1>11

LEMMA SealFixtureStep ==
    ASSUME ProtocolInv, NEW w \in Writers, SealFixture(w)
    PROVE  StorePart' /\ SessionPart'
  <1>1. PICK s \in Sources, n \in Seqs, r \in Runs :
           s = session[w].src /\ ~Locked(s) /\ Seals(s, n, r)
    BY SealFixtureSeals
  <1>2. StorePart' /\ RunsNamed /\ \A t \in Sources : nextSeq[t] <= nextSeq'[t]
    BY <1>1, SealStep
  <1>3. /\ session' \in [Writers -> Sessions \cup {Idle}]
        /\ \A v \in Writers \ {w} : session'[v] = session[v]
        /\ session'[w].pc = "idle"
    BY DEF SealFixture, Idle, ProtocolInv, TypeOK
  <1>4. SessionIsSound(w)'
    BY <1>3 DEF SessionIsSound
  <1>5. \A v \in Writers \ {w} :
           session[v].pc = "building" => SealsNothing(session[v].src)
    <2> SUFFICES ASSUME NEW v \in Writers \ {w}, session[v].pc = "building"
                 PROVE  SealsNothing(session[v].src)
      OBVIOUS
    <2>1. session[v].src # s
      BY <1>1 DEF Locked
    <2>2. session[v].src \in Sources
      BY DEF ProtocolInv, TypeOK, Idle, Sessions
    <2> QED
      BY <1>1, <2>1, <2>2, SealRuns
  <1>6. (SessionsAreSound /\ OneBuilderPerSource)'
    BY <1>2, <1>3, <1>4, <1>5, SessionMove DEF StorePart
  <1> QED
    BY <1>2, <1>3, <1>6 DEF SessionPart, SealFixture, ProtocolInv, TypeOK

\* A checkpoint stages one item; no session moves.
LEMMA CheckpointItemStep ==
    ASSUME ProtocolInv, NEW w \in Writers, CheckpointItem(w)
    PROVE  StorePart' /\ SessionPart' /\ Quiet
  <1>1. session[w] \in Sessions
    BY DEF CheckpointItem, ProtocolInv, TypeOK, Idle
  <1>2. OwnsRun(session[w])
    BY DEF CheckpointItem, ProtocolInv, SessionsAreSound, SessionIsSound
  <1>3. PICK s \in Sources, n \in Seqs, f \in Files : StageShadowItem(s, n, f)
    BY <1>1, <1>2 DEF CheckpointItem, Sessions, OwnsRun
  <1>4. [WriterStep]_storeVars
    BY <1>3 DEF WriterStep, RunStep
  <1>5. Quiet /\ RunsFollow'
    BY <1>3, StageIsQuiet DEF ProtocolInv
  <1>6. StorePart'
    BY <1>4, <1>5, QuietStep
  <1>7. UNCHANGED <<disk, session, plan>>
    BY DEF CheckpointItem
  <1>8. (SessionsAreSound /\ OneBuilderPerSource)'
    BY <1>5, <1>6, <1>7, SessionsStay DEF StorePart
  <1> QED
    BY <1>5, <1>6, <1>7, <1>8 DEF SessionPart, ProtocolInv, TypeOK

\* The last look at the source: the session stays with its run.
LEMMA ObserveAgainStep ==
    ASSUME ProtocolInv, NEW w \in Writers, ObserveAgain(w)
    PROVE  /\ StorePart' /\ SessionPart' /\ Quiet
           /\ \A v \in Writers \ {w} : session'[v] = session[v]
           /\ session'[w].pc = "observed"
  <1> DEFINE f == [session[w] EXCEPT !.pc = "observed"]
  <1>1. session[w] \in Sessions /\ OwnsRun(session[w])
    BY DEF ObserveAgain, ProtocolInv, TypeOK, Idle, SessionsAreSound, SessionIsSound
  <1>2. /\ f \in Sessions /\ f.pc = "observed" /\ f.src = session[w].src
        /\ f.seq = session[w].seq /\ f.manifest = session[w].manifest
    BY <1>1 DEF Sessions
  <1>3. session' = [session EXCEPT ![w] = f]
    BY DEF ObserveAgain
  <1> HIDE DEF f
  <1>4. /\ session' \in [Writers -> Sessions \cup {Idle}]
        /\ \A v \in Writers \ {w} : session'[v] = session[v]
        /\ session'[w] = f
    BY <1>2, <1>3 DEF ProtocolInv, TypeOK
  <1>5. UNCHANGED <<storeVars, disk, plan>> /\ UNCHANGED run
    BY DEF ObserveAgain, storeVars
  <1>6. SessionIsSound(w)'
    BY <1>1, <1>2, <1>4, <1>5 DEF SessionIsSound, OwnsRun
  <1> QED
    BY <1>2, <1>4, <1>5, <1>6, SessionOnly

\* The pointer moves, and the session ends.
LEMMA CommitActiveStep ==
    ASSUME ProtocolInv, NEW w \in Writers, CommitActive(w)
    PROVE  /\ StorePart' /\ SessionPart' /\ Quiet
           /\ \E s \in Sources, n \in Seqs :
                 /\ s = session[w].src /\ n = session[w].seq
                 /\ run[s][n].manifest = session[w].manifest
                 /\ ActivateRegularIngest(s, n, session[w].pointer, session[w].number)
  <1>1. session[w] \in Sessions
    BY DEF CommitActive, ProtocolInv, TypeOK, Idle
  <1>2. OwnsRun(session[w])
    BY DEF CommitActive, ProtocolInv, SessionsAreSound, SessionIsSound
  <1>3. PICK s \in Sources : s = session[w].src
    BY <1>1 DEF Sessions
  <1>4. PICK n \in Seqs : n = session[w].seq
    BY <1>2 DEF OwnsRun
  <1>5. ActivateRegularIngest(s, n, session[w].pointer, session[w].number)
    BY <1>3, <1>4 DEF CommitActive
  <1>6. run[s][n].manifest = session[w].manifest
    BY <1>2, <1>3, <1>4 DEF OwnsRun
  <1>7. session[w].pointer \in Seqs \cup {Null} /\ session[w].number \in 1 .. MaxActivations
    BY <1>1, <1>5 DEF Sessions, ActivateRegularIngest, CompleteActiveSet
  <1>8. [WriterStep]_storeVars
    BY <1>5, <1>7 DEF WriterStep, PointerStep
  <1>9. UNCHANGED <<run, members, nextSeq>>
    BY <1>5 DEF ActivateRegularIngest
  <1>10. StorePart' /\ Quiet
    BY <1>8, <1>9, UnchangedStep
  <1>11. /\ session' \in [Writers -> Sessions \cup {Idle}]
         /\ (SessionsAreSound /\ OneBuilderPerSource)'
    BY <1>10, EndedSession DEF CommitActive, StorePart
  <1>12. SessionPart'
    BY <1>11 DEF SessionPart, CommitActive, ProtocolInv, TypeOK
  <1> QED
    BY <1>3, <1>4, <1>5, <1>6, <1>10, <1>12

\* The disk and the catalogue's other functions move no session.
LEMMA NoSessionStep ==
    ASSUME ProtocolInv, [WriterStep]_storeVars, Quiet, RunsFollow', UNCHANGED session,
           disk' \in [Sources -> Manifests], plan' \in Plans \cup {NoPlan}
    PROVE  StorePart' /\ SessionPart'
  <1>1. StorePart'
    BY QuietStep
  <1>2. (SessionsAreSound /\ OneBuilderPerSource)'
    BY <1>1, SessionsStay DEF StorePart
  <1> QED
    BY <1>1, <1>2 DEF SessionPart, ProtocolInv, TypeOK

LEMMA EnvironmentStep ==
    ASSUME ProtocolInv, NEW s \in Sources,
           \/ \E m \in Manifests : ChangeDisk(s, m)
           \/ Register(s)
           \/ \E n \in Seqs : Cleanup(s, n) \/ Qualify(s, n)
    PROVE  StorePart' /\ SessionPart' /\ Quiet
  <1>t. disk \in [Sources -> Manifests] /\ plan \in Plans \cup {NoPlan}
    BY DEF ProtocolInv, TypeOK
  <1>1. CASE \E m \in Manifests : ChangeDisk(s, m)
    <2>1. /\ disk' \in [Sources -> Manifests]
          /\ UNCHANGED <<storeVars, session, plan>>
      BY <1>1, <1>t DEF ChangeDisk
    <2>2. [WriterStep]_storeVars /\ UNCHANGED <<run, members, nextSeq>>
      BY <2>1 DEF storeVars
    <2>3. Quiet /\ RunsFollow'
      BY <2>2, UnchangedStep DEF StorePart
    <2> QED
      BY <1>t, <2>1, <2>2, <2>3, NoSessionStep
  <1>2. CASE Register(s)
    <2>1. [WriterStep]_storeVars /\ UNCHANGED <<run, members, nextSeq, disk, session, plan>>
      BY <1>2 DEF Register, WriterStep, RegisterSource
    <2>2. Quiet /\ RunsFollow'
      BY <2>1, UnchangedStep DEF StorePart
    <2> QED
      BY <1>t, <2>1, <2>2, NoSessionStep
  <1>3. ASSUME NEW n \in Seqs, Cleanup(s, n)
        PROVE  StorePart' /\ SessionPart' /\ Quiet
    <2>1. CleanupAbandonedIngest(s, n) /\ UNCHANGED <<disk, session, plan>>
      BY <1>3 DEF Cleanup
    <2>2. [WriterStep]_storeVars
      BY <2>1 DEF WriterStep, RunStep
    <2>3. Quiet /\ RunsFollow'
      BY <2>1, CleanupIsQuiet DEF ProtocolInv
    <2> QED
      BY <1>t, <2>1, <2>2, <2>3, NoSessionStep
  <1>4. ASSUME NEW n \in Seqs, Qualify(s, n)
        PROVE  StorePart' /\ SessionPart' /\ Quiet
    <2>1. /\ ReplaceReleaseCandidate(s, n)
          /\ UNCHANGED <<run, members, nextSeq, disk, session, plan>>
      BY <1>4 DEF Qualify, ReplaceReleaseCandidate
    <2>2. [WriterStep]_storeVars
      BY <2>1 DEF WriterStep, LifecycleStep
    <2>3. Quiet /\ RunsFollow'
      BY <2>1, <2>2, UnchangedStep DEF StorePart
    <2> QED
      BY <1>t, <2>1, <2>2, <2>3, NoSessionStep
  <1> QED
    BY <1>1, <1>2, <1>3, <1>4

\* The operator's plan: made, applied or given up.
LEMMA PlanStep ==
    ASSUME ProtocolInv, PlanSet \/ ApplyPlan \/ DiscardPlan
    PROVE  StorePart' /\ SessionPart' /\ Quiet
  <1>t. disk \in [Sources -> Manifests] /\ plan \in Plans \cup {NoPlan}
    BY DEF ProtocolInv, TypeOK
  <1>1. CASE PlanSet
    <2>1. plan' \in Plans
      <3>1. registered \in SUBSET Sources /\ pointer \in [Sources -> Seqs \cup {Null}]
        BY DEF ProtocolInv, TypeOK, StoreTypeOK
      <3> QED
        BY <1>1, <3>1 DEF PlanSet, Plans
    <2>2. UNCHANGED <<storeVars, disk, session>>
      BY <1>1 DEF PlanSet
    <2>3. [WriterStep]_storeVars /\ UNCHANGED <<run, members, nextSeq>>
      BY <2>2 DEF storeVars
    <2>4. Quiet /\ RunsFollow'
      BY <2>3, UnchangedStep DEF StorePart
    <2> QED
      BY <1>t, <2>1, <2>2, <2>3, <2>4, NoSessionStep
  <1>2. CASE ApplyPlan
    <2>1. plan \in Plans /\ ActivateCandidateSet(plan.target, plan.prior)
      BY <1>2, <1>t DEF ApplyPlan
    <2>2. /\ UNCHANGED <<run, members, nextSeq, disk, session>>
          /\ plan' = NoPlan
      BY <1>2, <2>1 DEF ApplyPlan, ActivateCandidateSet
    <2>3. [WriterStep]_storeVars
      BY <2>1 DEF WriterStep, PointerStep, Plans
    <2>4. Quiet /\ RunsFollow'
      BY <2>2, <2>3, UnchangedStep DEF StorePart
    <2> QED
      BY <1>t, <2>2, <2>3, <2>4, NoSessionStep
  <1>3. CASE DiscardPlan
    <2>1. UNCHANGED <<storeVars, disk, session>> /\ plan' = NoPlan
      BY <1>3 DEF DiscardPlan
    <2>2. [WriterStep]_storeVars /\ UNCHANGED <<run, members, nextSeq>>
      BY <2>1 DEF storeVars
    <2>3. Quiet /\ RunsFollow'
      BY <2>2, UnchangedStep DEF StorePart
    <2> QED
      BY <1>t, <2>1, <2>2, <2>3, NoSessionStep
  <1> QED
    BY <1>1, <1>2, <1>3

\* Every step keeps the invariant.  One that is neither of the sealing steps is quiet.
LEMMA ProtocolStep ==
    ASSUME ProtocolInv, [Next]_vars
    PROVE  /\ ProtocolInv'
           /\ Quiet \/ \E w \in Writers : SealBuild(w) \/ SealFixture(w)
  <1>1. CASE UNCHANGED vars
    <2>1. [WriterStep]_storeVars /\ UNCHANGED <<run, members, nextSeq, disk, session, plan>>
      BY <1>1 DEF vars, storeVars
    <2>2. Quiet /\ RunsFollow'
      BY <2>1, UnchangedStep DEF StorePart
    <2>3. disk' \in [Sources -> Manifests] /\ plan' \in Plans \cup {NoPlan}
      BY <2>1 DEF ProtocolInv, TypeOK
    <2> QED
      BY <2>1, <2>2, <2>3, NoSessionStep, InvariantKept
  <1>2. CASE \E s \in Sources, m \in Manifests : ChangeDisk(s, m)
    BY <1>2, EnvironmentStep, InvariantKept
  <1>3. ASSUME NEW w \in Writers, BuildStep(w) \/ Abort(w)
        PROVE  /\ ProtocolInv'
               /\ Quiet \/ \E v \in Writers : SealBuild(v) \/ SealFixture(v)
    <2>1. ASSUME NEW s \in Sources, NEW b \in Builds,
                 \/ BeginFresh(w, s, b) \/ ResumeRun(w, s, b)
                 \/ ReuseGeneration(w, s, b) \/ ObserveFixture(w, s, b)
          PROVE  StorePart' /\ SessionPart' /\ Quiet
      BY <2>1, BeginFreshStep, ResumeRunStep, ReuseGenerationStep, ObserveFixtureStep
    <2>2. CASE CheckpointItem(w)
      BY <2>2, CheckpointItemStep, InvariantKept
    <2>3. CASE SealBuild(w)
      BY <2>3, SealBuildStep, InvariantKept
    <2>4. CASE CommitActive(w)
      BY <2>4, CommitActiveStep, InvariantKept
    <2>5. CASE SealFixture(w)
      BY <2>5, SealFixtureStep, InvariantKept
    <2>6. CASE Abort(w)
      BY <2>6, AbortStep, InvariantKept
    <2>7. CASE ObserveAgain(w)
      BY <2>7, ObserveAgainStep, InvariantKept
    <2> QED
      BY <1>3, <2>1, <2>2, <2>3, <2>4, <2>5, <2>6, <2>7, InvariantKept DEF BuildStep
  <1>4. CASE OperatorStep
    BY <1>4, EnvironmentStep, PlanStep, InvariantKept DEF OperatorStep
  <1> QED
    BY <1>1, <1>2, <1>3, <1>4 DEF Next

LEMMA ProtocolInit == Init => ProtocolInv
  <1> SUFFICES ASSUME Init PROVE ProtocolInv
    OBVIOUS
  <1>1. StoreInv /\ BoundariesAreSealed
    BY InitInv, BoundaryInit DEF Init
  <1>2. \A s \in Sources : \A n \in Seqs : run[s][n].phase = "none"
    BY DEF Init, StoreInit, NoRun
  <1>3. \A s \in Sources : SealedRuns(s) = {}
    BY <1>2 DEF SealedRuns
  <1>4. RunsFollow /\ NewestExists /\ SealedShowsItsRun
    BY <1>2, <1>3 DEF RunsFollow, NewestExists, SealedShowsItsRun
  <1>5. \A w \in Writers : session[w].pc = "idle"
    BY DEF Init, Idle
  <1>6. SessionsAreSound /\ OneBuilderPerSource
    BY <1>5 DEF SessionsAreSound, SessionIsSound, OneBuilderPerSource
  <1>7. /\ disk \in [Sources -> Manifests] /\ session \in [Writers -> Sessions \cup {Idle}]
        /\ plan \in Plans \cup {NoPlan}
    BY DEF Init
  <1> QED
    BY <1>1, <1>4, <1>6, <1>7 DEF ProtocolInv, TypeOK, StoreInv

LEMMA ProtocolInvariant == Spec => []ProtocolInv
  <1>1. ProtocolInv /\ [Next]_vars => ProtocolInv'
    BY ProtocolStep
  <1> QED
    BY ProtocolInit, <1>1, PTL DEF Spec

\* The protocol and the catalogue stay well typed.
THEOREM ProtocolTypeCorrect == Spec => []TypeOK
  BY ProtocolInvariant, PTL DEF ProtocolInv

\* Whatever sessions, resumed runs, fixture slices and cleanups interleave, a
\* sealed generation shows exactly what its own run staged, and that is its
\* manifest.
THEOREM SealedGenerationsShowTheirRuns == Spec => []SealedShowsItsRun
  BY ProtocolInvariant, PTL DEF ProtocolInv

------------------------------------------------------------------------------
(* Pointers and the active set.                                             *)

\* Only the second transaction of an ordinary ingest and the operator's plan
\* move pointers or write activations.
LEMMA PointerMoves ==
    ASSUME [Next]_vars
    PROVE  \/ UNCHANGED <<pointer, activation>>
           \/ \E w \in Writers : CommitActive(w)
           \/ ApplyPlan
  <1> SUFFICES ASSUME ~ApplyPlan, \A w \in Writers : ~CommitActive(w)
               PROVE  UNCHANGED <<pointer, activation>>
    OBVIOUS
  <1>1. CASE UNCHANGED vars
    BY <1>1 DEF vars
  <1>2. CASE \E s \in Sources, m \in Manifests : ChangeDisk(s, m)
    BY <1>2 DEF ChangeDisk, storeVars
  <1>3. ASSUME NEW w \in Writers, BuildStep(w) \/ Abort(w)
        PROVE  UNCHANGED <<pointer, activation>>
    <2>1. CASE \E s \in Sources, b \in Builds : \/ BeginFresh(w, s, b)
                                                \/ ResumeRun(w, s, b)
                                                \/ ReuseGeneration(w, s, b)
                                                \/ ObserveFixture(w, s, b)
      BY <2>1 DEF BeginFresh, AllocateRun, Allocates, ResumeRun, ReuseGeneration, ObserveFixture,
                  storeVars
    <2>2. CASE CheckpointItem(w)
      BY <2>2 DEF CheckpointItem, StageShadowItem
    <2>3. CASE SealBuild(w) \/ SealFixture(w)
      BY <2>3 DEF SealBuild, SealFixture
    <2>4. CASE Abort(w) \/ ObserveAgain(w)
      BY <2>4 DEF Abort, ObserveAgain, storeVars
    <2> QED
      BY <1>3, <2>1, <2>2, <2>3, <2>4 DEF BuildStep
  <1>4. CASE OperatorStep
    BY <1>4 DEF OperatorStep, Register, RegisterSource, Cleanup, CleanupAbandonedIngest,
                Qualify, ReplaceReleaseCandidate, PlanSet, DiscardPlan, storeVars
  <1> QED
    BY <1>1, <1>2, <1>3, <1>4 DEF Next

\* What a sealed generation shows are the files of its manifest.
LEMMA SealedContents ==
    ASSUME ProtocolInv, NEW s \in Sources, NEW n \in SealedRuns(s)
    PROVE  {v[1] : v \in Visible(s, n)} = run[s][n].manifest
  <1>1. Visible(s, n) = StagedVersions(run[s][n]) /\ run[s][n].staged = run[s][n].manifest
    BY DEF ProtocolInv, SealedShowsItsRun
  <1>2. {v[1] : v \in StagedVersions(run[s][n])} = run[s][n].staged
    <2>1. \A v \in StagedVersions(run[s][n]) : v[1] \in run[s][n].staged
      BY DEF StagedVersions
    <2>2. ASSUME NEW f \in run[s][n].staged
          PROVE  \E v \in StagedVersions(run[s][n]) : v[1] = f
      <3>1. <<f, ProfileOf[run[s][n].build]>> \in StagedVersions(run[s][n])
        BY DEF StagedVersions
      <3> QED
        BY <3>1
    <2> QED
      BY <2>1, <2>2
  <1> QED
    BY <1>1, <1>2

\* A pointer moves to a generation that was sealed and not yet active; an ordinary
\* ingest moves one, away from what it observed and to the manifest it observed.
LEMMA CommitMoves ==
    ASSUME ProtocolInv, NEW w \in Writers, CommitActive(w)
    PROVE  \E s \in Sources, n \in Seqs :
              /\ s = session[w].src /\ session[w].pointer = pointer[s]
              /\ run[s][n].manifest = session[w].manifest
              /\ status[s][n] = "verified"
              /\ pointer' = [pointer EXCEPT ![s] = n]
              /\ activation' = [activation EXCEPT !.head = pointer']
              /\ n \in SealedRuns(s)
  BY CommitActiveStep DEF ActivateRegularIngest, SealedRuns

LEMMA PlanMoves ==
    ASSUME ProtocolInv, ApplyPlan
    PROVE  /\ \A s \in Sources : \/ pointer'[s] = pointer[s]
                                 \/ pointer'[s] \in SealedRuns(s)
           /\ \A s \in registered : pointer'[s] \in Seqs
           /\ activation'.number # activation.number
           /\ activation'.number # 0
           /\ activation'.covered = registered
           /\ activation'.head = pointer'
  <1>i. StoreInv
    BY DEF ProtocolInv
  <1>1. plan \in Plans /\ ActivateCandidateSet(plan.target, plan.prior)
    BY DEF ApplyPlan, ProtocolInv, TypeOK
  <1>2. plan.target \in [Sources -> Seqs]
    BY <1>1 DEF Plans
  <1>3. \A s \in registered : plan.target[s] \in SealedRuns(s)
    <2> TAKE s \in registered
    <2>1. s \in Sources /\ plan.target[s] \in Seqs
      BY <1>i, <1>2 DEF StoreInv, StoreTypeOK
    <2>2. status[s][plan.target[s]] = "release_candidate"
      BY <1>1 DEF ActivateCandidateSet, Activatable
    <2>3. run[s][plan.target[s]].phase = "sealed"
      BY <1>i, <2>1, <2>2 DEF StoreInv, SealedRunBehindEveryGeneration
    <2> QED
      BY <2>1, <2>3 DEF SealedRuns
  <1>4. /\ \A s \in Sources : pointer'[s] = IF s \in registered THEN plan.target[s]
                                            ELSE pointer[s]
        /\ activation' = [number |-> activation.number + 1, covered |-> registered,
                          head |-> pointer']
    BY <1>1 DEF ActivateCandidateSet
  <1>5. activation.number \in Nat
    BY <1>i DEF StoreInv, StoreTypeOK, Activations
  <1>6. registered \subseteq Sources
    BY <1>i DEF StoreInv, StoreTypeOK
  <1> QED
    BY <1>2, <1>3, <1>4, <1>5, <1>6

\* A pointer that is set names an active generation.
LEMMA SetPointerIsActive ==
    ASSUME ProtocolInv, NEW s \in Sources, pointer[s] # Null
    PROVE  status[s][pointer[s]] = "active"
  BY DEF ProtocolInv, StoreInv, StoreTypeOK, PointerNamesTheActive

LEMMA CompleteStep ==
    ASSUME ProtocolInv, [Next]_vars, CompleteActiveSet(activation.number),
           registered' = registered
    PROVE  CompleteActiveSet(activation.number)'
  <1>t. /\ pointer \in [Sources -> Seqs \cup {Null}] /\ registered \subseteq Sources
        /\ activation \in Activations /\ Null \notin Seqs
    BY DEF ProtocolInv, StoreInv, StoreTypeOK, Seqs, Null
  <1>c. /\ activation.number # 0 /\ activation.covered = registered
        /\ activation.head = pointer /\ \A s \in registered : pointer[s] # Null
    BY DEF CompleteActiveSet
  <1>1. /\ activation'.number # 0 /\ activation'.covered = registered
        /\ activation'.head = pointer' /\ \A s \in registered : pointer'[s] # Null
    <2>1. CASE UNCHANGED <<pointer, activation>>
      BY <1>c, <2>1
    <2>2. ASSUME NEW w \in Writers, CommitActive(w)
          PROVE  /\ activation'.number # 0 /\ activation'.covered = registered
                 /\ activation'.head = pointer'
                 /\ \A s \in registered : pointer'[s] # Null
      <3>1. PICK s \in Sources, n \in Seqs :
               /\ pointer' = [pointer EXCEPT ![s] = n]
               /\ activation' = [activation EXCEPT !.head = pointer']
        BY <2>2, CommitMoves
      <3>2. \A t \in Sources : pointer'[t] = IF t = s THEN n ELSE pointer[t]
        BY <1>t, <3>1
      <3>3. /\ activation'.number = activation.number
            /\ activation'.covered = activation.covered
            /\ activation'.head = pointer'
        BY <1>t, <3>1 DEF Activations
      <3> QED
        BY <1>t, <1>c, <3>2, <3>3
    <2>3. CASE ApplyPlan
      BY <1>t, <2>3, PlanMoves
    <2> QED
      BY <2>1, <2>2, <2>3, PointerMoves
  <1>2. ProtocolInv'
    BY ProtocolStep
  <1>3. \A s \in Sources : pointer'[s] # Null => status'[s][pointer'[s]] = "active"
    BY <1>2 DEF ProtocolInv, StoreInv, StoreTypeOK, PointerNamesTheActive
  <1> QED
    BY <1>t, <1>1, <1>3 DEF CompleteActiveSet

\* Once complete, the active set stays readable until a source outside it is
\* registered: the pointers, the newest receipt and the covered sources agree
\* after every ingest and activation.
THEOREM CompleteSetStaysComplete == Spec => ActiveSetStaysComplete
  <1>1. ProtocolInv /\ [Next]_vars
           => [CompleteActiveSet(activation.number) /\ registered' = registered
                 => CompleteActiveSet(activation.number)']_vars
    BY CompleteStep
  <1> QED
    BY ProtocolInvariant, <1>1, PTL DEF Spec, ActiveSetStaysComplete

------------------------------------------------------------------------------
(* The catalogue of immutable snapshots.                                    *)

\* One more snapshot, above all others of its source.
LEMMA SealAppends ==
    ASSUME ProtocolInv, NEW s \in Sources, NEW n \in Seqs, NEW r \in Runs, Seals(s, n, r)
    PROVE  /\ \A k \in DOMAIN Snapshots[s] : k < n
           /\ n \in DOMAIN Snapshots'[s]
           /\ Snapshots' = [Snapshots EXCEPT ![s] =
                 [k \in DOMAIN @ \cup {n} |-> IF k = n THEN Snapshots'[s][n] ELSE @[k]]]
  <1> DEFINE old(t) == [k \in SealedRuns(t) |-> Visible(t, k)]
             new == [k \in SealedRuns(s) \cup {n} |->
                        IF k = n THEN Visible(s, n)' ELSE Visible(s, k)]
  <1>1. /\ SealedRuns(s)' = SealedRuns(s) \cup {n}
        /\ \A t \in Sources \ {s} : SealedRuns(t)' = SealedRuns(t)
        /\ n \notin SealedRuns(s)
    BY SealRuns
  <1>2. \A t \in Sources : \A k \in SealedRuns(t) : Visible(t, k)' = Visible(t, k)
    BY SealShows
  <1>3. Snapshots = [t \in Sources |-> old(t)]
    BY DEF Snapshots
  <1>4. Snapshots' = [t \in Sources |-> [k \in SealedRuns(t)' |-> Visible(t, k)']]
    BY DEF Snapshots
  <1>5. [k \in SealedRuns(s)' |-> Visible(s, k)'] = new
    BY <1>1, <1>2
  <1>6. \A t \in Sources \ {s} : [k \in SealedRuns(t)' |-> Visible(t, k)'] = old(t)
    BY <1>1, <1>2
  <1>7. Snapshots' = [t \in Sources |-> IF t = s THEN new ELSE old(t)]
    BY <1>4, <1>5, <1>6
  <1>8. /\ Snapshots[s] = old(s) /\ DOMAIN old(s) = SealedRuns(s)
        /\ Snapshots'[s] = new /\ DOMAIN new = SealedRuns(s) \cup {n}
        /\ new[n] = Visible(s, n)'
    BY <1>3, <1>7
  <1>9. [k \in DOMAIN old(s) \cup {n} |-> IF k = n THEN new[n] ELSE old(s)[k]] = new
    BY <1>8
  <1>10. Snapshots' = [Snapshots EXCEPT ![s] = new]
    BY <1>3, <1>7
  <1>11. \A k \in SealedRuns(s) : k < n
    BY DEF Seals
  <1> QED
    BY <1>8, <1>9, <1>10, <1>11

LEMMA CatalogInitMapped == Init => Catalog!CatalogInit
  <1> SUFFICES ASSUME Init PROVE Catalog!CatalogInit
    OBVIOUS
  <1>1. \A s \in Sources : SealedRuns(s) = {}
    BY DEF Init, StoreInit, NoRun, SealedRuns
  <1>2. Snapshots = [s \in Sources |-> [n \in {} |-> {}]]
    <2>1. \A s \in Sources : [n \in SealedRuns(s) |-> Visible(s, n)] = [n \in {} |-> {}]
      BY <1>1
    <2> QED
      BY <2>1 DEF Snapshots
  <1>3. pointer = [s \in Sources |-> 0]
    BY DEF Init, StoreInit, Null
  <1> QED
    BY <1>2, <1>3 DEF Catalog!CatalogInit, Catalog!None

\* A sealing step appends, a moved pointer switches, every other step stutters.
LEMMA CatalogStepMapped ==
    ASSUME ProtocolInv, [Next]_vars
    PROVE  [Catalog!CatalogNext]_(Catalog!catalogVars)
  <1>i. ProtocolInv' /\ (Quiet \/ \E w \in Writers : SealBuild(w) \/ SealFixture(w))
    BY ProtocolStep
  <1>1. CASE Quiet
    <2>1. UNCHANGED Snapshots
      BY <1>1, QuietKeeps
    <2>2. \A s \in Sources : DOMAIN Snapshots[s] = SealedRuns(s)
      BY DEF Snapshots
    <2>3. \A s \in Sources : \/ pointer'[s] = pointer[s]
                             \/ pointer'[s] \in SealedRuns(s)
      <3>t. pointer \in [Sources -> Seqs \cup {Null}]
        BY DEF ProtocolInv, StoreInv, StoreTypeOK
      <3>1. ASSUME NEW w \in Writers, CommitActive(w), NEW s \in Sources
            PROVE  pointer'[s] = pointer[s] \/ pointer'[s] \in SealedRuns(s)
        <4>1. PICK t \in Sources, n \in Seqs :
                 pointer' = [pointer EXCEPT ![t] = n] /\ n \in SealedRuns(t)
          BY <3>1, CommitMoves
        <4> QED
          BY <3>t, <4>1
      <3> QED
        BY <3>1, PointerMoves, PlanMoves
    <2>4. pointer' \in [Sources -> Catalog!Numbers \cup {Catalog!None}]
      BY <1>i DEF ProtocolInv, StoreInv, StoreTypeOK, Seqs, Null, Catalog!Numbers,
                  Catalog!None
    <2>5. Catalog!Switch
      BY <2>1, <2>2, <2>3, <2>4 DEF Catalog!Switch
    <2> QED
      BY <2>5 DEF Catalog!CatalogNext
  <1>2. ASSUME NEW w \in Writers, SealBuild(w) \/ SealFixture(w)
        PROVE  Catalog!CatalogNext
    <2>1. PICK s \in Sources, n \in Seqs, r \in Runs : Seals(s, n, r)
      BY <1>2, SealBuildSeals, SealFixtureSeals
    <2>2. UNCHANGED pointer
      BY <2>1 DEF Seals
    <2>3. n \in DOMAIN Snapshots'[s] /\ Catalog!Append(s, n, Snapshots'[s][n])
      BY <2>1, <2>2, SealAppends DEF Catalog!Append
    <2>4. n \in Catalog!Numbers
      BY DEF Seqs, Catalog!Numbers
    <2> QED
      BY <2>3, <2>4 DEF Catalog!CatalogNext
  <1> QED
    BY <1>i, <1>1, <1>2

\* The writers, the catalogue functions and the operator's plan together implement
\* a history of immutable snapshots, numbered in increasing order, of which every
\* source's pointer names one.
THEOREM ProtocolImplementsSnapshots == Spec => ImplementsSnapshotCatalog
  <1>1. ProtocolInv /\ [Next]_vars => [Catalog!CatalogNext]_(Catalog!catalogVars)
    BY CatalogStepMapped
  <1> QED
    BY CatalogInitMapped, ProtocolInvariant, <1>1, PTL
       DEF Spec, ImplementsSnapshotCatalog, Catalog!CatalogSpec

------------------------------------------------------------------------------
(* The age of what is published.                                            *)

\* Generations that are or were active.
Published(s, n) == status[s][n] \in {"active", "superseded"}

\* Whoever observed pointer p of source s has seen content c on its disk: if p is
\* still the pointer, c is no older than what it points to.
Fresh(s, p, c) ==
    /\ p # Null => Published(s, p)
    /\ p = pointer[s] => c \in seen[s]

SessionsAreFresh ==
    \A w \in Writers : session[w].pc = "observed" =>
        Fresh(session[w].src, session[w].pointer, session[w].manifest)

PlanIsFresh ==
    plan # NoPlan => \A s \in plan.covers :
        /\ run[s][plan.target[s]].phase # "none"
        /\ Fresh(s, plan.prior[s], run[s][plan.target[s]].manifest)

DiskIsSeen == \A s \in Sources : disk[s] \in seen[s]

HistoryInv ==
    /\ ProtocolInv
    /\ DiskIsSeen
    /\ SessionsAreFresh
    /\ PlanIsFresh

\* A sealing step completes one generation that was absent or building; a quiet one
\* leaves what is published published.
LEMMA PublishedStays ==
    ASSUME ProtocolInv, [Next]_vars, NEW s \in Sources, NEW n \in Seqs, Published(s, n)
    PROVE  Published(s, n)'
  <1>t. /\ StoreInv /\ status \in [Sources -> [Seqs -> Statuses]]
        /\ pointer \in [Sources -> Seqs \cup {Null}]
    BY DEF ProtocolInv, StoreInv, StoreTypeOK
  <1>1. CASE UNCHANGED status
    BY <1>1 DEF Published
  <1>2. ASSUME NEW w \in Writers, SealBuild(w) \/ SealFixture(w) PROVE Published(s, n)'
    <2>1. PICK u \in Sources, k \in Seqs, r \in Runs : Seals(u, k, r)
      BY <1>2, SealBuildSeals, SealFixtureSeals
    <2>2. status[u][k] \in {"absent", "building"}
      BY <1>t, <2>1, SealTarget
    <2>3. ~(s = u /\ n = k)
      BY <2>2 DEF Published
    <2>4. status' = [status EXCEPT ![u][k] = "verified"]
      BY <2>1 DEF Seals, SealInto
    <2>5. status'[s][n] = status[s][n]
      BY <1>t, <2>3, <2>4
    <2> QED
      BY <2>5 DEF Published
  <1>3. ASSUME NEW w \in Writers, NEW u \in Sources, NEW b \in Builds, BeginFresh(w, u, b)
        PROVE  Published(s, n)'
    <2>1. /\ nextSeq[u] \in Seqs
          /\ status' = [status EXCEPT ![u][nextSeq[u]] = "building"]
      BY <1>t, <1>3, AllocatedNumber DEF BeginFresh, AllocateRun, Allocates, StoreInv
    <2>2. status[u][nextSeq[u]] = "absent"
      BY <1>t, <2>1 DEF StoreInv, NumbersAllocated, Seqs
    <2>3. ~(s = u /\ n = nextSeq[u])
      BY <2>2 DEF Published
    <2> QED
      BY <1>t, <2>1, <2>3 DEF Published
  <1>4. ASSUME NEW w \in Writers, CommitActive(w) PROVE Published(s, n)'
    <2>1. PICK u \in Sources, k \in Seqs :
             ActivateRegularIngest(u, k, session[w].pointer, session[w].number)
      BY <1>4, CommitActiveStep
    <2>2. status' = [status EXCEPT ![u] = Promote(@, session[w].pointer, k)]
      BY <2>1 DEF ActivateRegularIngest
    <2>3. status'[s][n] = IF s = u THEN Promote(status[s], session[w].pointer, k)[n]
                          ELSE status[s][n]
      BY <1>t, <2>2
    <2> QED
      BY <2>3 DEF Published, Promote
  <1>5. CASE ApplyPlan
    <2>1. \A u \in Sources : status'[u] = IF u \in registered
                              THEN Promote(status[u], plan.prior[u], plan.target[u])
                              ELSE status[u]
      BY <1>5 DEF ApplyPlan, ActivateCandidateSet
    <2> QED
      BY <2>1 DEF Published, Promote
  <1>6. ASSUME NEW u \in Sources, NEW k \in Seqs, Qualify(u, k) PROVE Published(s, n)'
    <2>1. /\ Qualifiable(u, k)
          /\ status' = [status EXCEPT ![u] =
                [j \in Seqs |-> IF j = k THEN "release_candidate"
                                ELSE IF j \in ReleaseCandidates(u) THEN "verified"
                                ELSE @[j]]]
      BY <1>6 DEF Qualify, ReplaceReleaseCandidate
    <2>2. \A j \in Seqs : status'[s][j] = status[s][j]
                            \/ status[s][j] \in {"verified", "release_candidate"}
      BY <1>t, <2>1 DEF Qualifiable, ReleaseCandidates
    <2> QED
      BY <2>2 DEF Published
  <1>7. \/ UNCHANGED status
        \/ \E w \in Writers : \/ SealBuild(w) \/ SealFixture(w) \/ CommitActive(w)
                              \/ \E u \in Sources, b \in Builds : BeginFresh(w, u, b)
        \/ ApplyPlan
        \/ \E u \in Sources, k \in Seqs : Qualify(u, k)
    <2>1. CASE UNCHANGED vars
      BY <2>1 DEF vars
    <2>2. CASE \E u \in Sources, m \in Manifests : ChangeDisk(u, m)
      BY <2>2 DEF ChangeDisk, storeVars
    <2>3. ASSUME NEW w \in Writers,
                 \/ \E u \in Sources, b \in Builds : \/ ResumeRun(w, u, b)
                                                   \/ ReuseGeneration(w, u, b)
                                                   \/ ObserveFixture(w, u, b)
                 \/ CheckpointItem(w) \/ ObserveAgain(w) \/ Abort(w)
          PROVE  UNCHANGED status
      BY <2>3 DEF ResumeRun, ReuseGeneration, ObserveFixture, CheckpointItem,
                  StageShadowItem, ObserveAgain, Abort, storeVars
    <2>4. ASSUME NEW u \in Sources, NEW k \in Seqs, Register(u) \/ Cleanup(u, k)
          PROVE  UNCHANGED status
      BY <2>4 DEF Register, RegisterSource, Cleanup, CleanupAbandonedIngest
    <2>5. ASSUME NEW u \in Sources, Register(u)
          PROVE  UNCHANGED status
      BY <2>5 DEF Register, RegisterSource
    <2>6. CASE PlanSet \/ DiscardPlan
      BY <2>6 DEF PlanSet, DiscardPlan, storeVars
    <2>7. CASE OperatorStep
      BY <2>4, <2>5, <2>6, <2>7 DEF OperatorStep
    <2> QED
      BY <2>1, <2>2, <2>3, <2>7 DEF Next, BuildStep
  <1> QED
    BY <1>1, <1>2, <1>3, <1>4, <1>5, <1>6, <1>7

\* A pointer moves to a sealed generation that has never been active.
LEMMA PointerTarget ==
    ASSUME ProtocolInv, [Next]_vars, NEW s \in Sources, pointer'[s] # pointer[s]
    PROVE  pointer'[s] \in SealedRuns(s) /\ ~Published(s, pointer'[s])
  <1>t. pointer \in [Sources -> Seqs \cup {Null}]
    BY DEF ProtocolInv, StoreInv, StoreTypeOK
  <1>1. ASSUME NEW w \in Writers, CommitActive(w)
        PROVE  pointer'[s] \in SealedRuns(s) /\ ~Published(s, pointer'[s])
    <2>1. PICK u \in Sources, n \in Seqs :
             /\ pointer' = [pointer EXCEPT ![u] = n]
             /\ status[u][n] = "verified" /\ n \in SealedRuns(u)
      BY <1>1, CommitMoves
    <2>2. s = u /\ pointer'[s] = n
      BY <1>t, <2>1
    <2> QED
      BY <2>1, <2>2 DEF Published
  <1>2. CASE ApplyPlan
    <2>1. pointer'[s] \in SealedRuns(s)
      BY <1>2, PlanMoves
    <2>2. s \in registered /\ pointer'[s] = plan.target[s]
      BY <1>2 DEF ApplyPlan, ActivateCandidateSet
    <2>3. status[s][plan.target[s]] = "release_candidate"
      BY <1>2, <2>2 DEF ApplyPlan, ActivateCandidateSet, Activatable
    <2> QED
      BY <2>1, <2>2, <2>3 DEF Published
  <1> QED
    BY <1>1, <1>2, PointerMoves

\* What is fresh stays fresh: while the pointer stays, what was seen since it was
\* set only grows; and it never comes back to a generation that was published.
LEMMA FreshKept ==
    ASSUME HistoryInv, HistoryNext, NEW s \in Sources, NEW p \in Seqs \cup {Null}, NEW c,
           Fresh(s, p, c)
    PROVE  /\ p # Null => Published(s, p)'
           /\ p = pointer'[s] => c \in seen'[s]
  <1>1. ProtocolInv /\ [Next]_vars
    BY DEF HistoryInv, HistoryNext
  <1>2. p # Null => Published(s, p)'
    BY <1>1, PublishedStays DEF Fresh
  <1>3. ASSUME p = pointer'[s] PROVE c \in seen'[s]
    <2>1. pointer'[s] = pointer[s]
      <3> SUFFICES ASSUME pointer'[s] # pointer[s] PROVE FALSE
        OBVIOUS
      <3>1. pointer'[s] \in SealedRuns(s) /\ ~Published(s, pointer'[s])
        BY <1>1, PointerTarget
      <3>2. p # Null
        BY <1>3, <3>1 DEF SealedRuns, Seqs, Null
      <3> QED
        BY <1>3, <3>1, <3>2 DEF Fresh
    <2>2. c \in seen[s]
      BY <1>3, <2>1 DEF Fresh
    <2> QED
      BY <2>1, <2>2 DEF HistoryNext
  <1> QED
    BY <1>2, <1>3

\* A session that is observed afterwards was observed before, or has just looked at
\* the disk.
LEMMA ObservedSession ==
    ASSUME ProtocolInv, [Next]_vars, NEW w \in Writers, session'[w].pc = "observed"
    PROVE  \/ session'[w] = session[w]
           \/ /\ ObserveAgain(w)
              /\ session'[w].src = session[w].src
              /\ session'[w].pointer = session[w].pointer
              /\ session'[w].manifest = session[w].manifest
  <1>t. session \in [Writers -> Sessions \cup {Idle}]
    BY DEF ProtocolInv, TypeOK
  <1>1. CASE UNCHANGED session
    BY <1>1
  <1>2. ASSUME NEW v \in Writers, session' = [session EXCEPT ![v] = Idle]
        PROVE  session'[w] = session[w]
    BY <1>t, <1>2 DEF Idle
  <1>3. ASSUME NEW v \in Writers, NEW s \in Sources, NEW b \in Builds,
               NEW phase \in {"building", "prepared", "fixture"}, NEW n,
               session' = [session EXCEPT ![v] = Opening(s, b, phase, n)]
        PROVE  session'[w] = session[w]
    <2>1. Opening(s, b, phase, n).pc = phase
      BY DEF Opening
    <2>2. CASE v = w
      BY <1>t, <1>3, <2>1, <2>2
    <2>3. CASE v # w
      BY <1>t, <1>3, <2>3
    <2> QED
      BY <2>2, <2>3
  <1>4. ASSUME NEW v \in Writers, SealBuild(v)
        PROVE  session'[w] = session[w]
    <2>1. CASE v = w
      <3>1. session[w] \in Sessions
        BY <1>t, <1>4, <2>1 DEF SealBuild, Idle
      <3>2. session'[w] = IF session[w].build \in NativeBuilds
                          THEN [session[w] EXCEPT !.pc = "prepared"] ELSE Idle
        BY <1>t, <1>4, <2>1 DEF SealBuild
      <3>3. session'[w].pc \in {"prepared", "idle"}
        BY <3>1, <3>2 DEF Sessions, Idle
      <3> QED
        BY <3>3
    <2>2. CASE v # w
      BY <1>t, <1>4, <2>2 DEF SealBuild
    <2> QED
      BY <2>1, <2>2
  <1>5. ASSUME NEW v \in Writers, ObserveAgain(v)
        PROVE  \/ session'[w] = session[w]
               \/ /\ ObserveAgain(w)
                  /\ session'[w].src = session[w].src
                  /\ session'[w].pointer = session[w].pointer
                  /\ session'[w].manifest = session[w].manifest
    <2>1. session' = [session EXCEPT ![v].pc = "observed"]
      BY <1>5 DEF ObserveAgain
    <2>2. CASE v = w
      <3>1. session[w] \in Sessions
        BY <1>t, <1>5, <2>2 DEF ObserveAgain, Idle
      <3>2. session'[w] = [session[w] EXCEPT !.pc = "observed"]
        BY <1>t, <2>1, <2>2
      <3> QED
        BY <1>5, <2>2, <3>1, <3>2 DEF Sessions
    <2>3. CASE v # w
      BY <1>t, <2>1, <2>3
    <2> QED
      BY <2>2, <2>3
  <1>6. CASE UNCHANGED vars
    BY <1>1, <1>6 DEF vars
  <1>7. CASE \E s \in Sources, m \in Manifests : ChangeDisk(s, m)
    BY <1>1, <1>7 DEF ChangeDisk
  <1>8. ASSUME NEW v \in Writers, BuildStep(v) \/ Abort(v)
        PROVE  \/ session'[w] = session[w]
               \/ /\ ObserveAgain(w)
                  /\ session'[w].src = session[w].src
                  /\ session'[w].pointer = session[w].pointer
                  /\ session'[w].manifest = session[w].manifest
    <2>1. ASSUME NEW s \in Sources, NEW b \in Builds,
                 \/ BeginFresh(v, s, b) \/ ResumeRun(v, s, b)
                 \/ ReuseGeneration(v, s, b) \/ ObserveFixture(v, s, b)
          PROVE  session'[w] = session[w]
      BY <1>3, <2>1 DEF BeginFresh, ResumeRun, ReuseGeneration, ObserveFixture
    <2>2. CASE CheckpointItem(v)
      BY <1>1, <2>2 DEF CheckpointItem
    <2>3. CASE CommitActive(v) \/ SealFixture(v) \/ Abort(v)
      BY <1>2, <2>3 DEF CommitActive, SealFixture, Abort
    <2> QED
      BY <1>4, <1>5, <1>8, <2>1, <2>2, <2>3 DEF BuildStep
  <1>9. CASE OperatorStep
    BY <1>1, <1>9 DEF OperatorStep, Register, Cleanup, Qualify, PlanSet, ApplyPlan,
                      DiscardPlan
  <1> QED
    BY <1>6, <1>7, <1>8, <1>9 DEF Next

\* A plan that is there afterwards was there before, or has just been made.
LEMMA StandingPlan ==
    ASSUME [Next]_vars
    PROVE  plan' = plan \/ plan' = NoPlan \/ PlanSet
  <1>1. CASE UNCHANGED vars
    BY <1>1 DEF vars
  <1>2. CASE \E s \in Sources, m \in Manifests : ChangeDisk(s, m)
    BY <1>2 DEF ChangeDisk
  <1>3. CASE \E w \in Writers : BuildStep(w) \/ Abort(w)
    BY <1>3 DEF BuildStep, BeginFresh, ResumeRun, ReuseGeneration, ObserveFixture,
                CheckpointItem, SealBuild, ObserveAgain, CommitActive, SealFixture, Abort
  <1>4. CASE OperatorStep
    BY <1>4 DEF OperatorStep, Register, Cleanup, Qualify, ApplyPlan, DiscardPlan
  <1> QED
    BY <1>1, <1>2, <1>3, <1>4 DEF Next

\* Runs keep their names, whatever the step.
LEMMA RunsKeepNames ==
    ASSUME ProtocolInv, [Next]_vars
    PROVE  RunsNamed
  <1>1. ASSUME NEW w \in Writers, SealBuild(w) \/ SealFixture(w) PROVE RunsNamed
    BY <1>1, SealBuildSeals, SealFixtureSeals, SealRuns
  <1> QED
    BY <1>1, ProtocolStep DEF Quiet

LEMMA DiskStaysSeen ==
    ASSUME HistoryInv, HistoryNext
    PROVE  DiskIsSeen'
  BY DEF HistoryInv, HistoryNext, DiskIsSeen

LEMMA SessionsStayFresh ==
    ASSUME HistoryInv, HistoryNext
    PROVE  SessionsAreFresh'
  <1> SUFFICES ASSUME NEW w \in Writers, session'[w].pc = "observed"
               PROVE  Fresh(session[w].src, session[w].pointer, session[w].manifest)'
    BY DEF SessionsAreFresh
  <1>1. ProtocolInv /\ [Next]_vars /\ SessionsAreFresh /\ DiskIsSeen
    BY DEF HistoryInv, HistoryNext
  <1>2. CASE session'[w] = session[w]
    <2>1. session[w] \in Sessions
      BY <1>1, <1>2 DEF ProtocolInv, TypeOK, Idle
    <2>2. session[w].src \in Sources /\ session[w].pointer \in Seqs \cup {Null}
      BY <2>1 DEF Sessions
    <2>3. Fresh(session[w].src, session[w].pointer, session[w].manifest)
      BY <1>1, <1>2 DEF SessionsAreFresh
    <2> QED
      BY <1>2, <2>2, <2>3, FreshKept DEF Fresh, Published
  <1>3. CASE /\ ObserveAgain(w)
             /\ session'[w].src = session[w].src
             /\ session'[w].pointer = session[w].pointer
             /\ session'[w].manifest = session[w].manifest
    <2>1. session[w] \in Sessions
      BY <1>1, <1>3 DEF ObserveAgain, ProtocolInv, TypeOK, Idle
    <2>2. PICK s \in Sources : s = session[w].src
      BY <2>1 DEF Sessions
    <2>3. /\ pointer[s] = session[w].pointer /\ disk[s] = session[w].manifest
          /\ pointer[s] \in Seqs \cup {Null}
      BY <1>1, <1>3, <2>2 DEF ObserveAgain, ProtocolInv, StoreInv, StoreTypeOK
    <2>4. Fresh(s, pointer[s], disk[s])
      BY <1>1, <2>2, SetPointerIsActive DEF Fresh, Published, DiskIsSeen
    <2> QED
      BY <1>3, <2>2, <2>3, <2>4, FreshKept DEF Fresh, Published
  <1> QED
    BY <1>1, <1>2, <1>3, ObservedSession

LEMMA PlanStaysFresh ==
    ASSUME HistoryInv, HistoryNext
    PROVE  PlanIsFresh'
  <1> SUFFICES ASSUME plan' # NoPlan, NEW s \in plan'.covers
               PROVE  /\ run'[s][plan'.target[s]].phase # "none"
                      /\ Fresh(s, plan.prior[s], run[s][plan.target[s]].manifest)'
    BY DEF PlanIsFresh, Fresh, Published
  <1>1. ProtocolInv /\ [Next]_vars /\ PlanIsFresh /\ DiskIsSeen /\ RunsNamed
    BY RunsKeepNames DEF HistoryInv, HistoryNext
  <1>2. CASE plan' = plan
    <2>1. plan \in Plans
      BY <1>1, <1>2 DEF ProtocolInv, TypeOK
    <2>2. /\ s \in Sources /\ plan.target[s] \in Seqs
          /\ plan.prior[s] \in Seqs \cup {Null}
      BY <1>2, <2>1 DEF Plans
    <2>3. /\ run[s][plan.target[s]].phase # "none"
          /\ Fresh(s, plan.prior[s], run[s][plan.target[s]].manifest)
      BY <1>1, <1>2 DEF PlanIsFresh
    <2>4. /\ run'[s][plan.target[s]].phase # "none"
          /\ run'[s][plan.target[s]].manifest = run[s][plan.target[s]].manifest
      BY <1>1, <2>2, <2>3 DEF RunsNamed
    <2> QED
      BY <1>2, <2>2, <2>3, <2>4, FreshKept DEF Fresh, Published
  <1>3. CASE PlanSet
    <2>1. PICK target \in [Sources -> Seqs] :
             /\ \A t \in registered : /\ ReleaseCandidates(t) = {target[t]}
                                      /\ run[t][target[t]].manifest = disk[t]
             /\ plan' = [kind |-> "set", covers |-> registered,
                         target |-> target, prior |-> pointer]
      BY <1>3 DEF PlanSet
    <2>2. s \in registered /\ s \in Sources /\ target[s] \in Seqs
      BY <1>1, <2>1 DEF ProtocolInv, StoreInv, StoreTypeOK
    <2>3. UNCHANGED <<run, pointer, status>>
      BY <1>3 DEF PlanSet, storeVars
    <2>4. status[s][target[s]] = "release_candidate"
      BY <2>1, <2>2 DEF ReleaseCandidates
    <2>5. run[s][target[s]].phase # "none"
      BY <1>1, <2>2, <2>4 DEF ProtocolInv, StoreInv, SealedRunBehindEveryGeneration
    <2>6. Fresh(s, pointer[s], disk[s])
      BY <1>1, <2>2, SetPointerIsActive DEF Fresh, Published, DiskIsSeen
    <2>7. pointer[s] \in Seqs \cup {Null}
      BY <1>1, <2>2 DEF ProtocolInv, StoreInv, StoreTypeOK
    <2>8. plan'.prior[s] = pointer[s] /\ plan'.target[s] = target[s]
      BY <2>1
    <2>9. run[s][target[s]].manifest = disk[s]
      BY <2>1, <2>2
    <2> QED
      BY <2>2, <2>3, <2>5, <2>6, <2>7, <2>8, <2>9, FreshKept DEF Fresh, Published
  <1> QED
    BY <1>1, <1>2, <1>3, StandingPlan

\* Where a pointer moves, it moves to content seen since it was set.
LEMMA MovesAreFresh ==
    ASSUME HistoryInv, [Next]_vars, NEW s \in Sources, pointer'[s] # pointer[s]
    PROVE  /\ pointer'[s] \in SealedRuns(s)
           /\ run[s][pointer'[s]].manifest \in seen[s]
  <1>1. ProtocolInv /\ SessionsAreFresh /\ PlanIsFresh
    BY DEF HistoryInv
  <1>t. pointer \in [Sources -> Seqs \cup {Null}]
    BY <1>1 DEF ProtocolInv, StoreInv, StoreTypeOK
  <1>2. pointer'[s] \in SealedRuns(s)
    BY <1>1, PointerTarget
  <1>3. ASSUME NEW w \in Writers, CommitActive(w)
        PROVE  run[s][pointer'[s]].manifest \in seen[s]
    <2>1. PICK u \in Sources, n \in Seqs :
             /\ u = session[w].src /\ session[w].pointer = pointer[u]
             /\ run[u][n].manifest = session[w].manifest
             /\ pointer' = [pointer EXCEPT ![u] = n]
      BY <1>1, <1>3, CommitMoves
    <2>2. s = u /\ pointer'[s] = n
      BY <1>t, <2>1
    <2>3. Fresh(session[w].src, session[w].pointer, session[w].manifest)
      BY <1>1, <1>3 DEF SessionsAreFresh, CommitActive
    <2> QED
      BY <2>1, <2>2, <2>3 DEF Fresh
  <1>4. CASE ApplyPlan
    <2>1. /\ s \in registered /\ pointer'[s] = plan.target[s]
          /\ pointer[s] = plan.prior[s] /\ s \in plan.covers /\ plan # NoPlan
      BY <1>4 DEF ApplyPlan, ActivateCandidateSet, Activatable
    <2>2. Fresh(s, plan.prior[s], run[s][plan.target[s]].manifest)
      BY <1>1, <2>1 DEF PlanIsFresh
    <2> QED
      BY <1>2, <2>1, <2>2 DEF Fresh
  <1> QED
    BY <1>2, <1>3, <1>4, PointerMoves

LEMMA HistoryInvariant == HistorySpec => []HistoryInv
  <1>1. HistoryInit => HistoryInv
    <2> SUFFICES ASSUME HistoryInit PROVE HistoryInv
      OBVIOUS
    <2>1. Init /\ DiskIsSeen
      BY DEF HistoryInit, DiskIsSeen
    <2>2. (\A w \in Writers : session[w].pc = "idle") /\ plan = NoPlan
      BY <2>1 DEF Init, Idle
    <2> QED
      BY <2>1, <2>2, ProtocolInit DEF HistoryInv, SessionsAreFresh, PlanIsFresh
  <1>2. HistoryInv /\ [HistoryNext]_historyVars => HistoryInv'
    <2> SUFFICES ASSUME HistoryInv, [HistoryNext]_historyVars PROVE HistoryInv'
      OBVIOUS
    <2>1. CASE HistoryNext
      <3>1. ProtocolInv'
        BY <2>1, ProtocolStep DEF HistoryInv, HistoryNext
      <3> QED
        BY <2>1, <3>1, DiskStaysSeen, SessionsStayFresh, PlanStaysFresh DEF HistoryInv
    <2>2. CASE UNCHANGED historyVars
      <3>1. UNCHANGED <<vars, seen, disk, session, plan, run, pointer, status>>
        BY <2>2 DEF historyVars, vars
      <3>2. ProtocolInv'
        BY <3>1, ProtocolStep DEF HistoryInv
      <3> QED
        BY <3>1, <3>2 DEF HistoryInv, DiskIsSeen, SessionsAreFresh, PlanIsFresh, Fresh,
                          Published
    <2> QED
      BY <2>1, <2>2
  <1> QED
    BY <1>1, <1>2, PTL DEF HistorySpec

\* Requests and plans that overtake one another take no source back to content that
\* had left its disk before the generation they replace became active.
THEOREM NothingOlderIsPublished == HistorySpec => PublishesNothingOlder
  <1>1. HistoryInv /\ [HistoryNext]_historyVars
           => [\A s \in Sources : pointer'[s] # pointer[s]
                 => {v[1] : v \in Visible(s, pointer'[s])} \in seen[s]]_historyVars
    <2> SUFFICES ASSUME HistoryInv, HistoryNext, NEW s \in Sources,
                        pointer'[s] # pointer[s]
                 PROVE  {v[1] : v \in Visible(s, pointer'[s])} \in seen[s]
      OBVIOUS
    <2>1. ProtocolInv /\ [Next]_vars
      BY DEF HistoryInv, HistoryNext
    <2>2. /\ pointer'[s] \in SealedRuns(s)
          /\ run[s][pointer'[s]].manifest \in seen[s]
      BY <2>1, MovesAreFresh
    <2> QED
      BY <2>1, <2>2, SealedContents
  <1> QED
    BY <1>1, HistoryInvariant, PTL DEF HistorySpec, PublishesNothingOlder
==============================================================================
