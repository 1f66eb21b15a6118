-------------------------- MODULE ManagedAppendProofs --------------------------
(***************************************************************************)
(* Proofs about managed append sources: that the frontier names the newest    *)
(* sealed generation of its profile, that the generations of a profile extend *)
(* one another, that damage of an old segment is found in time, and that the  *)
(* protocol with copied prefixes still implements the catalogue of snapshots. *)
(***************************************************************************)
EXTENDS ManagedAppend, IngestProtocolProofs

------------------------------------------------------------------------------
(* The inductive invariant.                                                 *)

\* What a session f took from the frontier is still there when it seals: nothing was
\* sealed in its source since.  A build that compares no bytes continues the newest
\* generation, and has not done so too often.
BasisHolds(f, o) ==
    LET row == frontier[f.src][ProfileOf[f.build]]
    IN  /\ o.prior # Null => o.prior = row.seq /\ o.prefix = row.segments
        /\ ~o.full => /\ o.prior # Null
                      /\ row.appends + 1 < FullEvery
                      /\ \A k \in SealedRuns(f.src) : k <= row.seq

\* A session builds the run of its own build.
BuildsItsRun(f) == run[f.src][f.seq].build = f.build

WriterIsSound(w) ==
    session[w].pc = "building" =>
        BuildsItsRun(session[w]) /\ BasisHolds(session[w], basis[w])

WritersAreSound == \A w \in Writers : WriterIsSound(w)

\* Every generation that was sealed over damage was a delta of the frontier it
\* left, so the row counts it.
UnnoticedIsCounted ==
    \A s \in Sources :
        /\ SealedRuns(s) = {} => unnoticed[s] = 0
        /\ \A p \in Profiles :
              (/\ frontier[s][p].seq # Null
               /\ \A k \in SealedRuns(s) : k <= frontier[s][p].seq)
              => unnoticed[s] <= frontier[s][p].appends

FrontierPart ==
    /\ FrontierNamesTheNewest
    /\ GenerationsExtend
    /\ UnnoticedIsCounted

AppendInv ==
    /\ ProtocolInv
    /\ AppendTypeOK
    /\ FrontierPart
    /\ WritersAreSound

------------------------------------------------------------------------------
(* The frontier.                                                            *)

FrontierRows == [seq : Seqs \cup {Null}, segments : Manifests \cup {{}},
                 appends : 0 .. FullEvery - 1]

Bases == [prior : Seqs \cup {Null}, prefix : Manifests \cup {{}}, full : BOOLEAN]

\* The basis of a build that begins now: if it names a generation, it is the row of
\* its profile; and it is no delta unless the row is that of the newest generation
\* and leaves room for one more.
LEMMA BasisFacts ==
    ASSUME AppendInv, NEW s \in Sources, NEW b \in Builds
    PROVE  LET o == Basis(s, b)
               row == frontier[s][ProfileOf[b]]
           IN  /\ o \in Bases
               /\ o.prior # Null => o.prior = row.seq /\ o.prefix = row.segments
               /\ ~o.full => /\ o.prior # Null
                             /\ row.appends + 1 < FullEvery
                             /\ \A k \in SealedRuns(s) : k <= row.seq
  <1> DEFINE row == frontier[s][ProfileOf[b]]
             f == Known(s, ProfileOf[b])
  <1>1. row \in FrontierRows
    <2>1. ProfileOf[b] \in Profiles
      BY DEF Profiles
    <2> QED
      BY <2>1 DEF AppendInv, AppendTypeOK, FrontierRows
  <1>2. NoFrontier \in FrontierRows
    BY AppendAssumption DEF NoFrontier, FrontierRows
  <1>3. f \in FrontierRows /\ (f.seq # Null => f = row)
    BY <1>1, <1>2 DEF Known, NoFrontier
  <1>4. FullDue(s, f) \in BOOLEAN
    BY DEF FullDue
  <1>5. ~FullDue(s, f) => /\ f.seq # Null
                          /\ row.appends + 1 < FullEvery
                          /\ \A k \in SealedRuns(s) : k <= row.seq
    <2>1. row.appends \in Nat /\ FullEvery \in Nat
      BY <1>1, AppendAssumption DEF FrontierRows
    <2>2. \A k \in SealedRuns(s) : k <= NewestSealed(s)
      BY NewestFacts DEF AppendInv
    <2> QED
      BY <1>3, <2>1, <2>2 DEF FullDue
  <1>6. Basis(s, b) = [prior |-> f.seq, prefix |-> f.segments, full |-> FullDue(s, f)]
    BY DEF Basis
  <1> HIDE DEF f
  <1> QED
    BY <1>3, <1>4, <1>5, <1>6 DEF FrontierRows, Bases

\* No run changes its build.
BuildsKept ==
    \A s \in Sources : \A n \in Seqs :
        run[s][n].phase # "none" => run'[s][n].build = run[s][n].build

\* A step that seals nothing and leaves the rows alone.
LEMMA QuietFrontier ==
    ASSUME AppendInv, Quiet, UNCHANGED <<frontier, unnoticed>>
    PROVE  FrontierPart'
  <1>1. \A s \in Sources : SealedRuns(s)' = SealedRuns(s) /\ SealedRuns(s) \subseteq Seqs
    BY DEF Quiet, SealsNothing, SealedRuns
  <1>2. \A s \in Sources : \A n \in SealedRuns(s) : run'[s][n] = run[s][n]
    BY DEF Quiet
  <1>3. \A s \in Sources, p \in Profiles : SealedWith(s, p)' = SealedWith(s, p)
    BY <1>1, <1>2 DEF SealedWith
  <1>4. \A s \in Sources, p \in Profiles :
           \A n \in SealedWith(s, p) : n \in SealedRuns(s) /\ run'[s][n] = run[s][n]
    BY <1>2 DEF SealedWith
  <1>5. FrontierNamesTheNewest'
    <2> SUFFICES ASSUME NEW s \in Sources, NEW p \in Profiles
                 PROVE  IF SealedWith(s, p) = {} THEN frontier[s][p] = NoFrontier
                        ELSE /\ frontier[s][p].seq \in SealedWith(s, p)
                             /\ \A n \in SealedWith(s, p) : n <= frontier[s][p].seq
                             /\ frontier[s][p].segments = run'[s][frontier[s][p].seq].staged
      BY <1>3 DEF FrontierNamesTheNewest
    <2> QED
      BY <1>4 DEF AppendInv, FrontierPart, FrontierNamesTheNewest
  <1>6. GenerationsExtend'
    <2> SUFFICES ASSUME NEW s \in Sources, NEW p \in Profiles,
                        NEW n \in SealedWith(s, p), NEW k \in SealedWith(s, p), n <= k
                 PROVE  run'[s][n].manifest \subseteq run'[s][k].manifest
      BY <1>3 DEF GenerationsExtend
    <2> QED
      BY <1>4 DEF AppendInv, FrontierPart, GenerationsExtend
  <1>7. UnnoticedIsCounted'
    BY <1>1 DEF AppendInv, FrontierPart, UnnoticedIsCounted
  <1> QED
    BY <1>5, <1>6, <1>7 DEF FrontierPart

\* A session that stays at work, in a source where nothing is sealed.
LEMMA WriterKept ==
    ASSUME AppendInv, BuildsKept, NEW w \in Writers,
           session'[w] = session[w], basis'[w] = basis[w],
           session[w].pc = "building" => /\ SealsNothing(session[w].src)
                                         /\ frontier'[session[w].src] = frontier[session[w].src]
    PROVE  WriterIsSound(w)'
  <1> SUFFICES ASSUME session[w].pc = "building"
               PROVE  (BuildsItsRun(session[w]) /\ BasisHolds(session[w], basis[w]))'
    BY DEF WriterIsSound
  <1> DEFINE s == session[w].src
             n == session[w].seq
  <1>1. s \in Sources /\ n \in Seqs /\ run[s][n].phase # "none"
    <2>1. session[w] \in Sessions
      BY DEF AppendInv, ProtocolInv, TypeOK, Idle
    <2>2. OwnsRun(session[w])
      BY DEF AppendInv, ProtocolInv, SessionsAreSound, SessionIsSound
    <2> QED
      BY <2>1, <2>2 DEF Sessions, OwnsRun
  <1>2. BuildsItsRun(session[w]) /\ BasisHolds(session[w], basis[w])
    BY DEF AppendInv, WritersAreSound, WriterIsSound
  <1>3. run'[s][n].build = run[s][n].build
    BY <1>1 DEF BuildsKept
  <1>4. SealedRuns(s)' = SealedRuns(s)
    BY DEF SealsNothing, SealedRuns
  <1>5. BuildsItsRun(session[w])'
    BY <1>2, <1>3 DEF BuildsItsRun
  <1>6. BasisHolds(session[w], basis[w])'
    BY <1>2, <1>4 DEF BasisHolds
  <1> QED
    BY <1>5, <1>6

------------------------------------------------------------------------------
(* Steps that change one unsealed run.                                      *)

\* A new run, which may have a prefix staged.
NewRunAt(s, r) ==
    /\ nextSeq[s] <= MaxSeq
    /\ nextSeq' = [nextSeq EXCEPT ![s] = @ + 1]
    /\ status' = [status EXCEPT ![s][nextSeq[s]] = "building"]
    /\ run' = [run EXCEPT ![s][nextSeq[s]] = r]
    /\ UNCHANGED <<registered, pointer, members, evidence, activation, receipted>>

\* A run that is building, with more staged.
RunGrows(s, n, F) ==
    /\ run[s][n].phase = "building"
    /\ run' = [run EXCEPT ![s][n].staged = @ \cup F]
    /\ UNCHANGED <<registered, nextSeq, pointer, status, members, evidence, activation,
                   receipted>>

\* The changed runs, one by one.
LEMMA NewRunFacts ==
    ASSUME StoreInv, NEW s \in Sources, NEW r \in Runs, NewRunAt(s, r)
    PROVE  /\ nextSeq[s] \in Seqs
           /\ status[s][nextSeq[s]] = "absent" /\ run[s][nextSeq[s]].phase = "none"
           /\ \A t \in Sources : \A k \in Seqs :
                 /\ run'[t][k] = IF t = s /\ k = nextSeq[s] THEN r ELSE run[t][k]
                 /\ status'[t][k] = IF t = s /\ k = nextSeq[s] THEN "building"
                                    ELSE status[t][k]
           /\ \A t \in Sources :
                 nextSeq'[t] = IF t = s THEN nextSeq[s] + 1 ELSE nextSeq[t]
           /\ StoreTypeOK'
  <1> DEFINE n == nextSeq[s]
  <1>1. n \in 1 .. MaxSeq + 1 /\ n <= MaxSeq
    BY DEF NewRunAt, StoreInv, StoreTypeOK
  <1>2. n \in Seqs /\ n + 1 \in 1 .. MaxSeq + 1
    BY <1>1, BoundsAssumption DEF Seqs
  <1>3. status[s][n] = "absent"
    BY <1>2 DEF StoreInv, NumbersAllocated, Seqs
  <1>4. run[s][n].phase = "none"
    BY <1>2, <1>3 DEF StoreInv, SealedRunBehindEveryGeneration
  <1>5. /\ nextSeq' = [nextSeq EXCEPT ![s] = n + 1]
        /\ status' = [status EXCEPT ![s][n] = "building"]
        /\ run' = [run EXCEPT ![s][n] = r]
        /\ UNCHANGED <<registered, pointer, members, evidence, activation, receipted>>
    BY DEF NewRunAt
  <1> HIDE DEF n
  <1>6. /\ \A t \in Sources : \A k \in Seqs :
              /\ run'[t][k] = IF t = s /\ k = n THEN r ELSE run[t][k]
              /\ status'[t][k] = IF t = s /\ k = n THEN "building" ELSE status[t][k]
        /\ \A t \in Sources : nextSeq'[t] = IF t = s THEN n + 1 ELSE nextSeq[t]
    BY <1>2, <1>5 DEF StoreInv, StoreTypeOK
  <1>7. StoreTypeOK'
    <2>1. nextSeq' \in [Sources -> 1 .. MaxSeq + 1]
      BY <1>2, <1>5 DEF StoreInv, StoreTypeOK
    <2>2. status' \in [Sources -> [Seqs -> Statuses]]
      BY <1>2, <1>5 DEF StoreInv, StoreTypeOK, Statuses
    <2>3. run' \in [Sources -> [Seqs -> Runs]]
      BY <1>2, <1>5 DEF StoreInv, StoreTypeOK
    <2> QED
      BY <1>5, <2>1, <2>2, <2>3 DEF StoreInv, StoreTypeOK
  <1> QED
    BY <1>2, <1>3, <1>4, <1>6, <1>7 DEF n

LEMMA NewRunStep ==
    ASSUME ProtocolInv, NEW s \in Sources, NEW r \in Runs, NewRunAt(s, r),
           r.phase = "building", r.pred < nextSeq[s], r.manifest \in Manifests,
           r.staged \subseteq r.manifest
    PROVE  StorePart' /\ Quiet /\ BuildsKept
  <1> DEFINE n == nextSeq[s]
  <1>i. StoreInv
    BY DEF ProtocolInv
  <1>1. /\ n \in Seqs /\ n \in Nat
        /\ status[s][n] = "absent" /\ run[s][n].phase = "none"
        /\ \A t \in Sources : \A k \in Seqs :
              /\ run'[t][k] = IF t = s /\ k = n THEN r ELSE run[t][k]
              /\ status'[t][k] = IF t = s /\ k = n THEN "building" ELSE status[t][k]
        /\ \A t \in Sources : nextSeq'[t] = IF t = s THEN n + 1 ELSE nextSeq[t]
        /\ StoreTypeOK'
    BY <1>i, NewRunFacts DEF Seqs
  <1>2. UNCHANGED <<pointer, members>>
    BY DEF NewRunAt
  <1>r. r.pred < n
    OBVIOUS
  <1> HIDE DEF n
  <1>3. NumbersAllocated'
    <2> SUFFICES ASSUME NEW t \in Sources, NEW k \in Seqs
                 PROVE  k < nextSeq'[t] <=> status'[t][k] # "absent"
      BY DEF NumbersAllocated
    <2>1. k < nextSeq[t] <=> status[t][k] # "absent"
      BY <1>i DEF StoreInv, NumbersAllocated
    <2>2. k \in Nat /\ nextSeq[t] \in Nat
      BY <1>i DEF Seqs, StoreInv, StoreTypeOK
    <2>3. t = s => nextSeq[t] = n
      BY DEF n
    <2>4. CASE t = s /\ k = n
      BY <1>1, <2>4
    <2>5. CASE t = s /\ k # n
      BY <1>1, <2>1, <2>2, <2>3, <2>5
    <2>6. CASE t # s
      BY <1>1, <2>1, <2>6
    <2> QED
      BY <2>4, <2>5, <2>6
  <1>4. SealedRunBehindEveryGeneration'
    BY <1>i, <1>1 DEF StoreInv, SealedRunBehindEveryGeneration
  <1>5. PointerNamesTheActive'
    BY <1>i, <1>1, <1>2 DEF StoreInv, PointerNamesTheActive
  <1>6. RunsNamed /\ BuildsKept
    BY <1>1 DEF RunsNamed, BuildsKept
  <1>7. Quiet
    <2>1. \A t \in Sources : SealsNothing(t)
      BY <1>1 DEF SealsNothing
    <2>2. \A t \in Sources : \A k \in SealedRuns(t) : run'[t][k] = run[t][k]
      BY <1>1 DEF SealedRuns
    <2>3. \A t \in Sources : nextSeq[t] <= nextSeq'[t]
      <3>1. \A t \in Sources : nextSeq[t] \in Nat
        BY <1>i DEF StoreInv, StoreTypeOK
      <3>2. nextSeq[s] = n
        BY DEF n
      <3> QED
        BY <1>1, <3>1, <3>2
    <2> QED
      BY <1>2, <1>6, <2>1, <2>2, <2>3 DEF Quiet
  <1>8. RunsFollow'
    <2> SUFFICES ASSUME NEW t \in Sources, NEW k \in Seqs, run'[t][k].phase # "none"
                 PROVE  /\ run'[t][k].pred < k
                        /\ run'[t][k].manifest \in Manifests
                        /\ run'[t][k].staged \subseteq run'[t][k].manifest
      BY DEF RunsFollow
    <2>1. CASE t = s /\ k = n
      BY <1>1, <1>r, <2>1
    <2>2. CASE ~(t = s /\ k = n)
      <3>1. run'[t][k] = run[t][k]
        BY <1>1, <2>2
      <3> QED
        BY <3>1 DEF ProtocolInv, RunsFollow
    <2> QED
      BY <2>1, <2>2
  <1>9. BoundariesAreSealed'
    <2> SUFFICES ASSUME NEW t \in Sources, NEW m \in members'[t]
                 PROVE  /\ run'[t][m.from].phase = "sealed"
                        /\ m.to # Null => run'[t][m.to].phase = "sealed"
      BY DEF BoundariesAreSealed
    <2>1. m \in members[t] /\ m.from \in Seqs /\ m.to \in Seqs \cup {Null}
      BY <1>i, <1>2 DEF StoreInv, StoreTypeOK, Memberships
    <2>2. /\ run[t][m.from].phase = "sealed"
          /\ m.to # Null => run[t][m.to].phase = "sealed"
      BY <2>1 DEF ProtocolInv, BoundariesAreSealed
    <2> QED
      BY <1>7, <2>1, <2>2 DEF Quiet, SealsNothing
  <1>10. StoreInv'
    BY <1>1, <1>3, <1>4, <1>5 DEF StoreInv
  <1> QED
    BY <1>6, <1>7, <1>8, <1>9, <1>10, QuietKeeps DEF StorePart

LEMMA GrowStep ==
    ASSUME ProtocolInv, NEW s \in Sources, NEW n \in Seqs, NEW F, RunGrows(s, n, F),
           F \subseteq run[s][n].manifest
    PROVE  StorePart' /\ Quiet /\ BuildsKept
  <1> DEFINE r == [run[s][n] EXCEPT !.staged = @ \cup F]
  <1>i. StoreInv /\ run[s][n] \in Runs /\ run[s][n].phase = "building"
    BY DEF ProtocolInv, StoreInv, StoreTypeOK, RunGrows
  <1>1. /\ r.phase = "building" /\ r.manifest = run[s][n].manifest
        /\ r.pred = run[s][n].pred /\ r.staged = run[s][n].staged \cup F
        /\ r.build = run[s][n].build /\ r \in Runs
    BY <1>i DEF Runs
  <1>2. /\ run' = [run EXCEPT ![s][n] = r]
        /\ UNCHANGED <<registered, nextSeq, pointer, status, members, evidence,
                       activation, receipted>>
    BY DEF RunGrows
  <1> HIDE DEF r
  <1>3. \A t \in Sources : \A k \in Seqs :
           run'[t][k] = IF t = s /\ k = n THEN r ELSE run[t][k]
    BY <1>i, <1>2 DEF StoreInv, StoreTypeOK
  <1>4. Quiet
    BY <1>i, <1>1, <1>2, RunChangeIsQuiet
  <1>5. BuildsKept
    BY <1>1, <1>3 DEF BuildsKept
  <1>6. StoreInv'
    <2>1. run' \in [Sources -> [Seqs -> Runs]]
      BY <1>i, <1>1, <1>2, RunUpdateType DEF StoreInv
    <2>2. StoreTypeOK'
      BY <1>i, <1>2, <2>1 DEF StoreInv, StoreTypeOK
    <2>3. r.phase \in Phases \ {"none", "sealed"}
      BY <1>1 DEF Phases
    <2>4. CatalogKept /\ RunsKept
      BY <1>i, <1>2, <2>3, StoreIsCatalog, UnsealedRunStep
    <2> QED
      BY <1>i, <2>2, <2>4 DEF StoreInv, CatalogKept, RunsKept
  <1>7. RunsFollow'
    <2> SUFFICES ASSUME NEW t \in Sources, NEW k \in Seqs, run'[t][k].phase # "none"
                 PROVE  /\ run'[t][k].pred < k
                        /\ run'[t][k].manifest \in Manifests
                        /\ run'[t][k].staged \subseteq run'[t][k].manifest
      BY DEF RunsFollow
    <2>1. CASE t = s /\ k = n
      BY <1>i, <1>1, <1>3, <2>1 DEF ProtocolInv, RunsFollow
    <2>2. CASE ~(t = s /\ k = n)
      <3>1. run'[t][k] = run[t][k]
        BY <1>3, <2>2
      <3> QED
        BY <3>1 DEF ProtocolInv, RunsFollow
    <2> QED
      BY <2>1, <2>2
  <1>8. BoundariesAreSealed'
    <2> SUFFICES ASSUME NEW t \in Sources, NEW m \in members'[t]
                 PROVE  /\ run'[t][m.from].phase = "sealed"
                        /\ m.to # Null => run'[t][m.to].phase = "sealed"
      BY DEF BoundariesAreSealed
    <2>1. m \in members[t] /\ m.from \in Seqs /\ m.to \in Seqs \cup {Null}
      BY <1>i, <1>2 DEF StoreInv, StoreTypeOK, Memberships
    <2>2. /\ run[t][m.from].phase = "sealed"
          /\ m.to # Null => run[t][m.to].phase = "sealed"
      BY <2>1 DEF ProtocolInv, BoundariesAreSealed
    <2> QED
      BY <1>4, <2>1, <2>2 DEF Quiet, SealsNothing
  <1> QED
    BY <1>4, <1>5, <1>6, <1>7, <1>8, QuietKeeps DEF StorePart

------------------------------------------------------------------------------
(* The steps.                                                               *)

\* The parts, kept, are the invariant kept.
LEMMA AppendInvKept ==
    ASSUME ProtocolInv', FrontierPart', WritersAreSound',
           frontier' \in [Sources -> [Profiles -> FrontierRows]],
           basis' \in [Writers -> Bases], damaged' \subseteq Files,
           unnoticed' \in [Sources -> Nat]
    PROVE  AppendInv'
  BY DEF AppendInv, AppendTypeOK, FrontierRows, Bases, ProtocolInv

\* A step that seals nothing and opens no session, and takes what a source has
\* damaged for what it is.
LEMMA AppendQuiet ==
    ASSUME AppendInv, ProtocolInv', Quiet, BuildsKept,
           UNCHANGED <<frontier, unnoticed>>, damaged' \subseteq Files,
           basis' \in [Writers -> Bases],
           \A w \in Writers : \/ session'[w] = session[w] /\ basis'[w] = basis[w]
                              \/ session'[w].pc # "building"
    PROVE  AppendInv'
  <1>1. FrontierPart'
    BY QuietFrontier
  <1>2. ASSUME NEW w \in Writers PROVE WriterIsSound(w)'
    <2>1. CASE session'[w].pc # "building"
      BY <2>1 DEF WriterIsSound
    <2>2. CASE session'[w] = session[w] /\ basis'[w] = basis[w]
      <3>1. session[w].pc = "building" => session[w].src \in Sources
        BY DEF AppendInv, ProtocolInv, TypeOK, Idle, Sessions
      <3> QED
        BY <2>2, <3>1, WriterKept DEF Quiet
    <2> QED
      BY <2>1, <2>2
  <1>3. /\ frontier' \in [Sources -> [Profiles -> FrontierRows]]
        /\ unnoticed' \in [Sources -> Nat]
    BY DEF AppendInv, AppendTypeOK, FrontierRows
  <1> QED
    BY <1>1, <1>2, <1>3, AppendInvKept DEF WritersAreSound

\* A build takes its basis.
LEMMA ObservesFacts ==
    ASSUME AppendInv, NEW w \in Writers, NEW s \in Sources, NEW b \in Builds,
           Observes(w, s, b)
    PROVE  /\ basis' \in [Writers -> Bases]
           /\ basis'[w] = Basis(s, b)
           /\ \A v \in Writers \ {w} : basis'[v] = basis[v]
           /\ Basis(s, b).prefix \subseteq disk[s]
  <1>1. basis \in [Writers -> Bases]
    BY DEF AppendInv, AppendTypeOK, Bases
  <1>2. Basis(s, b) \in Bases
    BY BasisFacts
  <1>3. basis' = [basis EXCEPT ![w] = Basis(s, b)]
    BY DEF Observes
  <1>4. Basis(s, b).prefix \subseteq disk[s]
    BY DEF Observes, Readable
  <1> QED
    BY <1>1, <1>2, <1>3, <1>4

\* A session opens on a run of what is on disk, begun or resumed.
LEMMA OpenAppend ==
    ASSUME AppendInv, StorePart', Quiet, BuildsKept,
           NEW w \in Writers, NEW s \in Sources, NEW b \in Builds, NEW n \in Seqs,
           Observes(w, s, b), ~Locked(s),
           session' = [session EXCEPT ![w] = Opening(s, b, "building", n)],
           run'[s][n].phase # "none", run'[s][n].manifest = disk[s],
           run'[s][n].pred = NewestSealed(s), run'[s][n].build = b,
           UNCHANGED <<disk, plan, frontier, damaged, unnoticed>>
    PROVE  AppendInv'
  <1>i. ProtocolInv
    BY DEF AppendInv
  <1>1. /\ session' \in [Writers -> Sessions \cup {Idle}]
        /\ \A v \in Writers \ {w} : session'[v] = session[v]
        /\ session'[w].pc = "building" /\ session'[w].src = s /\ session'[w].seq = n
        /\ session'[w].pred = NewestSealed(s) /\ session'[w].manifest = disk[s]
    BY <1>i, OpenedSession
  <1>2. session'[w].build = b
    <2>1. session'[w] = Opening(s, b, "building", n)
      BY <1>i DEF ProtocolInv, TypeOK
    <2> QED
      BY <2>1 DEF Opening
  <1>3. SealedRuns(s)' = SealedRuns(s)
    BY DEF Quiet, SealsNothing, SealedRuns
  <1>4. SessionIsSound(w)'
    <2>1. OwnsRun(session[w])'
      BY <1>1 DEF OwnsRun
    <2>2. \A k \in SealedRuns(s) : k <= NewestSealed(s)
      BY <1>i, NewestFacts
    <2>3. AtTheTip(session[w])'
      BY <1>1, <1>3, <2>2 DEF AtTheTip
    <2> QED
      BY <1>1, <2>1, <2>3 DEF SessionIsSound
  <1>5. ProtocolInv'
    <2>1. StoreInv'
      BY DEF StorePart
    <2>2. (SessionsAreSound /\ OneBuilderPerSource)'
      BY <1>i, <1>1, <1>4, <2>1, QuietMove
    <2>3. SessionPart'
      BY <1>i, <1>1, <2>2 DEF SessionPart, ProtocolInv, TypeOK
    <2> QED
      BY <2>3, InvariantKept
  <1>6. FrontierPart'
    BY QuietFrontier
  <1>7. WriterIsSound(w)'
    <2>1. BuildsItsRun(session[w])'
      BY <1>1, <1>2 DEF BuildsItsRun
    <2>2. BasisHolds(session[w], basis[w])'
      <3>1. basis'[w] = Basis(s, b)
        BY ObservesFacts
      <3>2. frontier'[s] = frontier[s]
        OBVIOUS
      <3> QED
        BY <1>1, <1>2, <1>3, <3>1, <3>2, BasisFacts DEF BasisHolds
    <2> QED
      BY <2>1, <2>2 DEF WriterIsSound
  <1>8. ASSUME NEW v \in Writers \ {w} PROVE WriterIsSound(v)'
    <2>1. session'[v] = session[v] /\ basis'[v] = basis[v]
      BY <1>1, ObservesFacts
    <2>2. session[v].pc = "building" => session[v].src \in Sources
      BY <1>i DEF ProtocolInv, TypeOK, Idle, Sessions
    <2> QED
      BY <2>1, <2>2, WriterKept DEF Quiet
  <1>9. /\ frontier' \in [Sources -> [Profiles -> FrontierRows]]
        /\ basis' \in [Writers -> Bases]
        /\ damaged' \subseteq Files /\ unnoticed' \in [Sources -> Nat]
    BY ObservesFacts DEF AppendInv, AppendTypeOK, FrontierRows
  <1>10. WritersAreSound'
    BY <1>7, <1>8 DEF WritersAreSound
  <1> QED
    BY <1>5, <1>6, <1>9, <1>10, AppendInvKept

\* A new run stages only what the verified prefix and the disk have in common.
LEMMA BeginAppendStep ==
    ASSUME AppendInv, NEW w \in Writers, NEW s \in Sources, NEW b \in Builds,
           BeginAppend(w, s, b)
    PROVE  AppendInv' /\ Quiet /\ UNCHANGED pointer
  <1> DEFINE C == Copied(s, Basis(s, b), {})
             q == NewRun(s, NewestSealed(s), disk[s], b)
             r == [q EXCEPT !.staged = C]
             n == nextSeq[s]
  <1>i. ProtocolInv
    BY DEF AppendInv
  <1>1. /\ NewestSealed(s) \in 0 .. n - 1 /\ NewestSealed(s) < n
        /\ disk[s] \in Manifests
    <2>1. /\ NewestSealed(s) \in Seqs \cup {Null} /\ NewestSealed(s) < n /\ n \in Nat
      BY <1>i, NewestFacts DEF ProtocolInv, StoreInv, StoreTypeOK
    <2>2. disk[s] \in Manifests
      BY <1>i DEF ProtocolInv, TypeOK
    <2> QED
      BY <2>1, <2>2 DEF Seqs, Null
  <1>2. n \in Seqs /\ q \in Runs
    <2>1. n <= MaxSeq /\ StoreTypeOK
      BY <1>i DEF BeginAppend, ProtocolInv, StoreInv
    <2> QED
      BY <1>1, <2>1, NewRunType
  <1>3. C \subseteq disk[s]
    <2>1. Observes(w, s, b)
      BY DEF BeginAppend
    <2>2. Basis(s, b).prefix \subseteq disk[s]
      BY <2>1, ObservesFacts
    <2> QED
      BY <2>2 DEF Copied
  <1>4. /\ r \in Runs /\ r.phase = "building" /\ r.pred = NewestSealed(s)
        /\ r.manifest = disk[s] /\ r.build = b /\ r.staged = C
    <2>1. C \in SUBSET Files
      BY <1>1, <1>3, ManifestsAssumption
    <2>2. q.phase = "building" /\ q.pred = NewestSealed(s) /\ q.manifest = disk[s] /\ q.build = b
      BY DEF NewRun
    <2> QED
      BY <1>2, <2>1, <2>2 DEF Runs
  <1>5. /\ NewRunAt(s, r) /\ Observes(w, s, b) /\ ~Locked(s)
        /\ session' = [session EXCEPT ![w] = Opening(s, b, "building", n)]
        /\ UNCHANGED <<disk, plan, frontier, damaged, unnoticed>>
    BY DEF BeginAppend, NewRunAt, SessionAdmitted
  <1> HIDE DEF C, q, r
  <1>6. StorePart' /\ Quiet /\ BuildsKept
    BY <1>i, <1>1, <1>3, <1>4, <1>5, NewRunStep
  <1>7. run'[s][n] = r
    BY <1>i, <1>2, <1>4, <1>5, NewRunFacts DEF ProtocolInv
  <1>8. AppendInv'
    BY <1>2, <1>4, <1>5, <1>6, <1>7, OpenAppend
  <1> QED
    BY <1>5, <1>6, <1>8 DEF NewRunAt

LEMMA ResumeAppendStep ==
    ASSUME AppendInv, NEW w \in Writers, NEW s \in Sources, NEW b \in Builds,
           ResumeAppend(w, s, b)
    PROVE  AppendInv' /\ Quiet /\ UNCHANGED pointer
  <1>i. ProtocolInv /\ StoreInv /\ StoreTypeOK
    BY DEF AppendInv, ProtocolInv, StoreInv
  <1>1. PICK n \in KeyedRuns(s, NewestSealed(s), disk[s], b) :
           /\ run[s][n].phase = "building"
           /\ run' = [run EXCEPT ![s][n].staged =
                         @ \cup Copied(s, Basis(s, b), run[s][n].staged)]
           /\ session' = [session EXCEPT ![w] = Opening(s, b, "building", n)]
    BY DEF ResumeAppend
  <1> DEFINE F == Copied(s, Basis(s, b), run[s][n].staged)
  <1>2. /\ n \in Seqs /\ run[s][n].phase # "none" /\ run[s][n].build = b
        /\ run[s][n].pred = NewestSealed(s) /\ run[s][n].manifest = disk[s]
    BY DEF KeyedRuns
  <1>3. /\ Observes(w, s, b) /\ ~Locked(s)
        /\ UNCHANGED <<registered, nextSeq, pointer, status, members, evidence,
                       activation, receipted, disk, plan, frontier, damaged, unnoticed>>
    BY DEF ResumeAppend, SessionAdmitted
  <1>4. F \subseteq run[s][n].manifest
    <2>1. Basis(s, b).prefix \subseteq disk[s]
      BY <1>3, ObservesFacts
    <2> QED
      BY <1>2, <2>1 DEF Copied
  <1>5. RunGrows(s, n, F)
    BY <1>1, <1>3 DEF RunGrows
  <1> HIDE DEF F
  <1>6. StorePart' /\ Quiet /\ BuildsKept
    BY <1>i, <1>2, <1>4, <1>5, GrowStep
  <1>7. /\ run'[s][n].phase # "none" /\ run'[s][n].manifest = disk[s]
        /\ run'[s][n].pred = NewestSealed(s) /\ run'[s][n].build = b
    BY <1>2, <1>6 DEF Quiet, RunsNamed, BuildsKept
  <1>8. AppendInv'
    BY <1>1, <1>2, <1>3, <1>6, <1>7, OpenAppend
  <1> QED
    BY <1>3, <1>6, <1>8

\* Steps that leave the runs alone, stage one item or tombstone a run.
LEMMA BuildsStay ==
    ASSUME StoreInv,
           \/ UNCHANGED run
           \/ \E s \in Sources, n \in Seqs : \/ \E f \in Files : StageShadowItem(s, n, f)
                                             \/ CleanupAbandonedIngest(s, n)
    PROVE  BuildsKept
  <1>t. run \in [Sources -> [Seqs -> Runs]]
    BY DEF StoreInv, StoreTypeOK
  <1>1. CASE UNCHANGED run
    BY <1>1 DEF BuildsKept
  <1>2. ASSUME NEW s \in Sources, NEW n \in Seqs, NEW r,
               run' = [run EXCEPT ![s][n] = r], r.build = run[s][n].build
        PROVE  BuildsKept
    <2>1. \A t \in Sources : \A k \in Seqs :
             run'[t][k] = IF t = s /\ k = n THEN r ELSE run[t][k]
      BY <1>t, <1>2
    <2> QED
      BY <1>2, <2>1 DEF BuildsKept
  <1>3. ASSUME NEW s \in Sources, NEW n \in Seqs, NEW f \in Files, StageShadowItem(s, n, f)
        PROVE  BuildsKept
    <2>1. run' = [run EXCEPT ![s][n] = [run[s][n] EXCEPT !.staged = @ \cup {f}]]
      BY <1>3 DEF StageShadowItem
    <2>2. [run[s][n] EXCEPT !.staged = @ \cup {f}].build = run[s][n].build
      BY <1>t DEF Runs
    <2> QED
      BY <1>2, <2>1, <2>2
  <1>4. ASSUME NEW s \in Sources, NEW n \in Seqs, CleanupAbandonedIngest(s, n)
        PROVE  BuildsKept
    <2>1. run' = [run EXCEPT ![s][n] = [run[s][n] EXCEPT !.phase = "abandoned"]]
      BY <1>4 DEF CleanupAbandonedIngest
    <2>2. [run[s][n] EXCEPT !.phase = "abandoned"].build = run[s][n].build
      BY <1>t DEF Runs
    <2> QED
      BY <1>2, <2>1, <2>2
  <1> QED
    BY <1>1, <1>3, <1>4

\* The operator moves no session, and no run to another build.
LEMMA OperatorKeeps ==
    ASSUME ProtocolInv, OperatorStep
    PROVE  BuildsKept /\ UNCHANGED session
  <1>1. CASE \E s \in Sources, n \in Seqs : Cleanup(s, n)
    BY <1>1, BuildsStay DEF Cleanup, ProtocolInv
  <1>2. CASE \E s \in Sources : Register(s) \/ \E n \in Seqs : Qualify(s, n)
    <2>1. UNCHANGED <<run, session>>
      BY <1>2 DEF Register, RegisterSource, Qualify, ReplaceReleaseCandidate
    <2> QED
      BY <2>1, BuildsStay DEF ProtocolInv
  <1>3. CASE PlanSet \/ ApplyPlan \/ DiscardPlan
    <2>1. UNCHANGED <<run, session>>
      BY <1>3 DEF PlanSet, ApplyPlan, DiscardPlan, ActivateCandidateSet, storeVars
    <2> QED
      BY <2>1, BuildsStay DEF ProtocolInv
  <1>4. UNCHANGED session
    BY DEF OperatorStep, Register, Cleanup, Qualify, PlanSet, ApplyPlan, DiscardPlan
  <1> QED
    BY <1>1, <1>2, <1>3, <1>4 DEF OperatorStep

\* What a seal finds: the run is of the session's build, what is on disk continues
\* the prefix, and the row it moves is the one the session started from.
LEMMA SealAppendFacts ==
    ASSUME AppendInv, NEW w \in Writers, SealAppend(w)
    PROVE  \E s \in Sources, n \in Seqs, r \in Runs :
              LET m == session[w].manifest
                  o == basis[w]
                  p == ProfileOf[r.build]
                  row == frontier[s][p]
                  count == IF o.full THEN 0 ELSE row.appends + 1
              IN  /\ s = session[w].src /\ n = session[w].seq /\ Seals(s, n, r)
                  /\ session[w].build = r.build /\ p \in Profiles
                  /\ m \in Manifests /\ r.manifest = m /\ r.staged = m
                  /\ row.seq # Null => row.segments \subseteq m
                  /\ frontier' = [frontier EXCEPT ![s][p] =
                        [seq |-> n, segments |-> m, appends |-> count]]
                  /\ count \in 0 .. FullEvery - 1
                  /\ o.full => m \cap damaged = {}
                  /\ ~o.full => /\ row.seq # Null
                                /\ \A k \in SealedRuns(s) : k <= row.seq
  <1>i. ProtocolInv
    BY DEF AppendInv
  <1>1. SealBuild(w) /\ session[w].pc = "building"
    BY DEF SealAppend, SealBuild
  <1>2. PICK s \in Sources, n \in Seqs, r \in Runs :
           s = session[w].src /\ n = session[w].seq /\ Seals(s, n, r)
    BY <1>i, <1>1, SealBuildSeals
  <1>3. OwnsRun(session[w]) /\ session[w] \in Sessions
    BY <1>i, <1>1 DEF ProtocolInv, SessionsAreSound, SessionIsSound, TypeOK, Idle
  <1>4. run[s][n] = r
    BY <1>i, <1>2, <1>3, SealTarget DEF OwnsRun, ProtocolInv
  <1>5. BuildsItsRun(session[w]) /\ BasisHolds(session[w], basis[w])
    BY <1>1 DEF AppendInv, WritersAreSound, WriterIsSound
  <1> DEFINE m == session[w].manifest
             o == basis[w]
             p == ProfileOf[r.build]
             row == frontier[s][p]
             count == IF o.full THEN 0 ELSE row.appends + 1
  <1>6. session[w].build = r.build /\ p \in Profiles
    BY <1>2, <1>4, <1>5 DEF BuildsItsRun, Runs, Profiles
  <1>7. m \in Manifests /\ r.manifest = m /\ r.staged = m /\ disk[s] = m
    BY <1>1, <1>2, <1>3, <1>4 DEF OwnsRun, Sessions, SealBuild
  <1>8. /\ o.prefix \subseteq m /\ (o.full => m \cap damaged = {})
        /\ IF row.seq = Null THEN o.prior = Null /\ o.full ELSE o.prior = row.seq
        /\ frontier' = [frontier EXCEPT ![s][p] =
              [seq |-> n, segments |-> m, appends |-> count]]
    BY <1>2, <1>6, <1>7 DEF SealAppend, Readable, Publish
  <1>9. /\ o.prior # Null => o.prior = row.seq /\ o.prefix = row.segments
        /\ ~o.full => /\ o.prior # Null
                      /\ row.appends + 1 < FullEvery
                      /\ \A k \in SealedRuns(s) : k <= row.seq
    BY <1>2, <1>5, <1>6 DEF BasisHolds
  <1>10. row.appends \in 0 .. FullEvery - 1 /\ FullEvery \in Nat \ {0}
    BY <1>6, AppendAssumption DEF AppendInv, AppendTypeOK
  <1>11. count \in 0 .. FullEvery - 1
    BY <1>9, <1>10
  <1>12. row.seq # Null => row.segments \subseteq m
    BY <1>8, <1>9
  <1>13. ~o.full => row.seq # Null /\ \A k \in SealedRuns(s) : k <= row.seq
    BY <1>8, <1>9
  <1> QED
    BY <1>2, <1>6, <1>7, <1>8, <1>11, <1>12, <1>13

LEMMA SealAppendStep ==
    ASSUME AppendInv, ProtocolInv', NEW w \in Writers, SealAppend(w)
    PROVE  AppendInv'
  <1>i. ProtocolInv
    BY DEF AppendInv
  <1>1. PICK s \in Sources, n \in Seqs, r \in Runs :
              LET m == session[w].manifest
                  o == basis[w]
                  p == ProfileOf[r.build]
                  row == frontier[s][p]
                  count == IF o.full THEN 0 ELSE row.appends + 1
              IN  /\ s = session[w].src /\ n = session[w].seq /\ Seals(s, n, r)
                  /\ session[w].build = r.build /\ p \in Profiles
                  /\ m \in Manifests /\ r.manifest = m /\ r.staged = m
                  /\ row.seq # Null => row.segments \subseteq m
                  /\ frontier' = [frontier EXCEPT ![s][p] =
                        [seq |-> n, segments |-> m, appends |-> count]]
                  /\ count \in 0 .. FullEvery - 1
                  /\ o.full => m \cap damaged = {}
                  /\ ~o.full => /\ row.seq # Null
                                /\ \A k \in SealedRuns(s) : k <= row.seq
    BY SealAppendFacts
  <1> DEFINE m == session[w].manifest
             o == basis[w]
             p == ProfileOf[r.build]
             row == frontier[s][p]
             count == IF o.full THEN 0 ELSE row.appends + 1
             new == [seq |-> n, segments |-> m, appends |-> count]
  <1>a. /\ s = session[w].src /\ Seals(s, n, r) /\ p \in Profiles
        /\ session[w].build = r.build
        /\ r.manifest = m /\ r.staged = m /\ m \in Manifests
        /\ frontier' = [frontier EXCEPT ![s][p] = new]
        /\ row.seq # Null => row.segments \subseteq m
    BY <1>1
  <1>b. /\ count \in 0 .. FullEvery - 1
        /\ o.full => m \cap damaged = {}
        /\ ~o.full => row.seq # Null /\ \A k \in SealedRuns(s) : k <= row.seq
    BY <1>1
  <1>c. /\ new.seq = n /\ new.segments = m /\ new.appends = count
        /\ o.full => count = 0
        /\ ~o.full => count = row.appends + 1
    OBVIOUS
  <1>d. new \in FrontierRows
    BY <1>a, <1>b DEF FrontierRows
  <1>r. row = frontier[s][p] /\ p = ProfileOf[r.build]
    OBVIOUS
  <1> HIDE <1>1 DEF new, count, o, p, m, row
  <1>t. /\ frontier \in [Sources -> [Profiles -> FrontierRows]]
        /\ unnoticed \in [Sources -> Nat] /\ basis \in [Writers -> Bases]
    BY DEF AppendInv, AppendTypeOK, FrontierRows, Bases
  <1>n. n \in Nat /\ n # Null /\ Null \notin Seqs /\ Seqs \subseteq Nat
    BY DEF Seqs, Null
  <1>2. \A t \in Sources, q \in Profiles :
           frontier'[t][q] = IF t = s /\ q = p THEN new ELSE frontier[t][q]
    BY <1>a, <1>t
  <1>4. frontier' \in [Sources -> [Profiles -> FrontierRows]]
    BY <1>a, <1>d, <1>t
  <1>5. /\ SealedRuns(s)' = SealedRuns(s) \cup {n} /\ n \notin SealedRuns(s)
        /\ \A t \in Sources \ {s} : SealedRuns(t)' = SealedRuns(t) /\ SealsNothing(t)
        /\ \A t \in Sources : \A k \in SealedRuns(t) : run'[t][k] = run[t][k]
    BY <1>i, <1>a, SealRuns
  <1>6. \A k \in SealedRuns(s) : k < n
    BY <1>a DEF Seals
  <1>7. /\ \A t \in Sources : \A k \in Seqs :
              run'[t][k] = IF t = s /\ k = n THEN [r EXCEPT !.phase = "sealed"] ELSE run[t][k]
        /\ run'[s][n].build = r.build /\ run'[s][n].staged = m /\ run'[s][n].manifest = m
    <2>1. \A t \in Sources : \A k \in Seqs :
             run'[t][k] = IF t = s /\ k = n THEN [r EXCEPT !.phase = "sealed"] ELSE run[t][k]
      BY <1>i, <1>a, SealFacts DEF ProtocolInv
    <2>2. /\ [r EXCEPT !.phase = "sealed"].build = r.build
          /\ [r EXCEPT !.phase = "sealed"].staged = m
          /\ [r EXCEPT !.phase = "sealed"].manifest = m
      BY <1>a DEF Runs
    <2> QED
      BY <2>1, <2>2
  <1>8. BuildsKept
    <2> SUFFICES ASSUME NEW t \in Sources, NEW k \in Seqs, run[t][k].phase # "none"
                 PROVE  run'[t][k].build = run[t][k].build
      BY DEF BuildsKept
    <2>1. CASE t = s /\ k = n
      <3>1. run[s][n] = r
        BY <1>i, <1>a, <2>1, SealTarget DEF ProtocolInv
      <3> QED
        BY <1>7, <2>1, <3>1
    <2>2. CASE ~(t = s /\ k = n)
      BY <1>7, <2>2
    <2> QED
      BY <2>1, <2>2
  <1>9. \A t \in Sources, q \in Profiles :
           SealedWith(t, q)' = IF t = s /\ q = p THEN SealedWith(t, q) \cup {n}
                               ELSE SealedWith(t, q)
    <2> TAKE t \in Sources, q \in Profiles
    <2>1. \A k \in SealedRuns(t) : run'[t][k] = run[t][k]
      BY <1>5
    <2>2. CASE t = s
      <3>1. SealedWith(t, q)' = {k \in SealedRuns(s) \cup {n} : ProfileOf[run'[s][k].build] = q}
        BY <1>5, <2>2 DEF SealedWith
      <3>2. ProfileOf[run'[s][n].build] = p
        BY <1>7, <1>r
      <3> QED
        BY <2>1, <2>2, <3>1, <3>2 DEF SealedWith
    <2>3. CASE t # s
      BY <1>5, <2>1, <2>3 DEF SealedWith
    <2> QED
      BY <2>2, <2>3
  <1>u. unnoticed' = Tally(s, m) /\ UNCHANGED <<basis, damaged>>
    BY <1>a DEF SealAppend, m
  <1>10. \A t \in Sources, q \in Profiles :
            /\ SealedWith(t, q) = {} => frontier[t][q] = NoFrontier /\ frontier[t][q].seq = Null
            /\ SealedWith(t, q) # {} =>
                  /\ frontier[t][q].seq \in SealedWith(t, q) /\ frontier[t][q].seq # Null
                  /\ \A k \in SealedWith(t, q) : k <= frontier[t][q].seq
                  /\ frontier[t][q].segments = run[t][frontier[t][q].seq].staged
    <2> TAKE t \in Sources, q \in Profiles
    <2>1. IF SealedWith(t, q) = {} THEN frontier[t][q] = NoFrontier
          ELSE /\ frontier[t][q].seq \in SealedWith(t, q)
               /\ \A k \in SealedWith(t, q) : k <= frontier[t][q].seq
               /\ frontier[t][q].segments = run[t][frontier[t][q].seq].staged
      BY DEF AppendInv, FrontierPart, FrontierNamesTheNewest
    <2>2. SealedWith(t, q) \subseteq Seqs
      BY DEF SealedWith, SealedRuns
    <2>3. NoFrontier.seq = Null
      BY DEF NoFrontier
    <2> QED
      BY <1>n, <2>1, <2>2, <2>3
  <1>11. FrontierNamesTheNewest'
    <2> SUFFICES ASSUME NEW t \in Sources, NEW q \in Profiles
                 PROVE  IF SealedWith(t, q)' = {} THEN frontier'[t][q] = NoFrontier
                        ELSE /\ frontier'[t][q].seq \in SealedWith(t, q)'
                             /\ \A k \in SealedWith(t, q)' : k <= frontier'[t][q].seq
                             /\ frontier'[t][q].segments = run'[t][frontier'[t][q].seq].staged
      BY DEF FrontierNamesTheNewest
    <2>1. CASE t = s /\ q = p
      <3>1. frontier'[t][q] = new /\ SealedWith(t, q)' = SealedWith(s, p) \cup {n}
        BY <1>2, <1>9, <2>1
      <3>2. \A k \in SealedWith(s, p) : k < n
        BY <1>6 DEF SealedWith
      <3>3. SealedWith(s, p) \subseteq Nat
        BY <1>n DEF SealedWith, SealedRuns
      <3> QED
        BY <1>c, <1>n, <1>7, <2>1, <3>1, <3>2, <3>3
    <2>2. CASE ~(t = s /\ q = p)
      <3>1. frontier'[t][q] = frontier[t][q] /\ SealedWith(t, q)' = SealedWith(t, q)
        BY <1>2, <1>9, <2>2
      <3>2. \A k \in SealedWith(t, q) : run'[t][k] = run[t][k]
        BY <1>5 DEF SealedWith
      <3> QED
        BY <1>10, <3>1, <3>2
    <2> QED
      BY <2>1, <2>2
  <1>12. GenerationsExtend'
    <2> SUFFICES ASSUME NEW t \in Sources, NEW q \in Profiles,
                        NEW j \in SealedWith(t, q)', NEW k \in SealedWith(t, q)', j <= k
                 PROVE  run'[t][j].manifest \subseteq run'[t][k].manifest
      BY DEF GenerationsExtend
    <2>1. ASSUME NEW i \in SealedWith(t, q) PROVE run'[t][i] = run[t][i]
      BY <1>5 DEF SealedWith
    <2>2. CASE j \in SealedWith(t, q) /\ k \in SealedWith(t, q)
      BY <2>1, <2>2 DEF AppendInv, FrontierPart, GenerationsExtend
    <2>3. CASE k \notin SealedWith(t, q)
      <3>1. t = s /\ q = p /\ k = n
        BY <1>9, <2>3
      <3>2. CASE j = n
        BY <3>1, <3>2
      <3>3. CASE j # n
        <4>1. j \in SealedWith(s, p)
          BY <1>9, <3>1, <3>3
        <4>2. /\ row.seq \in SealedWith(s, p) /\ row.seq # Null /\ j <= row.seq
              /\ row.segments = run[s][row.seq].staged
          BY <1>a, <1>r, <1>10, <4>1
        <4>3. run[s][j].manifest \subseteq run[s][row.seq].manifest
          BY <1>a, <4>1, <4>2 DEF AppendInv, FrontierPart, GenerationsExtend
        <4>4. run[s][row.seq].staged = run[s][row.seq].manifest
          BY <1>i, <4>2 DEF ProtocolInv, SealedShowsItsRun, SealedWith
        <4>5. run[s][j].manifest \subseteq m
          BY <1>a, <4>2, <4>3, <4>4
        <4> QED
          BY <1>7, <2>1, <3>1, <4>1, <4>5
      <3> QED
        BY <3>2, <3>3
    <2>4. CASE j \notin SealedWith(t, q) /\ k \in SealedWith(t, q)
      <3>1. t = s /\ j = n /\ k \in SealedRuns(s)
        BY <1>9, <2>4 DEF SealedWith
      <3>2. k < n /\ k \in Nat
        BY <1>6, <1>n, <3>1 DEF SealedRuns
      <3> QED
        BY <1>n, <3>1, <3>2
    <2> QED
      BY <2>2, <2>3, <2>4
  <1>13. UnnoticedIsCounted'
    <2> SUFFICES ASSUME NEW t \in Sources
                 PROVE  /\ SealedRuns(t)' = {} => unnoticed'[t] = 0
                        /\ \A q \in Profiles :
                              (/\ frontier'[t][q].seq # Null
                               /\ \A k \in SealedRuns(t)' : k <= frontier'[t][q].seq)
                              => unnoticed'[t] <= frontier'[t][q].appends
      BY DEF UnnoticedIsCounted
    <2>1. CASE t # s
      <3>1. SealedRuns(t)' = SealedRuns(t) /\ unnoticed'[t] = unnoticed[t]
        BY <1>5, <1>t, <1>u, <2>1 DEF Tally
      <3>2. \A q \in Profiles : frontier'[t][q] = frontier[t][q]
        BY <1>2, <2>1
      <3> QED
        BY <3>1, <3>2 DEF AppendInv, FrontierPart, UnnoticedIsCounted
    <2>2. CASE t = s
      <3>1. unnoticed'[s] = IF m \cap damaged = {} THEN 0 ELSE unnoticed[s] + 1
        BY <1>t, <1>u DEF Tally
      <3>2. ASSUME NEW q \in Profiles, q # p, frontier'[s][q].seq # Null,
                   \A k \in SealedRuns(s)' : k <= frontier'[s][q].seq
            PROVE  FALSE
        <4>1. frontier[s][q].seq \in SealedRuns(s)
          BY <1>2, <1>10, <3>2 DEF SealedWith
        <4>2. n <= frontier[s][q].seq
          BY <1>2, <1>5, <3>2
        <4>3. frontier[s][q].seq < n
          BY <1>6, <4>1
        <4>4. frontier[s][q].seq \in Nat
          BY <1>n, <4>1 DEF SealedRuns
        <4> QED
          BY <1>n, <4>2, <4>3, <4>4
      <3>3. unnoticed'[s] <= count
        <4>1. CASE o.full
          BY <1>b, <1>c, <3>1, <4>1
        <4>2. CASE ~o.full
          <5>1. unnoticed[s] <= row.appends
            BY <1>a, <1>b, <1>r, <4>2 DEF AppendInv, FrontierPart, UnnoticedIsCounted
          <5>2. unnoticed[s] \in Nat /\ row.appends \in Nat
            BY <1>a, <1>r, <1>t DEF FrontierRows
          <5> QED
            BY <1>c, <3>1, <4>2, <5>1, <5>2
        <4> QED
          BY <4>1, <4>2
      <3>4. frontier'[s][p] = new
        BY <1>2, <1>a
      <3> QED
        BY <1>c, <1>5, <2>2, <3>2, <3>3, <3>4
    <2> QED
      BY <2>1, <2>2
  <1>14. WritersAreSound'
    <2> SUFFICES ASSUME NEW v \in Writers PROVE WriterIsSound(v)'
      BY DEF WritersAreSound
    <2>1. session[w].pc = "building" /\ session[w] \in Sessions
      BY <1>i DEF SealAppend, SealBuild, ProtocolInv, TypeOK, Idle
    <2>2. CASE v = w
      <3>1. session'[w].pc # "building"
        BY <1>i, <2>1 DEF SealAppend, SealBuild, ProtocolInv, TypeOK, Idle, Sessions
      <3> QED
        BY <2>2, <3>1 DEF WriterIsSound
    <2>3. CASE v # w
      <3>1. session'[v] = session[v] /\ basis'[v] = basis[v]
        BY <1>i, <1>u, <2>3 DEF SealAppend, SealBuild, ProtocolInv, TypeOK
      <3>2. ASSUME session[v].pc = "building"
            PROVE  /\ SealsNothing(session[v].src)
                   /\ frontier'[session[v].src] = frontier[session[v].src]
        <4>1. session[v].src # s
          BY <1>i, <1>a, <2>1, <2>3, <3>2 DEF ProtocolInv, OneBuilderPerSource
        <4>2. session[v].src \in Sources
          BY <1>i, <3>2 DEF ProtocolInv, TypeOK, Idle, Sessions
        <4> QED
          BY <1>2, <1>5, <1>t, <1>4, <4>1, <4>2
      <3> QED
        BY <1>8, <3>1, <3>2, WriterKept
    <2> QED
      BY <2>2, <2>3
  <1>15. unnoticed' \in [Sources -> Nat] /\ damaged' \subseteq Files /\ basis' \in [Writers -> Bases]
    BY <1>t, <1>u DEF Tally, AppendInv, AppendTypeOK
  <1> QED
    BY <1>4, <1>11, <1>12, <1>13, <1>14, <1>15, AppendInvKept DEF FrontierPart

\* A session takes up a generation that is there: there is nothing to build.
LEMMA ReuseAppendStep ==
    ASSUME AppendInv, NEW w \in Writers, NEW s \in Sources, NEW b \in Builds,
           ReuseAppend(w, s, b)
    PROVE  AppendInv' /\ Quiet
  <1>i. ProtocolInv /\ StoreInv
    BY DEF AppendInv, ProtocolInv
  <1>1. ReuseGeneration(w, s, b) /\ Observes(w, s, b)
        /\ UNCHANGED <<frontier, damaged, unnoticed>>
    BY DEF ReuseAppend
  <1>2. ProtocolInv' /\ Quiet
    BY <1>i, <1>1, ReuseGenerationStep, InvariantKept
  <1> DEFINE a == BeginAnswer(s, NewestSealed(s), disk[s], b)
  <1>3. /\ UNCHANGED run
        /\ session' = [session EXCEPT ![w] = Opening(s, b, "prepared", a)]
    BY <1>1 DEF ReuseGeneration, storeVars
  <1>4. BuildsKept
    BY <1>i, <1>3, BuildsStay
  <1> HIDE DEF a
  <1>5. Opening(s, b, "prepared", a).pc = "prepared"
    BY DEF Opening
  <1>6. \A v \in Writers : IF v = w THEN session'[v].pc = "prepared"
                           ELSE session'[v] = session[v]
    BY <1>i, <1>3, <1>5 DEF ProtocolInv, TypeOK
  <1>7. basis' \in [Writers -> Bases] /\ \A v \in Writers \ {w} : basis'[v] = basis[v]
    BY <1>1, ObservesFacts
  <1>8. damaged' \subseteq Files
    BY <1>1 DEF AppendInv, AppendTypeOK
  <1> QED
    BY <1>1, <1>2, <1>4, <1>6, <1>7, <1>8, AppendQuiet

\* The steps of the protocol that leave the frontier alone and seal nothing.
LEMMA PlainStep ==
    ASSUME AppendInv, UNCHANGED appendVars,
           \/ \E s \in Sources, m \in Manifests : ChangeDisk(s, m)
           \/ \E w \in Writers : \/ CheckpointItem(w) \/ ObserveAgain(w)
                                 \/ CommitActive(w) \/ Abort(w)
           \/ OperatorStep
           \/ UNCHANGED vars
    PROVE  AppendInv' /\ Quiet
  <1>i. ProtocolInv /\ StoreInv /\ session \in [Writers -> Sessions \cup {Idle}]
    BY DEF AppendInv, ProtocolInv, TypeOK
  <1>1. /\ UNCHANGED <<frontier, unnoticed, basis>> /\ damaged' \subseteq Files
        /\ basis' \in [Writers -> Bases]
    BY DEF appendVars, AppendInv, AppendTypeOK, Bases
  <1>2. Idle.pc # "building"
    BY DEF Idle
  <1>3. CASE \E s \in Sources, m \in Manifests : ChangeDisk(s, m)
    <2>1. ProtocolInv' /\ Quiet
      BY <1>i, <1>3, EnvironmentStep, InvariantKept
    <2>2. UNCHANGED <<run, session>>
      BY <1>3 DEF ChangeDisk, storeVars
    <2> QED
      BY <1>i, <1>1, <2>1, <2>2, BuildsStay, AppendQuiet
  <1>4. ASSUME NEW w \in Writers, CheckpointItem(w)
        PROVE  AppendInv' /\ Quiet
    <2>1. ProtocolInv' /\ Quiet
      BY <1>i, <1>4, CheckpointItemStep, InvariantKept
    <2>2. UNCHANGED session
      BY <1>4 DEF CheckpointItem
    <2>3. session[w].src \in Sources /\ session[w].seq \in Seqs
      <3>1. session[w] \in Sessions /\ OwnsRun(session[w])
        BY <1>i, <1>4 DEF CheckpointItem, ProtocolInv, SessionsAreSound, SessionIsSound, Idle
      <3> QED
        BY <3>1 DEF Sessions, OwnsRun
    <2>4. BuildsKept
      BY <1>i, <1>4, <2>3, BuildsStay DEF CheckpointItem
    <2> QED
      BY <1>1, <2>1, <2>2, <2>4, AppendQuiet
  <1>5. ASSUME NEW w \in Writers, CommitActive(w) \/ Abort(w)
        PROVE  AppendInv' /\ Quiet
    <2>1. ProtocolInv' /\ Quiet
      BY <1>i, <1>5, CommitActiveStep, AbortStep, InvariantKept
    <2>2. session' = [session EXCEPT ![w] = Idle]
      BY <1>5 DEF CommitActive, Abort
    <2>3. \A v \in Writers : session'[v] = session[v] \/ session'[v].pc # "building"
      BY <1>i, <1>2, <2>2
    <2>4. UNCHANGED run
      <3>1. CASE CommitActive(w)
        BY <3>1 DEF CommitActive, ActivateRegularIngest
      <3>2. CASE Abort(w)
        BY <3>2 DEF Abort, storeVars
      <3> QED
        BY <1>5, <3>1, <3>2
    <2> QED
      BY <1>i, <1>1, <2>1, <2>3, <2>4, BuildsStay, AppendQuiet
  <1>8. ASSUME NEW w \in Writers, ObserveAgain(w)
        PROVE  AppendInv' /\ Quiet
    <2>1. /\ ProtocolInv' /\ Quiet
          /\ \A v \in Writers \ {w} : session'[v] = session[v]
          /\ session'[w].pc = "observed"
      BY <1>i, <1>8, ObserveAgainStep, InvariantKept
    <2>2. \A v \in Writers : session'[v] = session[v] \/ session'[v].pc # "building"
      BY <2>1
    <2>3. UNCHANGED run
      BY <1>8 DEF ObserveAgain, storeVars
    <2> QED
      BY <1>i, <1>1, <2>1, <2>2, <2>3, BuildsStay, AppendQuiet
  <1>6. CASE OperatorStep
    <2>1. ProtocolInv' /\ Quiet
      BY <1>i, <1>6, EnvironmentStep, PlanStep, InvariantKept DEF OperatorStep
    <2> QED
      BY <1>i, <1>1, <1>6, <2>1, OperatorKeeps, AppendQuiet
  <1>7. CASE UNCHANGED vars
    <2>1. [WriterStep]_storeVars /\ UNCHANGED <<run, members, nextSeq, disk, session, plan>>
      BY <1>7 DEF vars, storeVars
    <2>2. Quiet /\ RunsFollow'
      BY <1>i, <2>1, UnchangedStep DEF StorePart
    <2>3. disk' \in [Sources -> Manifests] /\ plan' \in Plans \cup {NoPlan}
      BY <1>i, <2>1 DEF ProtocolInv, TypeOK
    <2>4. ProtocolInv'
      BY <1>i, <2>1, <2>2, <2>3, NoSessionStep, InvariantKept
    <2> QED
      BY <1>i, <1>1, <2>1, <2>2, <2>4, BuildsStay, AppendQuiet
  <1> QED
    BY <1>3, <1>4, <1>5, <1>6, <1>7, <1>8

\* An edit on disk is nothing the catalogue or a session holds.
LEMMA DamageStep ==
    ASSUME AppendInv, NEW s \in Sources, NEW f \in Files, Damage(s, f)
    PROVE  AppendInv'
  <1>1. UNCHANGED <<vars, frontier, basis, unnoticed>>
    BY DEF Damage
  <1>2. damaged' \subseteq Files
    BY DEF Damage, AppendInv, AppendTypeOK
  <1>3. ProtocolInv /\ StoreInv /\ UNCHANGED <<storeVars, run, members, nextSeq, disk, session, plan>>
    BY <1>1 DEF AppendInv, ProtocolInv, vars, storeVars
  <1>4. Quiet /\ RunsFollow'
    BY <1>3, UnchangedStep DEF StorePart
  <1>5. disk' \in [Sources -> Manifests] /\ plan' \in Plans \cup {NoPlan}
    BY <1>3 DEF ProtocolInv, TypeOK
  <1>6. ProtocolInv'
    BY <1>3, <1>4, <1>5, NoSessionStep, InvariantKept
  <1>7. basis' \in [Writers -> Bases]
    BY <1>1 DEF AppendInv, AppendTypeOK, Bases
  <1> QED
    BY <1>1, <1>2, <1>3, <1>4, <1>6, <1>7, BuildsStay, AppendQuiet

\* A step of a build is one of those above.
LEMMA BuildStepCases ==
    ASSUME AppendInv, NEW w \in Writers, AppendBuildStep(w)
    PROVE  \/ \E s \in Sources, b \in Builds : \/ BeginAppend(w, s, b)
                                               \/ ResumeAppend(w, s, b)
                                               \/ ReuseAppend(w, s, b)
           \/ SealAppend(w)
           \/ /\ UNCHANGED appendVars
              /\ CheckpointItem(w) \/ ObserveAgain(w) \/ CommitActive(w) \/ Abort(w)
  <1>1. /\ StageSegment(w) => UNCHANGED appendVars /\ CheckpointItem(w)
        /\ ObserveAppend(w) => UNCHANGED appendVars /\ ObserveAgain(w)
        /\ CommitAppend(w) => UNCHANGED appendVars /\ CommitActive(w)
        /\ AbortAppend(w) => UNCHANGED appendVars /\ Abort(w)
    BY DEF StageSegment, ObserveAppend, CommitAppend, AbortAppend
  <1> QED
    BY <1>1 DEF AppendBuildStep

LEMMA AppendStep ==
    ASSUME AppendInv, [AppendNext]_allVars
    PROVE  AppendInv'
  <1>1. CASE UNCHANGED allVars
    BY <1>1, PlainStep DEF allVars
  <1>2. CASE RootStep
    BY <1>2, PlainStep, DamageStep DEF RootStep, Append, Replace
  <1>3. ASSUME NEW w \in Writers, AppendBuildStep(w)
        PROVE  AppendInv'
    <2>1. CASE SealAppend(w)
      <3>1. ProtocolInv'
        BY <2>1, SealBuildStep, InvariantKept DEF SealAppend, AppendInv
      <3> QED
        BY <2>1, <3>1, SealAppendStep
    <2> QED
      BY <1>3, <2>1, BuildStepCases, BeginAppendStep, ResumeAppendStep, ReuseAppendStep,
         PlainStep
  <1>4. CASE OperatorStep /\ UNCHANGED appendVars
    BY <1>4, PlainStep
  <1> QED
    BY <1>1, <1>2, <1>3, <1>4 DEF AppendNext

LEMMA AppendInitInv == AppendInit => AppendInv
  <1> SUFFICES ASSUME AppendInit PROVE AppendInv
    OBVIOUS
  <1>1. ProtocolInv
    BY ProtocolInit DEF AppendInit
  <1>2. \A s \in Sources : SealedRuns(s) = {}
    BY DEF AppendInit, Init, StoreInit, NoRun, SealedRuns
  <1>3. \A s \in Sources, p \in Profiles : SealedWith(s, p) = {} /\ frontier[s][p] = NoFrontier
    BY <1>2 DEF SealedWith, AppendInit
  <1>4. FrontierPart
    <2>1. FrontierNamesTheNewest /\ GenerationsExtend
      BY <1>3 DEF FrontierNamesTheNewest, GenerationsExtend
    <2>2. UnnoticedIsCounted
      BY <1>3 DEF UnnoticedIsCounted, AppendInit, NoFrontier
    <2> QED
      BY <2>1, <2>2 DEF FrontierPart
  <1>5. WritersAreSound
    BY DEF WritersAreSound, WriterIsSound, AppendInit, Init, Idle
  <1>6. AppendTypeOK
    <2>1. NoFrontier \in FrontierRows /\ NoBasis \in Bases
      BY AppendAssumption DEF NoFrontier, FrontierRows, NoBasis, Bases
    <2> QED
      BY <1>1, <2>1 DEF AppendTypeOK, AppendInit, FrontierRows, Bases, ProtocolInv
  <1> QED
    BY <1>1, <1>4, <1>5, <1>6 DEF AppendInv

LEMMA AppendInvariant == AppendSpec => []AppendInv
  <1>1. AppendInv /\ [AppendNext]_allVars => AppendInv'
    BY AppendStep
  <1> QED
    BY AppendInitInv, <1>1, PTL DEF AppendSpec

------------------------------------------------------------------------------
(* What it is for.                                                          *)

\* The frontier rows, the bases of the sessions and the counts stay well typed; in
\* particular no row counts more deltas than may follow one another.
THEOREM AppendTypeCorrect == AppendSpec => []AppendTypeOK
  BY AppendInvariant, PTL DEF AppendInv

\* storage_v2_publish_managed_append_frontier runs in the transaction of the seal:
\* whatever crashes, resumed runs and other profiles come in between, the row of a
\* profile names its newest sealed generation with exactly the segments that one
\* staged, and no row runs ahead of its generation.
THEOREM FrontierIsExact == AppendSpec => []FrontierNamesTheNewest
  BY AppendInvariant, PTL DEF AppendInv, FrontierPart

\* A profile never seals a manifest that drops or replaces segments of an older
\* generation: the prefix that read_snapshot compares is that of the newest one
\* of the profile at every seal.
THEOREM GenerationsOnlyExtend == AppendSpec => []GenerationsExtend
  BY AppendInvariant, PTL DEF AppendInv, FrontierPart

\* A seal copies nothing that the session's own run does not list: the copied
\* prefix (storage_v2_copy_managed_append_prefix) leaves the staged items and the
\* membership deltas exact.
THEOREM CopiedPrefixesAreExact == AppendSpec => []SealedShowsItsRun
  BY AppendInvariant, PTL DEF AppendInv, ProtocolInv

\* Fewer than FullEvery generations in a row are sealed over an edit of an old
\* segment, whichever profiles they are of: the row of the newest generation has
\* counted them all, and the comparison that is due then reads every byte.
THEOREM DamageIsBounded == AppendSpec => []DamageIsFoundInTime
  <1>1. AppendInv => DamageIsFoundInTime
    <2> SUFFICES ASSUME AppendInv, NEW s \in Sources PROVE unnoticed[s] < FullEvery
      BY DEF DamageIsFoundInTime
    <2>1. unnoticed[s] \in Nat /\ FullEvery \in Nat \ {0}
      BY AppendAssumption DEF AppendInv, AppendTypeOK
    <2>2. CASE SealedRuns(s) = {}
      BY <2>1, <2>2 DEF AppendInv, FrontierPart, UnnoticedIsCounted
    <2>3. CASE SealedRuns(s) # {}
      <3> DEFINE n == NewestSealed(s)
                 p == ProfileOf[run[s][n].build]
      <3>1. n \in SealedRuns(s) /\ \A k \in SealedRuns(s) : k <= n
        <4>1. PICK k \in SealedRuns(s) : TRUE
          BY <2>3
        <4>2. k \in Nat /\ k # 0
          BY <4>1 DEF SealedRuns, Seqs
        <4> QED
          BY <4>1, <4>2, NewestFacts DEF AppendInv, Null
      <3>2. p \in Profiles /\ n \in SealedWith(s, p)
        <4>1. n \in Seqs /\ run[s][n].phase = "sealed"
          BY <3>1 DEF SealedRuns
        <4>2. run[s][n] \in Runs
          BY <4>1 DEF AppendInv, ProtocolInv, StoreInv, StoreTypeOK
        <4>3. run[s][n].build \in Builds
          BY <4>2 DEF Runs
        <4> QED
          BY <3>1, <4>3 DEF SealedWith, Profiles
      <3> HIDE DEF n, p
      <3>3. frontier[s][p].seq \in SealedWith(s, p) /\ n <= frontier[s][p].seq
        BY <3>2 DEF AppendInv, FrontierPart, FrontierNamesTheNewest
      <3>4. SealedRuns(s) \subseteq Nat \ {Null}
        BY DEF SealedRuns, Seqs, Null
      <3>5. frontier[s][p].seq \in SealedRuns(s)
        BY <3>3 DEF SealedWith
      <3>6. \A k \in SealedRuns(s) : k <= frontier[s][p].seq
        BY <3>1, <3>3, <3>4, <3>5
      <3>7. unnoticed[s] <= frontier[s][p].appends
        BY <3>2, <3>4, <3>5, <3>6 DEF AppendInv, FrontierPart, UnnoticedIsCounted
      <3>8. frontier[s][p].appends \in 0 .. FullEvery - 1
        BY <3>2 DEF AppendInv, AppendTypeOK
      <3> QED
        BY <2>1, <3>7, <3>8
    <2> QED
      BY <2>2, <2>3
  <1> QED
    BY AppendInvariant, <1>1, PTL

\* A step is one of the ingest protocol, or it begins or resumes a run with a
\* copied prefix and shows nothing yet.
LEMMA AppendStepKinds ==
    ASSUME AppendInv, [AppendNext]_allVars
    PROVE  \/ [Next]_vars
           \/ Quiet /\ UNCHANGED <<pointer, activation, registered>>
  <1>1. CASE UNCHANGED allVars
    BY <1>1 DEF allVars
  <1>2. CASE RootStep
    <2>1. ASSUME NEW s \in Sources, NEW f \in Files, Damage(s, f) PROVE UNCHANGED vars
      BY <2>1 DEF Damage
    <2>2. ASSUME NEW s \in Sources, Append(s) \/ \E m \in Manifests : Replace(s, m)
          PROVE  \E m \in Manifests : ChangeDisk(s, m)
      BY <2>2 DEF Append, Replace
    <2> QED
      BY <1>2, <2>1, <2>2 DEF RootStep, Next
  <1>3. ASSUME NEW w \in Writers, AppendBuildStep(w)
        PROVE  \/ [Next]_vars
               \/ Quiet /\ UNCHANGED <<pointer, activation, registered>>
    <2>1. ASSUME NEW s \in Sources, NEW b \in Builds,
                 BeginAppend(w, s, b) \/ ResumeAppend(w, s, b)
          PROVE  Quiet /\ UNCHANGED <<pointer, activation, registered>>
      <3>1. CASE BeginAppend(w, s, b)
        BY <3>1, BeginAppendStep DEF BeginAppend
      <3>2. CASE ResumeAppend(w, s, b)
        BY <3>2, ResumeAppendStep DEF ResumeAppend
      <3> QED
        BY <2>1, <3>1, <3>2
    <2>2. ASSUME NEW s \in Sources, NEW b \in Builds, ReuseAppend(w, s, b)
          PROVE  BuildStep(w)
      BY <2>2 DEF ReuseAppend, BuildStep
    <2>3. SealAppend(w) => BuildStep(w)
      BY DEF SealAppend, BuildStep
    <2>4. CheckpointItem(w) \/ ObserveAgain(w) \/ CommitActive(w) => BuildStep(w)
      BY DEF BuildStep
    <2>5. BuildStep(w) \/ Abort(w) => Next
      BY DEF Next
    <2> QED
      BY <1>3, <2>1, <2>2, <2>3, <2>4, <2>5, BuildStepCases
  <1>4. CASE OperatorStep /\ UNCHANGED appendVars
    BY <1>4 DEF Next
  <1> QED
    BY <1>1, <1>2, <1>3, <1>4 DEF AppendNext

\* Managed append sources implement the catalogue of immutable snapshots like all
\* others: a copied prefix appears only with the generation that lists it.
THEOREM AppendImplementsSnapshots == AppendSpec => ImplementsSnapshotCatalog
  <1>1. ASSUME AppendInv, [AppendNext]_allVars
        PROVE  [Catalog!CatalogNext]_(Catalog!catalogVars)
    <2>1. ProtocolInv
      BY <1>1 DEF AppendInv
    <2>2. CASE [Next]_vars
      BY <2>1, <2>2, CatalogStepMapped
    <2>3. CASE Quiet /\ UNCHANGED pointer
      <3>1. UNCHANGED Snapshots
        BY <2>1, <2>3, QuietKeeps
      <3> QED
        BY <2>3, <3>1 DEF Catalog!catalogVars
    <2> QED
      BY <1>1, <2>2, <2>3, AppendStepKinds
  <1>2. AppendInit => Catalog!CatalogInit
    BY CatalogInitMapped DEF AppendInit
  <1>3. AppendInv /\ [AppendNext]_allVars => [Catalog!CatalogNext]_(Catalog!catalogVars)
    BY <1>1
  <1> QED
    BY <1>2, <1>3, AppendInvariant, PTL
       DEF AppendSpec, ImplementsSnapshotCatalog, Catalog!CatalogSpec
==============================================================================
