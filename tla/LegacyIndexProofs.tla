--------------------------- MODULE LegacyIndexProofs ---------------------------
(***************************************************************************)
(* Proofs about the legacy index: that its state is well typed, that every    *)
(* stored vector is accounted for, whatever workers, syncs, backfills, errors  *)
(* and crashes interleave, and that with one outbox worker no point is left     *)
(* behind when its chunk is deleted.                                          *)
(***************************************************************************)
EXTENDS LegacyIndex, TLAPS

------------------------------------------------------------------------------
(* The inductive invariant.                                                 *)

Lines == UNION {ToSet(t) : t \in Texts}

Todos == UNION {[S -> Texts] : S \in SUBSET Files}

Syncs == [pc : {"pick", "replace", "insert", "embed", "drop", "read", "flush",
                "vectors", "queue"},
          full : BOOLEAN, todo : Todos, orphans : SUBSET Files,
          file : Files \cup {Absent}, text : Seq(Lines), from : Nat,
          fresh : SUBSET ChunkIds]

Streaming == {"drop", "read", "flush", "vectors", "queue"}

\* A sync at work is at a file, and there is text left where a batch is written.
SyncTypeOK ==
    sync # NoSync =>
        /\ sync \in Syncs
        /\ sync.pc # "pick" => sync.file \in Files
        /\ sync.from <= Len(sync.text)
        /\ sync.pc \in Streaming => sync.from = 0
        /\ sync.pc \in {"vectors", "queue"} => sync.text # <<>>

\* An entry that was inserted, of a chunk that was.
Issued(e) == e[1] < clock /\ e[2] < nextChunk

\* The deletion of a point is queued by the statement that deletes the chunk.
EntriesAreSound ==
    \A e \in DOMAIN outbox :
        /\ Issued(e)
        /\ outbox[e].action = "delete" => ChunkOf(e) \notin Live

\* An entry may be purged but keeps its action.
Finds(e, action) == e \in DOMAIN outbox => outbox[e].action = action

\* What a worker removes belongs to no chunk, and what it has stored is still there.
BatchIsSound(b) ==
    /\ \A e \in b.ups \cup b.bad : Issued(e) /\ Finds(e, "upsert")
    /\ \A e \in b.dels : Issued(e) /\ Finds(e, "delete") /\ ChunkOf(e) \notin Live
    /\ b.pc = "upsert" => ~b.stored
    /\ b.pc # "settle" => ~b.removed
    /\ b.stored => \A e \in b.ups : ChunkOf(e) \in Live => ChunkOf(e) \in points

WorkersAreSound ==
    \A w \in Workers : worker[w] # Resting => BatchIsSound(worker[w])

IndexInv ==
    /\ IndexTypeOK
    /\ SyncTypeOK
    /\ EntriesAreSound
    /\ WorkersAreSound
    /\ VectorsAreAccounted

------------------------------------------------------------------------------
(* Rows of the outbox.                                                      *)

\* An update of the status changes nothing else that matters.
LEMMA MarkedFacts ==
    ASSUME NEW rs, \A e \in DOMAIN rs : rs[e] \in Entries,
           NEW es, NEW st, st \in {"pending", "processing", "done", "failed"},
           NEW more, more \in Nat,
           NEW marked, marked = Marked(rs, es, st, more)
    PROVE  /\ DOMAIN marked = DOMAIN rs
           /\ \A e \in DOMAIN rs :
                 /\ marked[e] \in Entries
                 /\ marked[e].action = rs[e].action
                 /\ marked[e].status = IF e \in es THEN st ELSE rs[e].status
  <1>1. DOMAIN marked = DOMAIN rs
    BY DEF Marked
  <1>2. ASSUME NEW e \in DOMAIN rs
        PROVE  /\ marked[e] \in Entries
               /\ marked[e].action = rs[e].action
               /\ marked[e].status = IF e \in es THEN st ELSE rs[e].status
    <2>1. CASE e \in es
      <3>1. marked[e] = [rs[e] EXCEPT !.status = st, !.retry = @ + more]
        BY <2>1 DEF Marked
      <3>2. rs[e] \in [action : {"upsert", "delete"}, retry : Nat,
                       status : {"pending", "processing", "done", "failed"}]
        BY DEF Entries
      <3>3. rs[e].retry + more \in Nat
        BY <3>2
      <3> QED
        BY <2>1, <3>1, <3>2, <3>3 DEF Entries
    <2>2. CASE e \notin es
      BY <2>2 DEF Marked
    <2> QED
      BY <2>1, <2>2
  <1> QED
    BY <1>1, <1>2

\* A statement that queues entries adds them, all pending and new.
LEMMA EnqueueFacts ==
    ASSUME IndexTypeOK, EntriesAreSound, NEW action \in {"upsert", "delete"},
           NEW cs \in SUBSET ChunkIds, Enqueue(action, cs)
    PROVE  /\ DOMAIN outbox' = DOMAIN outbox \cup ({clock} \X cs)
           /\ DOMAIN outbox' \subseteq EntryIds
           /\ \A e \in DOMAIN outbox : outbox'[e] = outbox[e]
           /\ \A e \in {clock} \X cs :
                 outbox'[e] = [action |-> action, status |-> "pending", retry |-> 0]
           /\ \A e \in DOMAIN outbox' : outbox'[e] \in Entries
           /\ clock' = clock + 1 /\ clock \in Nat
           /\ clock' \in 1 .. MaxClock + 1
  <1>1. clock \in 1 .. MaxClock /\ DOMAIN outbox \subseteq EntryIds
    BY OutboxAssumption DEF Enqueue, IndexTypeOK, OutboxTypeOK
  <1>2. DOMAIN outbox' = DOMAIN outbox \cup ({clock} \X cs)
    BY DEF Enqueue, Enqueued
  <1>3. {clock} \X cs \subseteq EntryIds
    BY <1>1 DEF EntryIds
  <1>4. \A e \in DOMAIN outbox : outbox'[e] = outbox[e] /\ outbox[e] \in Entries
    BY DEF Enqueue, Enqueued, IndexTypeOK, OutboxTypeOK
  <1>5. ASSUME NEW e \in {clock} \X cs
        PROVE  outbox'[e] = [action |-> action, status |-> "pending", retry |-> 0]
    <2>1. e \notin DOMAIN outbox
      <3>1. e[1] = clock
        BY <1>5
      <3> QED
        BY <1>1, <3>1 DEF EntriesAreSound, Issued
    <2> QED
      BY <1>2, <1>5, <2>1 DEF Enqueue, Enqueued
  <1>6. [action |-> action, status |-> "pending", retry |-> 0] \in Entries
    BY DEF Entries
  <1>7. clock' = clock + 1 /\ clock' \in 1 .. MaxClock + 1 /\ clock \in Nat
    BY <1>1, OutboxAssumption DEF Enqueue
  <1> QED
    BY <1>1, <1>2, <1>3, <1>4, <1>5, <1>6, <1>7

------------------------------------------------------------------------------
(* What every step has in common.                                           *)

\* Identifiers are not used again, entries keep their action, and the points of
\* chunks that are there stay.
Advance ==
    /\ clock <= clock' /\ nextChunk <= nextChunk'
    /\ \A c \in Live' : c \in Live \/ nextChunk <= c
    /\ \A e \in DOMAIN outbox' :
          IF e \in DOMAIN outbox THEN outbox'[e].action = outbox[e].action
          ELSE clock <= e[1]
    /\ \A c \in points \cap Live : c \in points'

\* What a step inserts into the outbox.
FreshAreSound ==
    \A e \in DOMAIN outbox' \ DOMAIN outbox :
        Issued(e)' /\ (outbox'[e].action = "delete" => ChunkOf(e) \notin Live')

\* An entry that is not done is still there, and not done.
OwedKept ==
    \A e \in DOMAIN outbox :
        outbox[e].status # "done" => e \in DOMAIN outbox' /\ outbox'[e].status # "done"

LEMMA NumbersAreNaturals ==
    ASSUME IndexTypeOK
    PROVE  /\ clock \in Nat /\ nextChunk \in Nat
           /\ \A e \in EntryIds : e[1] \in Nat /\ e[2] \in Nat /\ e[2] \in ChunkIds
           /\ \A c \in ChunkIds : c \in Nat
  BY OutboxAssumption DEF IndexTypeOK, OutboxTypeOK, EntryIds, ChunkIds

LEMMA BatchKept ==
    ASSUME IndexInv, IndexTypeOK', Advance, NEW b \in Batches, BatchIsSound(b)
    PROVE  BatchIsSound(b)'
  <1>1. /\ clock \in Nat /\ nextChunk \in Nat /\ clock' \in Nat /\ nextChunk' \in Nat
        /\ \A e \in EntryIds : e[1] \in Nat /\ e[2] \in Nat
        /\ \A c \in Live' : c \in Nat
    BY NumbersAreNaturals, OutboxAssumption
       DEF IndexInv, IndexTypeOK, OutboxTypeOK, ChunkIds
  <1>2. b.ups \subseteq EntryIds /\ b.dels \subseteq EntryIds /\ b.bad \subseteq EntryIds
    BY DEF Batches
  <1>3. \A e \in EntryIds : Issued(e) => Issued(e)'
    BY <1>1 DEF Issued, Advance
  <1>4. \A e \in EntryIds, action \in {"upsert", "delete"} :
           Issued(e) /\ Finds(e, action) => Finds(e, action)'
    BY <1>1 DEF Issued, Finds, Advance
  <1>5. \A e \in EntryIds : Issued(e) /\ ChunkOf(e) \in Live' => ChunkOf(e) \in Live
    BY <1>1 DEF Issued, Advance, ChunkOf
  <1>6. \A e \in b.ups \cup b.bad : Issued(e)' /\ Finds(e, "upsert")'
    BY <1>2, <1>3, <1>4 DEF BatchIsSound
  <1>7. \A e \in b.dels : Issued(e)' /\ Finds(e, "delete")' /\ ChunkOf(e) \notin Live'
    BY <1>2, <1>3, <1>4, <1>5 DEF BatchIsSound
  <1>8. b.stored => \A e \in b.ups : ChunkOf(e) \in Live' => ChunkOf(e) \in points'
    BY <1>2, <1>5 DEF BatchIsSound, Advance
  <1>9. (b.pc = "upsert" => ~b.stored) /\ (b.pc # "settle" => ~b.removed)
    BY DEF BatchIsSound
  <1> QED
    BY <1>6, <1>7, <1>8, <1>9 DEF BatchIsSound

LEMMA EntriesKept ==
    ASSUME IndexInv, IndexTypeOK', Advance, FreshAreSound
    PROVE  EntriesAreSound'
  <1>1. /\ clock \in Nat /\ nextChunk \in Nat /\ clock' \in Nat /\ nextChunk' \in Nat
        /\ \A e \in EntryIds : e[1] \in Nat /\ e[2] \in Nat
        /\ DOMAIN outbox \subseteq EntryIds
        /\ \A c \in Live' : c \in Nat
    BY NumbersAreNaturals, OutboxAssumption
       DEF IndexInv, IndexTypeOK, OutboxTypeOK, ChunkIds
  <1>2. ASSUME NEW e \in DOMAIN outbox', e \in DOMAIN outbox
        PROVE  Issued(e)' /\ (outbox'[e].action = "delete" => ChunkOf(e) \notin Live')
    <2>1. Issued(e) /\ (outbox[e].action = "delete" => ChunkOf(e) \notin Live)
      BY <1>2 DEF IndexInv, EntriesAreSound
    <2>2. e[1] \in Nat /\ e[2] \in Nat
      BY <1>1, <1>2
    <2>3. Issued(e)'
      BY <1>1, <2>1, <2>2 DEF Issued, Advance
    <2>4. outbox'[e].action = outbox[e].action
      BY <1>2 DEF Advance
    <2>5. ChunkOf(e) \in Live' => ChunkOf(e) \in Live
      BY <1>1, <2>1, <2>2 DEF Issued, Advance, ChunkOf
    <2> QED
      BY <2>1, <2>3, <2>4, <2>5
  <1> QED
    BY <1>2 DEF EntriesAreSound, FreshAreSound

\* The chunks X get their vectors in the step.
LEMMA AccountedKept ==
    ASSUME IndexInv, Advance, OwedKept, NEW X,
           gaveUp \subseteq gaveUp', unqueued \subseteq unqueued',
           embedded' \subseteq embedded \cup X,
           sync.pc = "queue" =>
              \/ sync'.pc = "queue" /\ sync'.fresh = sync.fresh
              \/ sync.fresh \subseteq unqueued'
              \/ \A c \in sync.fresh : Outstanding("upsert", c)',
           \A c \in X : Outstanding("upsert", c)' \/ (sync'.pc = "queue" /\ c \in sync'.fresh)
    PROVE  VectorsAreAccounted'
  <1> SUFFICES ASSUME NEW c \in embedded'
               PROVE  \/ c \in points' \/ Outstanding("upsert", c)' \/ c \in gaveUp'
                      \/ c \in unqueued' \/ (sync'.pc = "queue" /\ c \in sync'.fresh)
    BY DEF VectorsAreAccounted
  <1>1. CASE c \in X
    BY <1>1
  <1>2. CASE c \in embedded
    <2>1. c \in Live
      BY <1>2 DEF IndexInv, IndexTypeOK, OutboxTypeOK
    <2>2. Outstanding("upsert", c) => Outstanding("upsert", c)'
      <3> SUFFICES ASSUME NEW e \in DOMAIN outbox, ChunkOf(e) = c,
                          outbox[e].action = "upsert", outbox[e].status # "done"
                   PROVE  Outstanding("upsert", c)'
        BY DEF Outstanding
      <3>1. e \in DOMAIN outbox' /\ outbox'[e].status # "done"
        BY DEF OwedKept
      <3>2. outbox'[e].action = "upsert"
        BY <3>1 DEF Advance
      <3> QED
        BY <3>1, <3>2 DEF Outstanding
    <2>3. c \in points => c \in points'
      BY <2>1 DEF Advance
    <2>4. \/ c \in points \/ Outstanding("upsert", c) \/ c \in gaveUp
          \/ c \in unqueued \/ (sync.pc = "queue" /\ c \in sync.fresh)
      BY <1>2 DEF IndexInv, VectorsAreAccounted
    <2> QED
      BY <2>2, <2>3, <2>4
  <1> QED
    BY <1>1, <1>2

\* The parts, kept, are the invariant kept.
LEMMA IndexInvKept ==
    ASSUME IndexInv, IndexTypeOK', SyncTypeOK', Advance, FreshAreSound,
           VectorsAreAccounted',
           \A w \in Workers : worker'[w] \in {worker[w], Resting}
    PROVE  IndexInv'
  <1>1. EntriesAreSound'
    BY EntriesKept
  <1>2. WorkersAreSound'
    <2> SUFFICES ASSUME NEW w \in Workers, worker'[w] # Resting
                 PROVE  BatchIsSound(worker[w])' 
      BY DEF WorkersAreSound
    <2>1. worker'[w] = worker[w] /\ worker[w] \in Batches /\ BatchIsSound(worker[w])
      BY DEF IndexInv, IndexTypeOK, OutboxTypeOK, WorkersAreSound
    <2>2. PICK b \in Batches : b = worker[w]
      BY <2>1
    <2>3. BatchIsSound(b)'
      BY <2>1, <2>2, BatchKept
    <2> QED
      BY <2>1, <2>2, <2>3 DEF BatchIsSound
  <1> QED
    BY <1>1, <1>2 DEF IndexInv

------------------------------------------------------------------------------
(* Steps that leave the outbox and the chunks alone.                        *)

LEMMA QuietIndex ==
    ASSUME IndexInv, SyncTypeOK',
           UNCHANGED <<chunks, embedded, outbox, clock, points, gaveUp, nextChunk>>,
           \A w \in Workers : worker'[w] \in {worker[w], Resting},
           worker' \in [Workers -> Batches \cup {Resting}], faults' \in 0 .. MaxFaults,
           rows' \in [Files -> TextsOrAbsent], backfill' \subseteq 1 .. nextChunk - 1,
           unqueued \subseteq unqueued',
           sync.pc = "queue" => sync.fresh \subseteq unqueued' \/ sync' = sync
    PROVE  IndexInv'
  <1>1. IndexTypeOK'
    BY DEF IndexInv, IndexTypeOK, OutboxTypeOK, Live
  <1>2. Advance /\ FreshAreSound /\ OwedKept
    <2>1. clock \in Nat /\ nextChunk \in Nat
      BY NumbersAreNaturals DEF IndexInv
    <2>2. Live' = Live /\ outbox' = outbox /\ points' = points /\ clock' = clock
          /\ nextChunk' = nextChunk
      BY DEF Live
    <2>3. Advance
      BY <2>1, <2>2 DEF Advance
    <2> QED
      BY <2>2, <2>3 DEF FreshAreSound, OwedKept
  <1>3. VectorsAreAccounted'
    <2> DEFINE X == {}
    <2>1. embedded' \subseteq embedded \cup X /\ gaveUp \subseteq gaveUp'
      OBVIOUS
    <2>2. sync.pc = "queue" =>
             \/ sync'.pc = "queue" /\ sync'.fresh = sync.fresh
             \/ sync.fresh \subseteq unqueued'
             \/ \A c \in sync.fresh : Outstanding("upsert", c)'
      OBVIOUS
    <2>3. \A c \in X : Outstanding("upsert", c)' \/ (sync'.pc = "queue" /\ c \in sync'.fresh)
      OBVIOUS
    <2> HIDE DEF X
    <2> QED
      BY <1>2, <2>1, <2>2, <2>3, AccountedKept
  <1> QED
    BY <1>1, <1>2, <1>3, IndexInvKept

\* A sync that moves on keeps its form.
LEMMA SyncFacts ==
    ASSUME IndexInv, sync # NoSync
    PROVE  /\ sync \in Syncs /\ sync.text \in Seq(Lines) /\ Len(sync.text) \in Nat
           /\ sync.pc # "pick" => sync.file \in Files
           /\ sync.from <= Len(sync.text) /\ sync.from \in Nat
           /\ sync.fresh \subseteq ChunkIds /\ sync.orphans \subseteq Files
           /\ DOMAIN sync.todo \subseteq Files
           /\ \A f \in DOMAIN sync.todo : sync.todo[f] \in Texts
           /\ sync.pc \in {"vectors", "queue"} => sync.text # <<>>
           /\ sync.pc \in Streaming => sync.from = 0
  <1>1. sync \in Syncs
    BY DEF IndexInv, SyncTypeOK
  <1>2. sync.text \in Seq(Lines) /\ sync.from \in Nat /\ sync.fresh \subseteq ChunkIds
        /\ sync.orphans \subseteq Files /\ sync.todo \in Todos
    BY <1>1 DEF Syncs
  <1>3. DOMAIN sync.todo \subseteq Files /\ \A f \in DOMAIN sync.todo : sync.todo[f] \in Texts
    BY <1>2 DEF Todos
  <1>4. Len(sync.text) \in Nat
    BY <1>2
  <1> QED
    BY <1>1, <1>2, <1>3, <1>4 DEF IndexInv, SyncTypeOK

LEMMA TextFacts ==
    ASSUME NEW t \in Texts
    PROVE  t \in Seq(Lines) /\ Len(t) \in Nat /\ t # <<>> /\ t # Absent
  BY TextsAssumption DEF Lines

\* A file is passed over, or the work on it begins.
LEMMA PassedFacts ==
    ASSUME IndexInv, sync.pc = "pick", NEW f \in DOMAIN sync.todo
    PROVE  /\ Passed(f) \in Syncs /\ Passed(f).pc = "pick"
           /\ Passed(f).from = sync.from /\ Passed(f).text = sync.text
  <1>1. sync # NoSync
    BY DEF NoSync
  <1>2. sync \in Syncs
    BY <1>1, SyncFacts
  <1> DEFINE rest == [g \in DOMAIN sync.todo \ {f} |-> sync.todo[g]]
  <1>3. rest \in Todos
    <2>1. rest \in [DOMAIN sync.todo \ {f} -> Texts]
      BY <1>1, SyncFacts
    <2>2. DOMAIN sync.todo \ {f} \in SUBSET Files
      BY <1>1, SyncFacts
    <2> QED
      BY <2>1, <2>2 DEF Todos
  <1>4. Passed(f) = [sync EXCEPT !.todo = rest]
    BY DEF Passed
  <1> HIDE DEF rest
  <1> QED
    BY <1>2, <1>3, <1>4 DEF Syncs

LEMMA BegunFacts ==
    ASSUME IndexInv, sync.pc = "pick", NEW f \in DOMAIN sync.todo,
           NEW pc \in {"replace", "insert", "drop"}, NEW text \in Seq(Lines),
           NEW from \in Nat
    PROVE  LET r == Begun(f, pc, text, from)
           IN  r \in Syncs /\ r.pc = pc /\ r.file = f /\ r.from = from /\ r.text = text
  <1>1. f \in Files
    <2>1. sync # NoSync
      BY DEF NoSync
    <2> QED
      BY <2>1, SyncFacts
  <1>2. Passed(f) \in Syncs
    BY PassedFacts
  <1> QED
    BY <1>1, <1>2 DEF Begun, Syncs

\* A sync finds files.
LEMMA StartStep ==
    ASSUME IndexInv, StartSync \/ \E f \in Files : StartSyncFiles(f)
    PROVE  IndexInv'
  <1>1. ASSUME NEW full \in BOOLEAN, NEW texts \in Todos, NEW orphans \in SUBSET Files,
               sync' = Found(full, texts, orphans)
        PROVE  SyncTypeOK'
    <2>1. sync' \in Syncs /\ sync'.pc = "pick" /\ sync'.from = 0 /\ Len(sync'.text) = 0
      BY <1>1 DEF Found, Syncs
    <2> QED
      BY <2>1 DEF SyncTypeOK, Streaming
  <1>2. SyncTypeOK'
    <2>1. ASSUME NEW found \in SUBSET Files, NEW texts \in [found -> Texts],
                 sync' = Found(TRUE, texts, {f \in Files : rows[f] # Absent} \ found)
          PROVE  SyncTypeOK'
      <3>1. texts \in Todos
        BY DEF Todos
      <3> QED
        BY <1>1, <2>1, <3>1
    <2>2. ASSUME NEW f \in Files, NEW text \in Texts,
                 sync' = Found(FALSE, [g \in {f} |-> text], {})
          PROVE  SyncTypeOK'
      <3>1. [g \in {f} |-> text] \in [{f} -> Texts] /\ {f} \in SUBSET Files
        OBVIOUS
      <3>2. [g \in {f} |-> text] \in Todos /\ {} \in SUBSET Files /\ FALSE \in BOOLEAN
        BY <3>1 DEF Todos
      <3> DEFINE texts == [g \in {f} |-> text]
      <3>3. texts \in Todos /\ sync' = Found(FALSE, texts, {})
        BY <2>2, <3>2
      <3> HIDE DEF texts
      <3> QED
        BY <1>1, <3>2, <3>3
    <2>3. CASE StartSync
      BY <2>1, <2>3 DEF StartSync
    <2>4. CASE \E f \in Files : StartSyncFiles(f)
      BY <2>2, <2>4 DEF StartSyncFiles
    <2> QED
      BY <2>3, <2>4
  <1>3. /\ UNCHANGED <<outboxVars, rows, nextChunk, backfill, misindexed, unqueued>>
        /\ sync = NoSync
    BY DEF StartSync, StartSyncFiles
  <1>4. sync.pc # "queue"
    BY <1>3 DEF NoSync
  <1> QED
    BY <1>2, <1>3, <1>4, QuietIndex DEF outboxVars, IndexInv, IndexTypeOK, OutboxTypeOK

\* A sync that has finished with a file is a sync.
LEMMA NextFileFacts ==
    ASSUME IndexInv, sync # NoSync, sync' \in {NextFile, NoSync}
    PROVE  SyncTypeOK'
  <1>1. sync \in Syncs
    BY SyncFacts
  <1> DEFINE none == <<>>
             r == [sync EXCEPT !.pc = "pick", !.file = Absent, !.text = none, !.from = 0,
                               !.fresh = {}]
  <1>3. none \in Seq(Lines) /\ Len(none) = 0
    OBVIOUS
  <1>4. NextFile = r
    BY DEF NextFile
  <1> HIDE DEF none
  <1>5. r \in Syncs /\ r.pc = "pick" /\ r.from = 0 /\ r.text = none
    BY <1>1, <1>3 DEF Syncs
  <1> HIDE DEF r
  <1> QED
    BY <1>3, <1>4, <1>5 DEF SyncTypeOK, Streaming

LEMMA PassStep ==
    ASSUME IndexInv, sync.pc = "pick", NEW f \in DOMAIN sync.todo, sync' = Passed(f)
    PROVE  SyncTypeOK'
  <1>1. sync # NoSync
    BY DEF NoSync
  <1>2. /\ sync' \in Syncs /\ sync'.pc = "pick" /\ sync'.from = sync.from
        /\ sync'.text = sync.text
    BY PassedFacts
  <1>3. sync.from <= Len(sync.text)
    BY <1>1, SyncFacts
  <1> QED
    BY <1>2, <1>3 DEF SyncTypeOK, Streaming

LEMMA BeginStep ==
    ASSUME IndexInv, sync.pc = "pick", NEW f \in DOMAIN sync.todo,
           NEW pc \in {"replace", "insert", "drop"}, NEW t \in Seq(Lines),
           NEW from \in Nat, from <= Len(t), pc = "drop" => from = 0,
           sync' = Begun(f, pc, t, from)
    PROVE  SyncTypeOK'
  <1>1. f \in Files
    <2>1. sync # NoSync
      BY DEF NoSync
    <2> QED
      BY <2>1, SyncFacts
  <1>2. /\ sync' \in Syncs /\ sync'.pc = pc /\ sync'.file = f
        /\ sync'.from = from /\ sync'.text = t
    BY BegunFacts
  <1> QED
    BY <1>1, <1>2 DEF SyncTypeOK, Streaming

\* The row of a file takes the text that was found.
LEMMA RecordStep ==
    ASSUME IndexInv, NEW f \in Files, RecordFile(f) \/ HashStream(f)
    PROVE  IndexInv'
  <1> DEFINE text == sync.todo[f]
  <1>1. /\ sync.pc = "pick" /\ f \in DOMAIN sync.todo /\ sync # NoSync
        /\ UNCHANGED <<outboxVars, nextChunk, backfill, unqueued>>
    BY DEF RecordFile, HashStream, NoSync
  <1>2. text \in Texts
    BY <1>1, SyncFacts
  <1>3. text \in Seq(Lines) /\ Len(text) \in Nat /\ <<>> \in Seq(Lines) /\ Len(<<>>) = 0
    BY <1>2, TextFacts
  <1>4. rows \in [Files -> TextsOrAbsent]
    BY DEF IndexInv, IndexTypeOK
  <1>5. \/ sync' = Passed(f) /\ UNCHANGED rows
        \/ /\ rows' = [rows EXCEPT ![f] = text]
           /\ \/ sync' = Begun(f, "drop", <<>>, 0)
              \/ sync' = Begun(f, "replace", text, 0)
              \/ /\ sync' = Begun(f, "insert", text, Len(rows[f]))
                 /\ rows[f] # Absent /\ Appends(f, text)
    BY DEF RecordFile, HashStream
  <1> HIDE DEF text
  <1>6. SyncTypeOK'
    <2>1. CASE sync' = Passed(f)
      BY <1>1, <2>1, PassStep
    <2>2. CASE sync' = Begun(f, "drop", <<>>, 0)
      <3> DEFINE none == <<>>
      <3>1. none \in Seq(Lines) /\ 0 <= Len(none) /\ 0 \in Nat
            /\ sync' = Begun(f, "drop", none, 0)
        BY <1>3, <2>2
      <3> HIDE DEF none
      <3> QED
        BY <1>1, <3>1, BeginStep
    <2>3. CASE sync' = Begun(f, "replace", text, 0)
      BY <1>1, <1>3, <2>3, BeginStep
    <2>4. CASE sync' = Begun(f, "insert", text, Len(rows[f])) /\ rows[f] # Absent
                 /\ Appends(f, text)
      <3>1. rows[f] \in Texts
        BY <1>4, <2>4 DEF TextsOrAbsent
      <3>2. Len(rows[f]) \in Nat /\ Len(rows[f]) < Len(text)
        BY <2>4, <3>1, TextFacts DEF Appends
      <3> QED
        BY <1>1, <1>3, <2>4, <3>2, BeginStep
    <2> QED
      BY <1>5, <2>1, <2>2, <2>3, <2>4
  <1>7. rows' \in [Files -> TextsOrAbsent]
    BY <1>2, <1>4, <1>5 DEF TextsOrAbsent
  <1>8. sync.pc # "queue"
    BY <1>1
  <1> QED
    BY <1>1, <1>6, <1>7, <1>8, QuietIndex
       DEF outboxVars, IndexInv, IndexTypeOK, OutboxTypeOK

\* The other steps of a sync that write no chunk, and the end of one.
LEMMA OpenStep ==
    ASSUME IndexInv, OpenStream \/ EndStream \/ FinishSync
    PROVE  IndexInv'
  <1>1. /\ sync # NoSync /\ sync.pc # "queue"
        /\ UNCHANGED <<outboxVars, rows, nextChunk, backfill, unqueued>>
    <2>1. /\ sync.pc \in {"read", "flush", "pick"}
          /\ UNCHANGED <<outboxVars, rows, nextChunk, backfill, unqueued>>
      BY DEF OpenStream, EndStream, FinishSync
    <2> QED
      BY <2>1 DEF NoSync
  <1>2. SyncTypeOK'
    <2>1. ASSUME NEW text \in Texts, sync.pc = "read",
                 sync' = [sync EXCEPT !.pc = "flush", !.text = text]
          PROVE  SyncTypeOK'
      <3>1. text \in Seq(Lines) /\ Len(text) \in Nat
        BY TextFacts
      <3>2. /\ sync' \in Syncs /\ sync'.pc = "flush" /\ sync'.file = sync.file
            /\ sync'.text = text /\ sync'.from = sync.from
        BY <1>1, <2>1, <3>1, SyncFacts DEF Syncs
      <3>3. sync.from = 0 /\ sync.file \in Files
        BY <1>1, <2>1, SyncFacts DEF Streaming
      <3> QED
        BY <3>1, <3>2, <3>3 DEF SyncTypeOK
    <2>2. CASE OpenStream
      BY <2>1, <2>2 DEF OpenStream
    <2>3. CASE EndStream \/ FinishSync
      BY <1>1, <2>3, NextFileFacts DEF EndStream, FinishSync
    <2> QED
      BY <2>2, <2>3
  <1> QED
    BY <1>1, <1>2, QuietIndex DEF outboxVars, IndexInv, IndexTypeOK, OutboxTypeOK

\* Errors, timeouts and the end of the process: what they leave without an entry is
\* noted in the same step.
LEMMA FailStep ==
    ASSUME IndexInv, AbandonFile \/ Crash \/ FailBackfill
    PROVE  IndexInv'
  <1>1. /\ UNCHANGED <<chunks, embedded, outbox, clock, points, gaveUp, rows, nextChunk>>
        /\ Fault /\ (worker' = worker \/ worker' = [w \in Workers |-> Resting])
        /\ backfill' \in {backfill, {}}
    BY DEF AbandonFile, Crash, FailBackfill
  <1>2. SyncTypeOK'
    <2>1. CASE FailBackfill
      BY <2>1 DEF FailBackfill, IndexInv, SyncTypeOK
    <2>2. CASE Crash
      BY <2>2 DEF Crash, SyncTypeOK
    <2>3. CASE AbandonFile
      <3>1. CASE sync.pc = "pick" /\ \E f \in DOMAIN sync.todo : sync' = Passed(f)
        BY <3>1, PassStep
      <3>2. CASE sync.pc \notin {"idle", "pick"} /\ sync' = NextFile
        <4>1. sync # NoSync
          BY <3>2 DEF NoSync
        <4> QED
          BY <3>2, <4>1, NextFileFacts
      <3> QED
        BY <2>3, <3>1, <3>2 DEF AbandonFile
    <2> QED
      BY <2>1, <2>2, <2>3
  <1>3. /\ unqueued \subseteq unqueued'
        /\ sync.pc = "queue" => sync.fresh \subseteq unqueued' \/ sync' = sync
    <2>1. CASE AbandonFile \/ Crash
      BY <2>1 DEF AbandonFile, Crash, LeaveBehind
    <2>2. CASE FailBackfill
      BY <2>2 DEF FailBackfill
    <2> QED
      BY <2>1, <2>2
  <1>4. faults' \in 0 .. MaxFaults
    BY <1>1, OutboxAssumption DEF Fault, IndexInv, IndexTypeOK, OutboxTypeOK
  <1>5. /\ worker' \in [Workers -> Batches \cup {Resting}]
        /\ \A w \in Workers : worker'[w] \in {worker[w], Resting}
    BY <1>1 DEF IndexInv, IndexTypeOK, OutboxTypeOK
  <1>6. rows' \in [Files -> TextsOrAbsent] /\ backfill' \subseteq 1 .. nextChunk - 1
    BY <1>1 DEF IndexInv, IndexTypeOK
  <1> QED
    BY <1>1, <1>2, <1>3, <1>4, <1>5, <1>6, QuietIndex

LEMMA IdleStep ==
    ASSUME IndexInv, ReadUnembedded \/ UNCHANGED vars
    PROVE  IndexInv'
  <1>1. /\ UNCHANGED <<outboxVars, rows, nextChunk, sync, unqueued>>
        /\ backfill' \subseteq backfill \cup Live
    BY DEF ReadUnembedded, vars
  <1>2. SyncTypeOK'
    BY <1>1 DEF IndexInv, SyncTypeOK
  <1>3. backfill' \subseteq 1 .. nextChunk - 1
    <2>1. Live \subseteq 1 .. nextChunk - 1
      BY DEF IndexInv, IndexTypeOK, OutboxTypeOK, ChunkIds
    <2> QED
      BY <1>1, <2>1 DEF IndexInv, IndexTypeOK
  <1> QED
    BY <1>1, <1>2, <1>3, QuietIndex DEF outboxVars, IndexInv, IndexTypeOK, OutboxTypeOK

------------------------------------------------------------------------------
(* Steps that delete, insert or embed chunks.                               *)

\* Chunks that are deleted leave an entry for their point.
LEMMA DropStep ==
    ASSUME IndexInv, NEW cs \in SUBSET Live, DropChunks(cs), SyncTypeOK',
           UNCHANGED <<workerVars, nextChunk, backfill, unqueued>>,
           rows' \in [Files -> TextsOrAbsent], sync.pc # "queue"
    PROVE  IndexInv' /\ Advance /\ OwedKept
  <1>1. /\ Live \subseteq ChunkIds /\ embedded \subseteq Live
        /\ \A c \in Live : c < nextChunk
        /\ clock \in Nat /\ nextChunk \in Nat
    BY NumbersAreNaturals DEF IndexInv, IndexTypeOK, OutboxTypeOK
  <1>2. Live' = Live \ cs /\ embedded' = embedded \ cs /\ \A c \in Live' : chunks'[c] = chunks[c]
    BY DEF DropChunks, Live
  <1>3. /\ DOMAIN outbox' \subseteq DOMAIN outbox \cup ({clock} \X cs)
        /\ DOMAIN outbox' \subseteq EntryIds
        /\ \A e \in DOMAIN outbox : e \in DOMAIN outbox' /\ outbox'[e] = outbox[e]
        /\ \A e \in DOMAIN outbox' : outbox'[e] \in Entries
        /\ clock' \in 1 .. MaxClock + 1 /\ clock <= clock'
        /\ \A e \in DOMAIN outbox' \ DOMAIN outbox : clock < clock'
    <2>1. CASE cs = {}
      BY <1>1, <2>1 DEF DropChunks, IndexInv, IndexTypeOK, OutboxTypeOK
    <2>2. CASE cs # {}
      <3>1. Enqueue("delete", cs) /\ cs \in SUBSET ChunkIds
        BY <1>1, <2>2 DEF DropChunks
      <3>2. IndexTypeOK /\ EntriesAreSound
        BY DEF IndexInv
      <3>3. /\ DOMAIN outbox' = DOMAIN outbox \cup ({clock} \X cs)
            /\ DOMAIN outbox' \subseteq EntryIds
            /\ \A e \in DOMAIN outbox : outbox'[e] = outbox[e]
            /\ \A e \in DOMAIN outbox' : outbox'[e] \in Entries
            /\ clock' = clock + 1 /\ clock' \in 1 .. MaxClock + 1
        BY <3>1, <3>2, EnqueueFacts
      <3>4. clock < clock' /\ clock <= clock'
        BY <1>1, <3>3
      <3> QED
        BY <3>3, <3>4
    <2> QED
      BY <2>1, <2>2
  <1>4. ASSUME NEW e \in DOMAIN outbox' \ DOMAIN outbox
        PROVE  e[1] = clock /\ e[2] \in cs /\ clock < clock'
    BY <1>3
  <1>5. IndexTypeOK'
    <2>1. OutboxTypeOK'
      BY <1>1, <1>2, <1>3 DEF IndexInv, IndexTypeOK, OutboxTypeOK, workerVars
    <2>2. (\A c \in Live : chunks[c].file \in Files /\ c < nextChunk)'
      BY <1>1, <1>2 DEF IndexInv, IndexTypeOK
    <2> QED
      BY <2>1, <2>2 DEF IndexInv, IndexTypeOK
  <1>6. Advance /\ OwedKept
    <2>1. \A e \in DOMAIN outbox' :
             IF e \in DOMAIN outbox THEN outbox'[e].action = outbox[e].action
             ELSE clock <= e[1]
      BY <1>1, <1>3, <1>4
    <2> QED
      BY <1>1, <1>2, <1>3, <2>1 DEF Advance, OwedKept, workerVars
  <1>7. FreshAreSound
    BY <1>1, <1>2, <1>4 DEF FreshAreSound, Issued, ChunkOf
  <1>8. VectorsAreAccounted'
    <2> DEFINE X == {}
    <2>1. embedded' \subseteq embedded \cup X
      BY <1>2
    <2>2. \A c \in X : Outstanding("upsert", c)' \/ (sync'.pc = "queue" /\ c \in sync'.fresh)
      OBVIOUS
    <2>3. gaveUp \subseteq gaveUp' /\ unqueued \subseteq unqueued'
      BY DEF workerVars
    <2> HIDE DEF X
    <2> QED
      BY <1>6, <2>1, <2>2, <2>3, AccountedKept
  <1>9. \A w \in Workers : worker'[w] \in {worker[w], Resting}
    BY DEF workerVars
  <1> QED
    BY <1>5, <1>6, <1>7, <1>8, <1>9, IndexInvKept

LEMMA ReplaceStep ==
    ASSUME IndexInv, \/ ReplaceChunks \/ DropStreamed
                     \/ \E f \in Files : DeleteOrphan(f)
    PROVE  IndexInv'
  <1>1. /\ sync.pc \in {"replace", "drop", "pick"} /\ sync # NoSync
        /\ UNCHANGED <<workerVars, nextChunk, backfill, unqueued>>
    <2>1. /\ sync.pc \in {"replace", "drop", "pick"}
          /\ UNCHANGED <<workerVars, nextChunk, backfill, unqueued>>
      BY DEF ReplaceChunks, DropStreamed, DeleteOrphan
    <2> QED
      BY <2>1 DEF NoSync
  <1>2. sync \in Syncs /\ rows \in [Files -> TextsOrAbsent]
    BY <1>1, SyncFacts DEF IndexInv, IndexTypeOK
  <1>3. \A f : ChunksOf(f) \in SUBSET Live
    BY DEF ChunksOf
  <1>4. ASSUME NEW pc \in {"insert", "read"}, sync' = [sync EXCEPT !.pc = pc],
               sync.pc \in {"replace", "drop"}, pc = "read" => sync.pc = "drop"
        PROVE  SyncTypeOK'
    <2>1. /\ sync' \in Syncs /\ sync'.pc = pc /\ sync'.file = sync.file
          /\ sync'.from = sync.from /\ sync'.text = sync.text
      BY <1>2, <1>4 DEF Syncs
    <2>2. /\ sync.file \in Files /\ sync.from <= Len(sync.text)
          /\ pc = "read" => sync.from = 0
      BY <1>1, <1>4, SyncFacts DEF Streaming
    <2> QED
      BY <2>1, <2>2 DEF SyncTypeOK, Streaming
  <1>5. CASE ReplaceChunks
    <2>1. UNCHANGED rows
      BY <1>5 DEF ReplaceChunks
    <2>2. CASE sync' = NextFile /\ UNCHANGED <<chunks, embedded, outbox, clock>>
      <3>1. SyncTypeOK'
        BY <1>1, <2>2, NextFileFacts
      <3> QED
        BY <1>1, <2>1, <2>2, <3>1, QuietIndex
           DEF workerVars, IndexInv, IndexTypeOK, OutboxTypeOK
    <2>3. CASE DropChunks(ChunksOf(sync.file)) /\ sync' = [sync EXCEPT !.pc = "insert"]
                 /\ sync.pc = "replace"
      <3>1. SyncTypeOK'
        BY <1>4, <2>3
      <3> QED
        BY <1>1, <1>2, <1>3, <2>1, <2>3, <3>1, DropStep
    <2> QED
      BY <1>5, <2>2, <2>3 DEF ReplaceChunks
  <1>6. CASE DropStreamed
    <2>1. /\ DropChunks(ChunksOf(sync.file)) /\ sync' = [sync EXCEPT !.pc = "read"]
          /\ sync.pc = "drop" /\ UNCHANGED rows
      BY <1>6 DEF DropStreamed
    <2>2. SyncTypeOK'
      BY <1>4, <2>1
    <2> QED
      BY <1>1, <1>2, <1>3, <2>1, <2>2, DropStep
  <1>7. ASSUME NEW f \in Files, DeleteOrphan(f)
        PROVE  IndexInv'
    <2>1. /\ DropChunks(ChunksOf(f)) /\ rows' = [rows EXCEPT ![f] = Absent]
          /\ sync' = [sync EXCEPT !.orphans = @ \ {f}] /\ sync.pc = "pick"
      BY <1>7 DEF DeleteOrphan
    <2>2. rows' \in [Files -> TextsOrAbsent]
      BY <1>2, <2>1 DEF TextsOrAbsent
    <2>3. SyncTypeOK'
      <3> DEFINE left == sync.orphans \ {f}
      <3>1. left \in SUBSET Files /\ sync' = [sync EXCEPT !.orphans = left]
        BY <1>1, <2>1, SyncFacts
      <3> HIDE DEF left
      <3>2. /\ sync' \in Syncs /\ sync'.pc = "pick" /\ sync'.text = sync.text
            /\ sync'.from = sync.from
        BY <1>2, <2>1, <3>1 DEF Syncs
      <3>3. sync.from <= Len(sync.text)
        BY <1>1, SyncFacts
      <3> QED
        BY <3>2, <3>3 DEF SyncTypeOK, Streaming
    <2> QED
      BY <1>1, <1>3, <2>1, <2>2, <2>3, DropStep
  <1> QED
    BY <1>5, <1>6, <1>7

\* New chunks take identifiers that were never used.
LEMMA InsertStep ==
    ASSUME IndexInv, sync # NoSync, sync.file \in Files, sync.pc # "queue",
           NEW text \in Seq(Lines), NEW from \in Nat, from <= Len(text),
           NEW pc \in {"embed", "vectors"}, InsertLines(text, from, pc),
           pc = "vectors" => sync.text # <<>> /\ sync.from = 0
    PROVE  IndexInv'
  <1> DEFINE size == Len(text) - from
             fresh == nextChunk .. nextChunk + size - 1
             new(c) == [file |-> sync.file, at |-> from + 1 + c - nextChunk,
                        line |-> text[from + 1 + c - nextChunk]]
  <1>1. /\ nextChunk \in 1 .. MaxChunk + 1 /\ size \in Nat
        /\ nextChunk + size - 1 <= MaxChunk /\ MaxChunk \in Nat
        /\ clock \in Nat
    <2>1. Len(text) \in Nat
      OBVIOUS
    <2>2. nextChunk \in 1 .. MaxChunk + 1 /\ clock \in Nat
      BY NumbersAreNaturals DEF IndexInv, IndexTypeOK
    <2>3. nextChunk + Len(text) - from - 1 <= MaxChunk
      BY DEF InsertLines
    <2> QED
      BY <2>1, <2>2, <2>3, OutboxAssumption
  <1>2. /\ nextChunk + Len(text) - from - 1 = nextChunk + size - 1
        /\ nextChunk + Len(text) - from = nextChunk + size
    BY <1>1
  <1>3. /\ chunks' = [c \in Live \cup fresh |-> IF c \in Live THEN chunks[c] ELSE new(c)]
        /\ nextChunk' = nextChunk + size
        /\ sync' = [sync EXCEPT !.pc = pc, !.fresh = fresh]
        /\ UNCHANGED <<embedded, outbox, clock, workerVars, rows, backfill, unqueued>>
    BY <1>2 DEF InsertLines
  <1>f. \A c \in fresh : new(c).file = sync.file
    OBVIOUS
  <1> HIDE DEF size, new
  <1>4. fresh \subseteq ChunkIds /\ \A c \in fresh : nextChunk <= c /\ c < nextChunk'
    BY <1>1, <1>3 DEF ChunkIds
  <1> HIDE DEF fresh
  <1>5. Live' = Live \cup fresh
    BY <1>3 DEF Live
  <1>6. nextChunk' \in 1 .. MaxChunk + 1 /\ nextChunk <= nextChunk'
    BY <1>1, <1>3
  <1>7. IndexTypeOK'
    <2>1. OutboxTypeOK'
      BY <1>3, <1>4, <1>5 DEF IndexInv, IndexTypeOK, OutboxTypeOK, workerVars
    <2>2. \A c \in Live' : chunks'[c].file \in Files
      BY <1>3, <1>4, <1>5, <1>f DEF IndexInv, IndexTypeOK
    <2>3. \A c \in Live' : c < nextChunk'
      BY <1>1, <1>4, <1>5, <1>6 DEF IndexInv, IndexTypeOK, OutboxTypeOK, ChunkIds
    <2>4. backfill' \subseteq 1 .. nextChunk' - 1
      BY <1>1, <1>3, <1>6 DEF IndexInv, IndexTypeOK
    <2> QED
      BY <1>3, <1>6, <2>1, <2>2, <2>3, <2>4 DEF IndexInv, IndexTypeOK
  <1>8. SyncTypeOK'
    <2>1. /\ sync \in Syncs /\ sync.from <= Len(sync.text)
      BY SyncFacts
    <2>2. /\ sync' \in Syncs /\ sync'.pc = pc /\ sync'.file = sync.file
          /\ sync'.text = sync.text /\ sync'.from = sync.from
      BY <1>3, <1>4, <2>1 DEF Syncs
    <2> QED
      BY <2>1, <2>2 DEF SyncTypeOK, Streaming
  <1>9. Advance /\ FreshAreSound /\ OwedKept
    BY <1>1, <1>3, <1>4, <1>5, <1>6 DEF Advance, FreshAreSound, OwedKept, workerVars
  <1>10. VectorsAreAccounted'
    <2> DEFINE X == {}
    <2>1. embedded' \subseteq embedded \cup X
      BY <1>3
    <2>2. \A c \in X : Outstanding("upsert", c)' \/ (sync'.pc = "queue" /\ c \in sync'.fresh)
      OBVIOUS
    <2>3. gaveUp \subseteq gaveUp' /\ unqueued \subseteq unqueued'
      BY <1>3 DEF workerVars
    <2> HIDE DEF X
    <2> QED
      BY <1>9, <2>1, <2>2, <2>3, AccountedKept
  <1> QED
    BY <1>3, <1>7, <1>8, <1>9, <1>10, IndexInvKept DEF workerVars

LEMMA InsertChunksStep ==
    ASSUME IndexInv, InsertChunks \/ FlushChunks
    PROVE  IndexInv'
  <1>1. sync.pc \in {"insert", "flush"} /\ sync # NoSync
    <2>1. sync.pc \in {"insert", "flush"}
      BY DEF InsertChunks, FlushChunks
    <2> QED
      BY <2>1 DEF NoSync
  <1>2. /\ sync.file \in Files /\ sync.text \in Seq(Lines) /\ sync.from \in Nat
        /\ sync.from <= Len(sync.text)
    BY <1>1, SyncFacts
  <1>3. CASE InsertChunks
    BY <1>1, <1>2, <1>3, InsertStep DEF InsertChunks
  <1>4. CASE FlushChunks
    <2>1. sync.text # <<>> /\ sync.from = 0
      BY <1>1, <1>4, SyncFacts DEF FlushChunks, Streaming
    <2> DEFINE one == <<Head(sync.text)>>
    <2>2. one \in Seq(Lines) /\ Len(one) = 1
      BY <1>2, <2>1
    <2>3. InsertLines(one, 0, "vectors")
      BY <1>4 DEF FlushChunks
    <2> HIDE DEF one
    <2> QED
      BY <1>1, <1>2, <2>1, <2>2, <2>3, InsertStep
  <1> QED
    BY <1>3, <1>4

\* The entries of the chunks cs, with their vectors or after them.
LEMMA EmbedStep ==
    ASSUME IndexInv, NEW cs \in SUBSET Live, Enqueue("upsert", cs), SyncTypeOK',
           UNCHANGED <<chunks, workerVars, rows, nextChunk, unqueued>>,
           embedded \subseteq embedded', embedded' \subseteq embedded \cup cs,
           backfill' \in {backfill, {}},
           sync.pc = "queue" => sync' = sync \/ sync.fresh \subseteq cs
    PROVE  IndexInv'
  <1>1. /\ IndexTypeOK /\ EntriesAreSound /\ cs \in SUBSET ChunkIds
        /\ clock \in Nat /\ nextChunk \in Nat
    BY NumbersAreNaturals DEF IndexInv, IndexTypeOK, OutboxTypeOK
  <1>2. /\ DOMAIN outbox' = DOMAIN outbox \cup ({clock} \X cs)
        /\ DOMAIN outbox' \subseteq EntryIds
        /\ \A e \in DOMAIN outbox : outbox'[e] = outbox[e]
        /\ \A e \in {clock} \X cs :
              outbox'[e] = [action |-> "upsert", status |-> "pending", retry |-> 0]
        /\ \A e \in DOMAIN outbox' : outbox'[e] \in Entries
        /\ clock' = clock + 1 /\ clock' \in 1 .. MaxClock + 1
    BY <1>1, EnqueueFacts
  <1>3. Live' = Live
    BY DEF Live
  <1>4. IndexTypeOK'
    <2>1. OutboxTypeOK'
      BY <1>2, <1>3 DEF IndexInv, IndexTypeOK, OutboxTypeOK, workerVars
    <2> QED
      BY <1>3, <2>1 DEF IndexInv, IndexTypeOK
  <1>5. ASSUME NEW e \in DOMAIN outbox' \ DOMAIN outbox
        PROVE  /\ e[1] = clock /\ e[2] \in cs
               /\ outbox'[e].action = "upsert"
    BY <1>2
  <1>6. Advance /\ OwedKept
    <2>1. \A e \in DOMAIN outbox' :
             IF e \in DOMAIN outbox THEN outbox'[e].action = outbox[e].action
             ELSE clock <= e[1]
      BY <1>1, <1>2, <1>5
    <2>2. clock <= clock' /\ nextChunk <= nextChunk'
      BY <1>1, <1>2
    <2> QED
      BY <1>2, <1>3, <2>1, <2>2 DEF Advance, OwedKept, workerVars
  <1>7. FreshAreSound
    <2>1. \A c \in cs : c < nextChunk'
      BY <1>1 DEF IndexTypeOK
    <2> QED
      BY <1>1, <1>2, <1>5, <2>1 DEF FreshAreSound, Issued
  <1>8. \A c \in cs : Outstanding("upsert", c)'
    <2> TAKE c \in cs
    <2>1. <<clock, c>> \in {clock} \X cs
      OBVIOUS
    <2>2. /\ <<clock, c>> \in DOMAIN outbox'
          /\ outbox'[<<clock, c>>].action = "upsert"
          /\ outbox'[<<clock, c>>].status # "done"
      BY <1>2, <2>1
    <2>3. ChunkOf(<<clock, c>>) = c
      BY DEF ChunkOf
    <2> QED
      BY <2>2, <2>3 DEF Outstanding
  <1>9. VectorsAreAccounted'
    <2>1. gaveUp \subseteq gaveUp' /\ unqueued \subseteq unqueued'
      BY DEF workerVars
    <2>2. sync.pc = "queue" =>
             \/ sync'.pc = "queue" /\ sync'.fresh = sync.fresh
             \/ sync.fresh \subseteq unqueued'
             \/ \A c \in sync.fresh : Outstanding("upsert", c)'
      BY <1>8
    <2> QED
      BY <1>6, <1>8, <2>1, <2>2, AccountedKept
  <1> QED
    BY <1>4, <1>6, <1>7, <1>9, IndexInvKept DEF workerVars

LEMMA StoreStep ==
    ASSUME IndexInv, StoreVectors \/ StoreBackfill
    PROVE  IndexInv'
  <1>1. CASE StoreVectors
    <2>1. sync # NoSync /\ sync.pc # "queue"
      BY <1>1 DEF StoreVectors, NoSync
    <2>2. SyncTypeOK'
      BY <1>1, <2>1, NextFileFacts DEF StoreVectors
    <2> QED
      BY <1>1, <2>1, <2>2, EmbedStep DEF StoreVectors, EmbedAndQueue
  <1>2. CASE StoreBackfill
    <2>1. SyncTypeOK'
      BY <1>2 DEF StoreBackfill, IndexInv, SyncTypeOK
    <2> QED
      BY <1>2, <2>1, EmbedStep DEF StoreBackfill, EmbedAndQueue
  <1> QED
    BY <1>1, <1>2

\* The rest of a stream, after a batch.
LEMMA RestFacts ==
    ASSUME IndexInv, sync.pc \in {"vectors", "queue"},
           sync' = [sync EXCEPT !.pc = "flush", !.text = Tail(@), !.fresh = {}]
    PROVE  SyncTypeOK'
  <1>1. sync # NoSync
    BY DEF NoSync
  <1>2. /\ sync \in Syncs /\ sync.text \in Seq(Lines) /\ sync.text # <<>>
        /\ sync.file \in Files /\ sync.from = 0
    BY <1>1, SyncFacts DEF Streaming
  <1> DEFINE rest == Tail(sync.text)
  <1>3. rest \in Seq(Lines) /\ Len(rest) \in Nat
    BY <1>2
  <1>4. sync' = [sync EXCEPT !.pc = "flush", !.text = rest, !.fresh = {}]
    OBVIOUS
  <1> HIDE DEF rest
  <1>5. /\ sync' \in Syncs /\ sync'.pc = "flush" /\ sync'.text = rest
        /\ sync'.from = 0 /\ sync'.file \in Files
    BY <1>2, <1>3, <1>4 DEF Syncs
  <1> QED
    BY <1>3, <1>5 DEF SyncTypeOK

\* A batch of a stream: its vectors, and then its entries.
LEMMA FlushStep ==
    ASSUME IndexInv, FlushVectors \/ FlushEntries
    PROVE  IndexInv'
  <1>1. CASE FlushEntries
    <2>1. sync.pc = "queue" /\ SyncTypeOK'
      BY <1>1, RestFacts DEF FlushEntries
    <2>2. sync.fresh \in SUBSET Live
      BY <1>1 DEF FlushEntries
    <2> QED
      BY <1>1, <2>1, <2>2, EmbedStep DEF FlushEntries
  <1>2. CASE /\ sync.pc = "vectors"
             /\ Fault
             /\ sync' = [sync EXCEPT !.pc = "flush", !.text = Tail(@), !.fresh = {}]
             /\ UNCHANGED <<chunks, embedded, outbox, clock, points, gaveUp, worker, rows,
                            nextChunk, backfill, unqueued>>
    <2>1. SyncTypeOK'
      BY <1>2, RestFacts
    <2>2. faults' \in 0 .. MaxFaults
      BY <1>2, OutboxAssumption DEF Fault, IndexInv, IndexTypeOK, OutboxTypeOK
    <2> QED
      BY <1>2, <2>1, <2>2, QuietIndex DEF IndexInv, IndexTypeOK, OutboxTypeOK
  <1>3. CASE /\ sync.pc = "vectors" /\ sync.fresh \subseteq Live
             /\ embedded' = embedded \cup sync.fresh
             /\ sync' = [sync EXCEPT !.pc = "queue"]
             /\ UNCHANGED <<chunks, outbox, clock, points, gaveUp, worker, rows, nextChunk,
                            backfill, unqueued, faults>>
    <2>1. sync # NoSync
      BY <1>3 DEF NoSync
    <2>2. SyncTypeOK'
      <3>1. sync \in Syncs
        BY <2>1, SyncFacts
      <3>2. /\ sync' \in Syncs /\ sync'.pc = "queue" /\ sync'.text = sync.text
            /\ sync'.from = sync.from /\ sync'.file = sync.file
        BY <1>3, <3>1 DEF Syncs
      <3>3. /\ sync.text # <<>> /\ sync.from = 0 /\ sync.file \in Files
            /\ sync.from <= Len(sync.text)
        BY <1>3, <2>1, SyncFacts DEF Streaming
      <3> QED
        BY <3>2, <3>3 DEF SyncTypeOK
    <2>3. sync'.pc = "queue" /\ sync'.fresh = sync.fresh
      <3>1. sync \in Syncs
        BY <2>1, SyncFacts
      <3> QED
        BY <1>3, <3>1 DEF Syncs
    <2>4. IndexTypeOK' /\ Live' = Live
      BY <1>3 DEF IndexInv, IndexTypeOK, OutboxTypeOK, Live
    <2>5. Advance /\ FreshAreSound /\ OwedKept
      <3>1. clock \in Nat /\ nextChunk \in Nat
        BY NumbersAreNaturals DEF IndexInv
      <3> QED
        BY <1>3, <2>4, <3>1 DEF Advance, FreshAreSound, OwedKept
    <2>6. VectorsAreAccounted'
      <3> DEFINE X == sync.fresh
      <3>1. embedded' \subseteq embedded \cup X
        BY <1>3
      <3>2. \A c \in X : Outstanding("upsert", c)' \/ (sync'.pc = "queue" /\ c \in sync'.fresh)
        BY <2>3
      <3> HIDE DEF X
      <3> QED
        BY <1>3, <2>5, <3>1, <3>2, AccountedKept
    <2> QED
      BY <1>3, <2>2, <2>4, <2>5, <2>6, IndexInvKept
  <1> QED
    BY <1>1, <1>2, <1>3 DEF FlushVectors, FlushEntries

------------------------------------------------------------------------------
(* Steps of the workers and of the purge.                                   *)

\* What these steps leave alone, and how they change the outbox.
Carries ==
    /\ UNCHANGED <<chunks, embedded, clock, rows, nextChunk, sync, backfill, unqueued>>
    /\ DOMAIN outbox' \subseteq DOMAIN outbox
    /\ \A e \in DOMAIN outbox' :
          outbox'[e] \in Entries /\ outbox'[e].action = outbox[e].action
    /\ points' \subseteq ChunkIds /\ \A c \in points \cap Live : c \in points'
    /\ gaveUp \subseteq gaveUp' /\ gaveUp' \subseteq ChunkIds
    /\ faults' \in 0 .. MaxFaults

\* An upsert leaves the outbox, or is done, when its point is there or was given up.
UpsertsAreOwed ==
    \A e \in DOMAIN outbox :
        outbox[e].action = "upsert" /\ outbox[e].status # "done"
            => \/ e \in DOMAIN outbox' /\ outbox'[e].status # "done"
               \/ ChunkOf(e) \in points' \cup gaveUp'
               \/ ChunkOf(e) \notin Live

LEMMA CarriesFacts ==
    ASSUME IndexInv, Carries, worker' \in [Workers -> Batches \cup {Resting}]
    PROVE  IndexTypeOK' /\ SyncTypeOK' /\ Advance /\ FreshAreSound
  <1>1. Live' = Live /\ clock \in Nat /\ nextChunk \in Nat
    BY NumbersAreNaturals DEF IndexInv, Carries, Live
  <1>2. IndexTypeOK'
    <2>1. OutboxTypeOK'
      BY <1>1 DEF Carries, IndexInv, IndexTypeOK, OutboxTypeOK
    <2> QED
      BY <1>1, <2>1 DEF Carries, IndexInv, IndexTypeOK
  <1>3. SyncTypeOK'
    BY DEF Carries, IndexInv, SyncTypeOK
  <1>4. Advance
    BY <1>1 DEF Carries, Advance
  <1> QED
    BY <1>2, <1>3, <1>4 DEF Carries, FreshAreSound

LEMMA OwedIsAccounted ==
    ASSUME IndexInv, Carries, UpsertsAreOwed
    PROVE  VectorsAreAccounted'
  <1> SUFFICES ASSUME NEW c \in embedded
               PROVE  \/ c \in points' \/ Outstanding("upsert", c)' \/ c \in gaveUp'
                      \/ c \in unqueued \/ (sync.pc = "queue" /\ c \in sync.fresh)
    BY DEF Carries, VectorsAreAccounted
  <1>1. c \in Live
    BY DEF IndexInv, IndexTypeOK, OutboxTypeOK
  <1>2. CASE Outstanding("upsert", c)
    <2>1. PICK e \in DOMAIN outbox :
             ChunkOf(e) = c /\ outbox[e].action = "upsert" /\ outbox[e].status # "done"
      BY <1>2 DEF Outstanding
    <2>2. CASE e \in DOMAIN outbox' /\ outbox'[e].status # "done"
      <3>1. outbox'[e].action = "upsert"
        BY <2>1, <2>2 DEF Carries
      <3> QED
        BY <2>1, <2>2, <3>1 DEF Outstanding
    <2> QED
      BY <1>1, <2>1, <2>2 DEF UpsertsAreOwed
  <1>3. CASE c \in points
    BY <1>1, <1>3 DEF Carries
  <1> QED
    BY <1>2, <1>3 DEF IndexInv, VectorsAreAccounted, Carries

\* One worker goes on with the batch b.
LEMMA WorkerKept ==
    ASSUME IndexInv, Carries, UpsertsAreOwed, NEW w \in Workers,
           NEW b \in Batches \cup {Resting}, worker' = [worker EXCEPT ![w] = b],
           b # Resting => BatchIsSound(b)'
    PROVE  IndexInv'
  <1>1. /\ worker' \in [Workers -> Batches \cup {Resting}]
        /\ worker'[w] = b /\ \A v \in Workers \ {w} : worker'[v] = worker[v]
    BY DEF IndexInv, IndexTypeOK, OutboxTypeOK
  <1>2. IndexTypeOK' /\ SyncTypeOK' /\ Advance /\ FreshAreSound
    BY <1>1, CarriesFacts
  <1>3. VectorsAreAccounted'
    BY OwedIsAccounted
  <1>4. EntriesAreSound'
    BY <1>2, EntriesKept
  <1>5. WorkersAreSound'
    <2> SUFFICES ASSUME NEW v \in Workers, worker'[v] # Resting
                 PROVE  BatchIsSound(worker[v])'
      BY DEF WorkersAreSound
    <2>1. CASE v = w
      BY <1>1, <2>1 DEF BatchIsSound
    <2>2. CASE v # w
      <3>1. worker'[v] = worker[v] /\ worker[v] \in Batches /\ BatchIsSound(worker[v])
        BY <1>1, <2>2 DEF IndexInv, IndexTypeOK, OutboxTypeOK, WorkersAreSound
      <3>2. PICK a \in Batches : a = worker[v]
        BY <3>1
      <3>3. BatchIsSound(a)'
        BY <1>2, <3>1, <3>2, BatchKept
      <3> QED
        BY <3>1, <3>2, <3>3 DEF BatchIsSound
    <2> QED
      BY <2>1, <2>2
  <1> QED
    BY <1>2, <1>3, <1>4, <1>5 DEF IndexInv

LEMMA BatchFacts ==
    ASSUME IndexInv, NEW w \in Workers, worker[w] # Resting
    PROVE  /\ worker[w] \in Batches /\ BatchIsSound(worker[w])
           /\ worker[w].ups \subseteq EntryIds /\ worker[w].dels \subseteq EntryIds
           /\ worker[w].bad \subseteq EntryIds
           /\ \A e \in EntryIds : ChunkOf(e) \in ChunkIds
  <1>1. worker[w] \in Batches /\ BatchIsSound(worker[w])
    BY DEF IndexInv, IndexTypeOK, OutboxTypeOK, WorkersAreSound
  <1> QED
    BY <1>1 DEF Batches, EntryIds, ChunkOf

\* An update of the status of some rows leaves the others and the actions alone.
LEMMA MarksCarry ==
    ASSUME IndexInv, NEW es, NEW st, st \in {"pending", "processing", "done", "failed"},
           NEW more, more \in Nat, outbox' = Marked(outbox, es, st, more)
    PROVE  /\ DOMAIN outbox' = DOMAIN outbox
           /\ \A e \in DOMAIN outbox' :
                 outbox'[e] \in Entries /\ outbox'[e].action = outbox[e].action
           /\ \A e \in DOMAIN outbox :
                 outbox'[e].status = IF e \in es THEN st ELSE outbox[e].status
  <1>1. \A e \in DOMAIN outbox : outbox[e] \in Entries
    BY DEF IndexInv, IndexTypeOK, OutboxTypeOK
  <1> QED
    BY <1>1, MarkedFacts

LEMMA PollStep ==
    ASSUME IndexInv, NEW w \in Workers, NEW R \in SUBSET Reapable, Poll(w, R),
           UNCHANGED <<rows, nextChunk, sync, backfill, unqueued>>
    PROVE  IndexInv'
  <1>r. PICK reaped : reaped = Marked(outbox, R, "pending", 1)
    OBVIOUS
  <1>1. \A e \in DOMAIN outbox : outbox[e] \in Entries
    BY DEF IndexInv, IndexTypeOK, OutboxTypeOK
  <1>2. /\ DOMAIN reaped = DOMAIN outbox
        /\ \A e \in DOMAIN outbox :
              /\ reaped[e] \in Entries /\ reaped[e].action = outbox[e].action
              /\ reaped[e].status = IF e \in R THEN "pending" ELSE outbox[e].status
    BY <1>r, <1>1, MarkedFacts
  <1>3. PICK B \in SUBSET DOMAIN reaped :
           /\ IsBatch(reaped, B)
           /\ outbox' = Marked(reaped, B, "processing", 0)
           /\ LET ups == {e \in B : reaped[e].action = "upsert"}
              IN  worker' = [worker EXCEPT ![w] =
                      [pc |-> "upsert", ups |-> ups \ WithoutVector(ups),
                       dels |-> B \ ups, bad |-> WithoutVector(ups),
                       stored |-> FALSE, removed |-> FALSE]]
    BY <1>r DEF Poll
  <1>4. \A e \in B : reaped[e].status = "pending"
    BY <1>3 DEF IsBatch
  <1>5. \A e \in DOMAIN reaped : reaped[e] \in Entries
    BY <1>2
  <1>6. /\ DOMAIN outbox' = DOMAIN outbox
        /\ \A e \in DOMAIN outbox :
              /\ outbox'[e] \in Entries /\ outbox'[e].action = outbox[e].action
              /\ outbox'[e].status = IF e \in B THEN "processing" ELSE reaped[e].status
    <2>1. /\ DOMAIN outbox' = DOMAIN reaped
          /\ \A e \in DOMAIN reaped :
                /\ outbox'[e] \in Entries /\ outbox'[e].action = reaped[e].action
                /\ outbox'[e].status = IF e \in B THEN "processing" ELSE reaped[e].status
      BY <1>3, <1>5, MarkedFacts
    <2> QED
      BY <1>2, <2>1
  <1>7. Carries
    BY <1>6 DEF Carries, Poll, IndexInv, IndexTypeOK, OutboxTypeOK
  <1>8. UpsertsAreOwed
    BY <1>2, <1>6 DEF UpsertsAreOwed
  <1> DEFINE ups == {e \in B : reaped[e].action = "upsert"}
  <1>9. PICK bad : bad = WithoutVector(ups)
    OBVIOUS
  <1>10. /\ B \subseteq DOMAIN outbox /\ DOMAIN outbox \subseteq EntryIds
         /\ bad \subseteq ups
    BY <1>2, <1>3, <1>9 DEF IndexInv, IndexTypeOK, OutboxTypeOK, WithoutVector
  <1> DEFINE b == [pc |-> "upsert", ups |-> ups \ bad, dels |-> B \ ups, bad |-> bad,
                   stored |-> FALSE, removed |-> FALSE]
  <1>11. b \in Batches /\ worker' = [worker EXCEPT ![w] = b]
    BY <1>3, <1>9, <1>10 DEF Batches
  <1>12. \A e \in DOMAIN outbox :
            /\ Issued(e)'
            /\ outbox'[e].action = "delete" => ChunkOf(e) \notin Live'
    BY <1>6, <1>7 DEF IndexInv, EntriesAreSound, Issued, Carries, Live
  <1>13. /\ \A e \in ups : outbox'[e].action = "upsert"
         /\ \A e \in B \ ups : outbox'[e].action = "delete"
    BY <1>2, <1>6, <1>10 DEF Entries
  <1>14. BatchIsSound(b)'
    <2>1. \A e \in b.ups \cup b.bad : Issued(e)' /\ Finds(e, "upsert")'
      BY <1>10, <1>12, <1>13 DEF Finds
    <2>2. \A e \in b.dels : Issued(e)' /\ Finds(e, "delete")' /\ ChunkOf(e) \notin Live'
      BY <1>10, <1>12, <1>13 DEF Finds
    <2>3. b.pc = "upsert" /\ ~b.stored /\ ~b.removed
      OBVIOUS
    <2> HIDE DEF b
    <2> QED
      BY <2>1, <2>2, <2>3 DEF BatchIsSound
  <1> HIDE DEF b
  <1> QED
    BY <1>7, <1>8, <1>11, <1>14, WorkerKept

\* A request leaves the outbox alone or notes that it failed.
LEMMA RequestCarries ==
    ASSUME IndexInv, NEW es,
           UNCHANGED <<chunks, embedded, clock, rows, nextChunk, sync, backfill, unqueued,
                       gaveUp>>,
           outbox' \in {outbox, Marked(outbox, es, "failed", 1)},
           points' \subseteq ChunkIds, \A c \in points \cap Live : c \in points',
           UNCHANGED faults \/ Fault
    PROVE  Carries /\ UpsertsAreOwed
  <1>1. /\ DOMAIN outbox' = DOMAIN outbox
        /\ \A e \in DOMAIN outbox :
              /\ outbox'[e] \in Entries /\ outbox'[e].action = outbox[e].action
              /\ outbox[e].status # "done" => outbox'[e].status # "done"
    <2>1. CASE outbox' = outbox
      BY <2>1 DEF IndexInv, IndexTypeOK, OutboxTypeOK
    <2>2. CASE outbox' = Marked(outbox, es, "failed", 1)
      <3>1. PICK st, more : st = "failed" /\ more = 1
        OBVIOUS
      <3>2. outbox' = Marked(outbox, es, st, more)
        BY <2>2, <3>1
      <3>3. /\ DOMAIN outbox' = DOMAIN outbox
            /\ \A e \in DOMAIN outbox' :
                  outbox'[e] \in Entries /\ outbox'[e].action = outbox[e].action
            /\ \A e \in DOMAIN outbox :
                  outbox'[e].status = IF e \in es THEN st ELSE outbox[e].status
        BY <3>1, <3>2, MarksCarry
      <3> QED
        BY <3>1, <3>3
    <2> QED
      BY <2>1, <2>2
  <1>2. faults' \in 0 .. MaxFaults
    BY OutboxAssumption DEF Fault, IndexInv, IndexTypeOK, OutboxTypeOK
  <1> QED
    BY <1>1, <1>2 DEF Carries, UpsertsAreOwed, IndexInv, IndexTypeOK, OutboxTypeOK

LEMMA UpsertStep ==
    ASSUME IndexInv, NEW w \in Workers, UpsertPoints(w),
           UNCHANGED <<rows, nextChunk, sync, backfill, unqueued>>
    PROVE  IndexInv'
  <1> DEFINE b == worker[w]
             stored == {ChunkOf(e) : e \in b.ups}
  <1>1. b.pc = "upsert" /\ b # Resting
    BY DEF UpsertPoints, Resting
  <1>2. /\ b \in Batches /\ BatchIsSound(b)
        /\ b.ups \subseteq EntryIds /\ \A e \in EntryIds : ChunkOf(e) \in ChunkIds
    BY <1>1, BatchFacts
  <1>3. stored \subseteq ChunkIds /\ points \subseteq ChunkIds
    BY <1>2 DEF IndexInv, IndexTypeOK, OutboxTypeOK
  <1>4. PICK next \in {[b EXCEPT !.pc = "delete", !.stored = TRUE],
                       [b EXCEPT !.pc = "delete"]} :
           /\ worker' = [worker EXCEPT ![w] = next]
           /\ next.stored => stored \subseteq points'
           /\ points' \in {points, points \cup stored}
           /\ outbox' \in {outbox, Marked(outbox, b.ups, "failed", 1)}
           /\ UNCHANGED faults \/ Fault
    <2>1. CASE /\ points' = points \cup stored
               /\ worker' = [worker EXCEPT ![w].pc = "delete", ![w].stored = TRUE]
               /\ UNCHANGED <<outbox, faults>>
      <3>1. [b EXCEPT !.pc = "delete", !.stored = TRUE].stored
        BY <1>2 DEF Batches
      <3>2. worker' = [worker EXCEPT ![w] = [b EXCEPT !.pc = "delete", !.stored = TRUE]]
        BY <2>1 DEF IndexInv, IndexTypeOK, OutboxTypeOK
      <3> QED
        BY <2>1, <3>1, <3>2
    <2>2. CASE /\ Fault
               /\ points' \in {points, points \cup stored}
               /\ outbox' \in {outbox, Marked(outbox, b.ups, "failed", 1)}
               /\ worker' = [worker EXCEPT ![w].pc = "delete"]
      <3>1. ~[b EXCEPT !.pc = "delete"].stored
        BY <1>1, <1>2 DEF Batches, BatchIsSound
      <3> QED
        BY <2>2, <3>1
    <2> QED
      BY <2>1, <2>2 DEF UpsertPoints
  <1>5. Carries /\ UpsertsAreOwed
    <2>1. points' \subseteq ChunkIds /\ points \subseteq points'
      BY <1>3, <1>4
    <2> QED
      BY <1>4, <2>1, RequestCarries DEF UpsertPoints
  <1>6. /\ next \in Batches /\ next.pc = "delete" /\ next.ups = b.ups /\ next.dels = b.dels
        /\ next.bad = b.bad /\ next.removed = b.removed
    BY <1>2, <1>4 DEF Batches
  <1>7. BatchIsSound(next)'
    <2>1. IndexTypeOK' /\ Advance
      <3>1. worker' \in [Workers -> Batches \cup {Resting}]
        BY <1>4, <1>6 DEF IndexInv, IndexTypeOK, OutboxTypeOK
      <3> QED
        BY <1>5, <3>1, CarriesFacts
    <2>2. PICK a \in Batches : a = b
      BY <1>2
    <2>3. BatchIsSound(a)'
      BY <1>2, <2>1, <2>2, BatchKept
    <2>4. next.stored => \A e \in next.ups : ChunkOf(e) \in points'
      BY <1>4, <1>6
    <2>5. ~b.removed
      BY <1>1, <1>2 DEF BatchIsSound
    <2>6. \A e \in b.ups \cup b.bad : (Issued(e) /\ Finds(e, "upsert"))'
      BY <2>2, <2>3 DEF BatchIsSound
    <2>7. \A e \in b.dels : (Issued(e) /\ Finds(e, "delete") /\ ChunkOf(e) \notin Live)'
      BY <2>2, <2>3 DEF BatchIsSound
    <2> QED
      BY <1>6, <2>4, <2>5, <2>6, <2>7 DEF BatchIsSound
  <1> QED
    BY <1>4, <1>5, <1>6, <1>7, WorkerKept

LEMMA DeleteStep ==
    ASSUME IndexInv, NEW w \in Workers, DeletePoints(w),
           UNCHANGED <<rows, nextChunk, sync, backfill, unqueued>>
    PROVE  IndexInv'
  <1> DEFINE b == worker[w]
             removed == {ChunkOf(e) : e \in b.dels}
  <1>1. b.pc = "delete" /\ b # Resting
    BY DEF DeletePoints, Resting
  <1>2. b \in Batches /\ BatchIsSound(b)
    BY <1>1, BatchFacts
  <1>3. removed \cap Live = {} /\ points \subseteq ChunkIds
    BY <1>2 DEF BatchIsSound, IndexInv, IndexTypeOK, OutboxTypeOK
  <1>4. PICK next \in {[b EXCEPT !.pc = "settle", !.removed = TRUE],
                       [b EXCEPT !.pc = "settle"]} :
           /\ worker' = [worker EXCEPT ![w] = next]
           /\ points' \in {points, points \ removed}
           /\ outbox' \in {outbox, Marked(outbox, b.dels, "failed", 1)}
           /\ UNCHANGED faults \/ Fault
    <2>1. worker' \in {[worker EXCEPT ![w] = [b EXCEPT !.pc = "settle", !.removed = TRUE]],
                       [worker EXCEPT ![w] = [b EXCEPT !.pc = "settle"]]}
      BY DEF DeletePoints, IndexInv, IndexTypeOK, OutboxTypeOK
    <2> QED
      BY <2>1 DEF DeletePoints
  <1>5. Carries /\ UpsertsAreOwed
    <2>1. points' \subseteq ChunkIds /\ \A c \in points \cap Live : c \in points'
      BY <1>3, <1>4
    <2> QED
      BY <1>4, <2>1, RequestCarries DEF DeletePoints
  <1>6. /\ next \in Batches /\ next.pc = "settle" /\ next.ups = b.ups /\ next.dels = b.dels
        /\ next.bad = b.bad /\ next.stored = b.stored
    BY <1>2, <1>4 DEF Batches
  <1>7. BatchIsSound(next)'
    <2>1. IndexTypeOK' /\ Advance
      <3>1. worker' \in [Workers -> Batches \cup {Resting}]
        BY <1>4, <1>6 DEF IndexInv, IndexTypeOK, OutboxTypeOK
      <3> QED
        BY <1>5, <3>1, CarriesFacts
    <2>2. PICK a \in Batches : a = b
      BY <1>2
    <2>3. BatchIsSound(a)'
      BY <1>2, <2>1, <2>2, BatchKept
    <2> QED
      BY <1>6, <2>2, <2>3 DEF BatchIsSound
  <1> QED
    BY <1>4, <1>5, <1>6, <1>7, WorkerKept

LEMMA SettleStep ==
    ASSUME IndexInv, NEW w \in Workers, SettleBatch(w),
           UNCHANGED <<rows, nextChunk, sync, backfill, unqueued>>
    PROVE  IndexInv'
  <1> DEFINE b == worker[w]
  <1>1. b.pc = "settle" /\ b # Resting
    BY DEF SettleBatch, Resting
  <1>2. b \in Batches /\ BatchIsSound(b)
    BY <1>1, BatchFacts
  <1>3. PICK lost \in SUBSET {b.ups, b.dels, b.bad} :
           /\ IF lost = {} THEN UNCHANGED faults ELSE Fault
           /\ outbox' = Marked(Marked(outbox, DoneOf(b) \ UNION lost, "done", 0),
                               b.bad \ UNION lost, "failed", 1)
    BY DEF SettleBatch
  <1> DEFINE done == DoneOf(b) \ UNION lost
             settled == Marked(outbox, done, "done", 0)
  <1>4. \A e \in DOMAIN outbox : outbox[e] \in Entries
    BY DEF IndexInv, IndexTypeOK, OutboxTypeOK
  <1>5. /\ DOMAIN settled = DOMAIN outbox
        /\ \A e \in DOMAIN outbox :
              /\ settled[e] \in Entries /\ settled[e].action = outbox[e].action
              /\ settled[e].status = IF e \in done THEN "done" ELSE outbox[e].status
    BY <1>4, MarkedFacts
  <1>6. \A e \in DOMAIN settled : settled[e] \in Entries
    BY <1>5
  <1>7. done \subseteq DoneOf(b)
    OBVIOUS
  <1> HIDE DEF settled, done
  <1>8. outbox' = Marked(settled, b.bad \ UNION lost, "failed", 1)
    BY <1>3 DEF settled, done
  <1>9. /\ DOMAIN outbox' = DOMAIN outbox
        /\ \A e \in DOMAIN outbox :
              /\ outbox'[e] \in Entries /\ outbox'[e].action = outbox[e].action
              /\ e \notin done /\ outbox[e].status # "done" => outbox'[e].status # "done"
    <2>1. /\ DOMAIN outbox' = DOMAIN settled
          /\ \A e \in DOMAIN settled :
                /\ outbox'[e] \in Entries /\ outbox'[e].action = settled[e].action
                /\ outbox'[e].status = IF e \in b.bad \ UNION lost THEN "failed"
                                       ELSE settled[e].status
      BY <1>6, <1>8, MarkedFacts
    <2> QED
      BY <1>5, <2>1
  <1>10. faults' \in 0 .. MaxFaults
    BY <1>3, OutboxAssumption DEF Fault, IndexInv, IndexTypeOK, OutboxTypeOK
  <1>11. Carries
    BY <1>9, <1>10 DEF Carries, SettleBatch, IndexInv, IndexTypeOK, OutboxTypeOK
  <1>12. UpsertsAreOwed
    <2> SUFFICES ASSUME NEW e \in DOMAIN outbox, outbox[e].action = "upsert",
                        outbox[e].status # "done", e \in done, ChunkOf(e) \in Live
                 PROVE  ChunkOf(e) \in points'
      BY <1>9 DEF UpsertsAreOwed
    <2>1. e \notin b.dels
      BY <1>2 DEF BatchIsSound, Finds
    <2>2. e \in b.ups /\ b.stored
      BY <1>7, <2>1 DEF DoneOf
    <2> QED
      BY <1>2, <2>2 DEF BatchIsSound, SettleBatch
  <1>13. worker' = [worker EXCEPT ![w] = Resting]
    BY DEF SettleBatch
  <1> QED
    BY <1>11, <1>12, <1>13, WorkerKept

LEMMA PurgeStep ==
    ASSUME IndexInv, Purge, UNCHANGED <<rows, nextChunk, sync, backfill, unqueued>>
    PROVE  IndexInv'
  <1> DEFINE left(old) == [e \in DOMAIN outbox \ old |-> outbox[e]]
  <1>1. PICK old \in SUBSET DOMAIN outbox :
           /\ outbox' = left(old)
           /\ \/ UNCHANGED gaveUp /\ \A e \in old : outbox[e].status = "done"
              \/ gaveUp' = gaveUp \cup {ChunkOf(e) : e \in old}
    BY DEF Purge, PurgeDone, PurgeFailed, Without, WithStatus
  <1>2. /\ DOMAIN outbox' = DOMAIN outbox \ old
        /\ \A e \in DOMAIN outbox' : outbox'[e] = outbox[e]
    BY <1>1
  <1>3. /\ DOMAIN outbox \subseteq EntryIds
        /\ \A e \in EntryIds : ChunkOf(e) \in ChunkIds
    BY DEF IndexInv, IndexTypeOK, OutboxTypeOK, EntryIds, ChunkOf
  <1>4. UNCHANGED <<chunks, embedded, clock, points, worker, faults>>
    BY DEF Purge, PurgeDone, PurgeFailed
  <1>5. Carries
    BY <1>1, <1>2, <1>3, <1>4 DEF Carries, IndexInv, IndexTypeOK, OutboxTypeOK
  <1>6. UpsertsAreOwed
    BY <1>1, <1>2 DEF UpsertsAreOwed
  <1>7. /\ IndexTypeOK' /\ SyncTypeOK' /\ Advance /\ FreshAreSound
    BY <1>4, <1>5, CarriesFacts DEF IndexInv, IndexTypeOK, OutboxTypeOK
  <1>8. VectorsAreAccounted'
    BY <1>5, <1>6, OwedIsAccounted
  <1> QED
    BY <1>4, <1>7, <1>8, IndexInvKept

------------------------------------------------------------------------------
(* The theorems for any number of workers.                                  *)

LEMMA IndexInitial ==
    ASSUME Init
    PROVE  IndexInv
  <1>1. /\ DOMAIN chunks = {} /\ DOMAIN outbox = {} /\ Live = {}
    BY DEF Init, OutboxInit, Live
  <1>2. OutboxTypeOK
    BY <1>1, OutboxAssumption DEF Init, OutboxInit, OutboxTypeOK
  <1>3. IndexTypeOK
    BY <1>1, <1>2, OutboxAssumption DEF Init, IndexTypeOK, TextsOrAbsent
  <1>4. SyncTypeOK /\ EntriesAreSound /\ WorkersAreSound /\ VectorsAreAccounted
    BY <1>1 DEF Init, OutboxInit, SyncTypeOK, EntriesAreSound, WorkersAreSound,
                VectorsAreAccounted
  <1> QED
    BY <1>3, <1>4 DEF IndexInv

LEMMA OutboxStepKeeps ==
    ASSUME IndexInv, OutboxStep
    PROVE  IndexInv'
  <1>1. UNCHANGED <<rows, nextChunk, sync, backfill, unqueued>>
    BY DEF OutboxStep
  <1>2. ASSUME NEW w \in Workers, Work(w)
        PROVE  IndexInv'
    BY <1>1, <1>2, PollStep, UpsertStep, DeleteStep, SettleStep DEF Work
  <1> QED
    BY <1>1, <1>2, PurgeStep DEF OutboxStep

LEMMA IndexStep ==
    ASSUME IndexInv, [Next]_vars
    PROVE  IndexInv'
  <1>1. CASE SyncStep
    <2>1. CASE StartSync \/ \E f \in Files : StartSyncFiles(f)
      BY <2>1, StartStep
    <2>2. CASE \E f \in Files : RecordFile(f) \/ HashStream(f)
      BY <2>2, RecordStep
    <2>3. CASE ReplaceChunks \/ DropStreamed \/ \E f \in Files : DeleteOrphan(f)
      BY <2>3, ReplaceStep
    <2>4. CASE InsertChunks \/ FlushChunks
      BY <2>4, InsertChunksStep
    <2>5. CASE StoreVectors
      BY <2>5, StoreStep
    <2>6. CASE FlushVectors \/ FlushEntries
      BY <2>6, FlushStep
    <2>7. CASE OpenStream \/ EndStream \/ FinishSync
      BY <2>7, OpenStep
    <2>8. CASE AbandonFile
      BY <2>8, FailStep
    <2> QED
      BY <1>1, <2>1, <2>2, <2>3, <2>4, <2>5, <2>6, <2>7, <2>8 DEF SyncStep
  <1>2. CASE OutboxStep
    BY <1>2, OutboxStepKeeps
  <1>3. CASE StoreBackfill
    BY <1>3, StoreStep
  <1>4. CASE FailBackfill \/ Crash
    BY <1>4, FailStep
  <1>5. CASE ReadUnembedded \/ UNCHANGED vars
    BY <1>5, IdleStep
  <1> QED
    BY <1>1, <1>2, <1>3, <1>4, <1>5 DEF Next

LEMMA IndexInvariant == Spec => []IndexInv
  <1>1. Init => IndexInv
    BY IndexInitial
  <1>2. IndexInv /\ [Next]_vars => IndexInv'
    BY IndexStep
  <1> QED
    BY <1>1, <1>2, PTL DEF Spec

\* Every row, batch and identifier keeps its form and its bounds: a chunk belongs to
\* a file of the source, and no identifier is in use that the sequence of chunks has
\* not handed out (index.rs, outbox_worker.rs, schema.sql).
THEOREM IndexTypeCorrect == Spec => []IndexTypeOK
  <1>1. IndexInv => IndexTypeOK
    BY DEF IndexInv
  <1> QED
    BY <1>1, IndexInvariant, PTL

\* No vector is forgotten, with any number of workers: one that a sync or a backfill
\* stored is a point, or its entry will put it there, unless the retries of the entry
\* are used up or a streamed file failed between the vector and the entry
\* (index.rs, admin.rs, outbox_worker.rs).
THEOREM StoredVectorsAreAccounted == Spec => []VectorsAreAccounted
  <1>1. IndexInv => VectorsAreAccounted
    BY DEF IndexInv
  <1> QED
    BY <1>1, IndexInvariant, PTL

------------------------------------------------------------------------------
(* One worker.                                                              *)

\* The deletion of the point of c is on its way, or was given up.
Covered(c) == Outstanding("delete", c) \/ c \in gaveUp

\* An upsert that was claimed is of a chunk that is there or whose deletion comes
\* later; what a request has removed has not come back.
BatchIsOrdered(b) ==
    /\ b.pc = "upsert" => \A e \in b.ups : ChunkOf(e) \in Live \/ Covered(ChunkOf(e))
    /\ b.removed => \A e \in b.dels : ChunkOf(e) \notin points

OneWorkerInv ==
    /\ PointsHaveRows
    /\ \A w \in Workers : worker[w] # Resting => BatchIsOrdered(worker[w])

\* A deletion leaves the outbox only when it was given up.
DeletesAreOwed ==
    /\ gaveUp \subseteq gaveUp'
    /\ \A e \in DOMAIN outbox :
          outbox[e].action = "delete" /\ outbox[e].status # "done"
              => \/ /\ e \in DOMAIN outbox'
                    /\ outbox'[e].status # "done" /\ outbox'[e].action = "delete"
                 \/ ChunkOf(e) \in gaveUp'

LEMMA CoveredKept ==
    ASSUME DeletesAreOwed
    PROVE  \A c : Covered(c) => Covered(c)'
  <1> SUFFICES ASSUME NEW c, Covered(c)
               PROVE  Covered(c)'
    OBVIOUS
  <1>1. CASE c \in gaveUp
    BY <1>1 DEF DeletesAreOwed, Covered
  <1>2. ASSUME NEW e \in DOMAIN outbox, ChunkOf(e) = c, outbox[e].action = "delete",
               outbox[e].status # "done"
        PROVE  Covered(c)'
    BY <1>2 DEF DeletesAreOwed, Covered, Outstanding
  <1> QED
    BY <1>1, <1>2 DEF Covered, Outstanding

\* What a step of the sync or of a handler does to the outbox and to the chunks.
Queues ==
    \/ UNCHANGED outbox /\ Live \subseteq Live'
    \/ \E cs \in SUBSET Live : Enqueue("upsert", cs) /\ UNCHANGED chunks
    \/ \E cs \in SUBSET Live : DropChunks(cs)

LEMMA StepsQueue ==
    ASSUME IndexInv, \/ SyncStep \/ ReadUnembedded \/ StoreBackfill \/ FailBackfill
                     \/ Crash \/ UNCHANGED vars
    PROVE  /\ Queues /\ UNCHANGED <<points, gaveUp>>
           /\ \A w \in Workers : worker'[w] \in {worker[w], Resting}
  <1>1. \A f : ChunksOf(f) \in SUBSET Live
    BY DEF ChunksOf
  <1>2. CASE \/ UNCHANGED <<outboxVars>> \/ AbandonFile \/ Crash \/ FailBackfill
    BY <1>2 DEF outboxVars, AbandonFile, Crash, FailBackfill, Queues, Live
  <1>3. CASE \/ StartSync \/ OpenStream \/ EndStream \/ FinishSync \/ ReadUnembedded
             \/ UNCHANGED vars
             \/ \E f \in Files : StartSyncFiles(f) \/ RecordFile(f) \/ HashStream(f)
    <2>1. UNCHANGED outboxVars
      BY <1>3 DEF StartSync, OpenStream, EndStream, FinishSync, ReadUnembedded, vars,
                  StartSyncFiles, RecordFile, HashStream
    <2> QED
      BY <1>2, <2>1
  <1>4. CASE StoreVectors \/ StoreBackfill \/ FlushEntries
    <2>1. /\ \E cs \in SUBSET Live : Enqueue("upsert", cs)
          /\ UNCHANGED <<chunks, points, gaveUp, worker>>
      BY <1>4 DEF StoreVectors, StoreBackfill, FlushEntries, EmbedAndQueue, workerVars
    <2> QED
      BY <2>1 DEF Queues
  <1>5. CASE FlushVectors
    BY <1>5 DEF FlushVectors, Queues, Live
  <1>6. CASE InsertChunks \/ FlushChunks
    <2>1. PICK text, from, pc : InsertLines(text, from, pc)
      BY <1>6 DEF InsertChunks, FlushChunks
    <2>2. UNCHANGED <<outbox, points, gaveUp, worker>> /\ Live \subseteq DOMAIN chunks'
      BY <2>1 DEF InsertLines, workerVars
    <2> QED
      BY <2>2 DEF Queues, Live
  <1>7. CASE ReplaceChunks \/ DropStreamed \/ \E f \in Files : DeleteOrphan(f)
    <2>1. /\ UNCHANGED <<points, gaveUp, worker>>
          /\ \/ UNCHANGED <<outbox, chunks>>
             \/ \E f : DropChunks(ChunksOf(f))
      BY <1>7 DEF ReplaceChunks, DropStreamed, DeleteOrphan, workerVars
    <2> QED
      BY <1>1, <2>1 DEF Queues, Live
  <1> QED
    BY <1>2, <1>3, <1>4, <1>5, <1>6, <1>7 DEF SyncStep

\* These steps delete no chunk without an entry for its point.
LEMMA QueuedIsCovered ==
    ASSUME IndexInv, Queues, UNCHANGED gaveUp
    PROVE  DeletesAreOwed /\ \A c \in Live \ Live' : Covered(c)'
  <1>1. IndexTypeOK /\ EntriesAreSound /\ Live \subseteq ChunkIds
    BY DEF IndexInv, IndexTypeOK, OutboxTypeOK
  <1>2. CASE UNCHANGED outbox /\ Live \subseteq Live'
    BY <1>2 DEF DeletesAreOwed
  <1>3. ASSUME NEW action \in {"upsert", "delete"}, NEW cs \in SUBSET Live,
               Enqueue(action, cs)
        PROVE  /\ DeletesAreOwed
               /\ action = "delete" => \A c \in cs : Covered(c)'
    <2>1. cs \in SUBSET ChunkIds
      BY <1>1
    <2>2. /\ DOMAIN outbox' = DOMAIN outbox \cup ({clock} \X cs)
          /\ \A e \in DOMAIN outbox : outbox'[e] = outbox[e]
          /\ \A e \in {clock} \X cs :
                outbox'[e] = [action |-> action, status |-> "pending", retry |-> 0]
      BY <1>1, <1>3, <2>1, EnqueueFacts
    <2>3. DeletesAreOwed
      BY <2>2 DEF DeletesAreOwed
    <2>4. ASSUME NEW c \in cs, action = "delete"
          PROVE  Covered(c)'
      <3>1. <<clock, c>> \in {clock} \X cs /\ ChunkOf(<<clock, c>>) = c
        BY DEF ChunkOf
      <3>2. /\ <<clock, c>> \in DOMAIN outbox'
            /\ outbox'[<<clock, c>>].action = "delete"
            /\ outbox'[<<clock, c>>].status # "done"
        BY <2>2, <2>4, <3>1
      <3> QED
        BY <3>1, <3>2 DEF Covered, Outstanding
    <2> QED
      BY <2>3, <2>4
  <1>4. ASSUME NEW cs \in SUBSET Live, Enqueue("upsert", cs), UNCHANGED chunks
        PROVE  DeletesAreOwed /\ Live' = Live
    BY <1>3, <1>4 DEF Live
  <1>5. ASSUME NEW cs \in SUBSET Live, DropChunks(cs)
        PROVE  DeletesAreOwed /\ \A c \in Live \ Live' : Covered(c)'
    <2>1. Live' = Live \ cs
      BY <1>5 DEF DropChunks, Live
    <2>2. CASE cs = {}
      BY <1>5, <2>1, <2>2 DEF DropChunks, DeletesAreOwed
    <2>3. CASE cs # {}
      BY <1>3, <1>5, <2>1, <2>3 DEF DropChunks
    <2> QED
      BY <2>2, <2>3
  <1> QED
    BY <1>2, <1>4, <1>5 DEF Queues

\* The order is kept where no request is sent.
LEMMA OrderKept ==
    ASSUME OneWorkerInv, DeletesAreOwed, UNCHANGED points,
           \A c \in Live \ Live' : Covered(c)',
           \A w \in Workers : worker'[w] \in {worker[w], Resting}
    PROVE  OneWorkerInv'
  <1>1. \A c : c \in Live \/ Covered(c) => c \in Live' \/ Covered(c)'
    BY CoveredKept
  <1>2. PointsHaveRows'
    BY <1>1 DEF OneWorkerInv, PointsHaveRows, Covered
  <1>3. ASSUME NEW w \in Workers, worker'[w] # Resting
        PROVE  BatchIsOrdered(worker[w])'
    <2>1. worker'[w] = worker[w] /\ BatchIsOrdered(worker[w])
      BY <1>3 DEF OneWorkerInv
    <2> QED
      BY <1>1, <2>1 DEF BatchIsOrdered
  <1> QED
    BY <1>2, <1>3 DEF OneWorkerInv

\* The only worker goes on with the batch b.
LEMMA WorkerOrdered ==
    ASSUME \A v, w \in Workers : v = w,
           IndexInv, OneWorkerInv, DeletesAreOwed, UNCHANGED chunks,
           NEW w \in Workers, NEW b, worker' = [worker EXCEPT ![w] = b],
           \A p \in points' : p \in points \/ p \in Live \/ Covered(p),
           b # Resting => BatchIsOrdered(b)'
    PROVE  OneWorkerInv'
  <1>1. \A c : Covered(c) => Covered(c)'
    BY CoveredKept
  <1>2. PointsHaveRows'
    BY <1>1 DEF OneWorkerInv, PointsHaveRows, Covered, Live
  <1>3. worker'[w] = b
    BY DEF IndexInv, IndexTypeOK, OutboxTypeOK
  <1>4. ASSUME NEW v \in Workers, worker'[v] # Resting
        PROVE  BatchIsOrdered(worker[v])'
    <2>1. v = w
      OBVIOUS
    <2> QED
      BY <1>3, <1>4, <2>1 DEF BatchIsOrdered
  <1> QED
    BY <1>2, <1>4 DEF OneWorkerInv

\* A claim takes upserts only of chunks that have their vector.
LEMMA PollOrdered ==
    ASSUME \A v, w \in Workers : v = w,
           IndexInv, OneWorkerInv, NEW w \in Workers, NEW R \in SUBSET Reapable, Poll(w, R)
    PROVE  OneWorkerInv'
  <1>1. PICK reaped, B :
           /\ reaped = Marked(outbox, R, "pending", 1) /\ B \in SUBSET DOMAIN reaped
           /\ outbox' = Marked(reaped, B, "processing", 0)
           /\ LET ups == {e \in B : reaped[e].action = "upsert"}
              IN  worker' = [worker EXCEPT ![w] =
                      [pc |-> "upsert", ups |-> ups \ WithoutVector(ups),
                       dels |-> B \ ups, bad |-> WithoutVector(ups),
                       stored |-> FALSE, removed |-> FALSE]]
    BY DEF Poll
  <1>2. \A e \in DOMAIN outbox : outbox[e] \in Entries
    BY DEF IndexInv, IndexTypeOK, OutboxTypeOK
  <1>3. /\ DOMAIN reaped = DOMAIN outbox
        /\ \A e \in DOMAIN outbox :
              /\ reaped[e] \in Entries /\ reaped[e].action = outbox[e].action
              /\ reaped[e].status = IF e \in R THEN "pending" ELSE outbox[e].status
    BY <1>1, <1>2, MarkedFacts
  <1>f. \A e \in DOMAIN reaped : reaped[e] \in Entries
    BY <1>3
  <1>4. /\ DOMAIN outbox' = DOMAIN reaped
        /\ \A e \in DOMAIN reaped :
              /\ outbox'[e].action = reaped[e].action
              /\ outbox'[e].status = IF e \in B THEN "processing" ELSE reaped[e].status
    BY <1>1, <1>f, MarkedFacts
  <1>5. DeletesAreOwed
    BY <1>3, <1>4 DEF DeletesAreOwed, Poll
  <1>6. PICK b : /\ worker' = [worker EXCEPT ![w] = b]
                 /\ \A e \in b.ups : ChunkOf(e) \in embedded
                 /\ ~b.removed
    <2> DEFINE ups == {e \in B : reaped[e].action = "upsert"}
               b == [pc |-> "upsert", ups |-> ups \ WithoutVector(ups),
                     dels |-> B \ ups, bad |-> WithoutVector(ups),
                     stored |-> FALSE, removed |-> FALSE]
    <2>1. worker' = [worker EXCEPT ![w] = b]
      BY <1>1
    <2>2. \A e \in ups \ WithoutVector(ups) : ChunkOf(e) \in embedded
      BY DEF WithoutVector
    <2>3. b.ups = ups \ WithoutVector(ups) /\ ~b.removed
      OBVIOUS
    <2> HIDE DEF b
    <2> QED
      BY <2>1, <2>2, <2>3
  <1>7. BatchIsOrdered(b)'
    <2>1. \A e \in b.ups : ChunkOf(e) \in Live'
      BY <1>6 DEF IndexInv, IndexTypeOK, OutboxTypeOK, Poll, Live
    <2> QED
      BY <1>6, <2>1 DEF BatchIsOrdered
  <1>8. UNCHANGED <<chunks, points>>
    BY DEF Poll
  <1> QED
    BY <1>5, <1>6, <1>7, <1>8, WorkerOrdered

LEMMA RequestOwes ==
    ASSUME IndexInv, NEW es, outbox' \in {outbox, Marked(outbox, es, "failed", 1)},
           UNCHANGED gaveUp
    PROVE  DeletesAreOwed
  <1>1. CASE outbox' = outbox
    BY <1>1 DEF DeletesAreOwed
  <1>2. CASE outbox' = Marked(outbox, es, "failed", 1)
    <2>1. PICK st, more : st = "failed" /\ more = 1
      OBVIOUS
    <2>2. outbox' = Marked(outbox, es, st, more)
      BY <1>2, <2>1
    <2>3. /\ DOMAIN outbox' = DOMAIN outbox
          /\ \A e \in DOMAIN outbox' : outbox'[e].action = outbox[e].action
          /\ \A e \in DOMAIN outbox :
                outbox'[e].status = IF e \in es THEN st ELSE outbox[e].status
      BY <2>1, <2>2, MarksCarry
    <2> QED
      BY <2>1, <2>3 DEF DeletesAreOwed
  <1> QED
    BY <1>1, <1>2

\* The points that a request stores are of chunks that are there or whose deletion is
\* still to come.
LEMMA UpsertOrdered ==
    ASSUME \A v, w \in Workers : v = w,
           IndexInv, OneWorkerInv, NEW w \in Workers, UpsertPoints(w)
    PROVE  OneWorkerInv'
  <1> DEFINE b == worker[w]
             stored == {ChunkOf(e) : e \in b.ups}
  <1>1. b.pc = "upsert" /\ b # Resting
    BY DEF UpsertPoints, Resting
  <1>2. b \in Batches /\ BatchIsSound(b) /\ BatchIsOrdered(b)
    BY <1>1, BatchFacts DEF OneWorkerInv
  <1>3. PICK next \in {[b EXCEPT !.pc = "delete", !.stored = TRUE],
                       [b EXCEPT !.pc = "delete"]} :
           worker' = [worker EXCEPT ![w] = next]
    <2>1. worker' \in {[worker EXCEPT ![w] = [b EXCEPT !.pc = "delete", !.stored = TRUE]],
                       [worker EXCEPT ![w] = [b EXCEPT !.pc = "delete"]]}
      BY DEF UpsertPoints, IndexInv, IndexTypeOK, OutboxTypeOK
    <2> QED
      BY <2>1
  <1>4. next.pc = "delete" /\ ~next.removed
    BY <1>1, <1>2, <1>3 DEF Batches, BatchIsSound
  <1>5. BatchIsOrdered(next)'
    BY <1>4 DEF BatchIsOrdered
  <1>6. DeletesAreOwed
    BY RequestOwes DEF UpsertPoints
  <1>7. \A p \in stored : p \in Live \/ Covered(p)
    BY <1>1, <1>2 DEF BatchIsOrdered
  <1>8. \A p \in points' : p \in points \/ p \in stored
    BY DEF UpsertPoints
  <1>9. UNCHANGED chunks
    BY DEF UpsertPoints
  <1> QED
    BY <1>3, <1>5, <1>6, <1>7, <1>8, <1>9, WorkerOrdered

LEMMA DeleteOrdered ==
    ASSUME \A v, w \in Workers : v = w,
           IndexInv, OneWorkerInv, NEW w \in Workers, DeletePoints(w)
    PROVE  OneWorkerInv'
  <1> DEFINE b == worker[w]
             removed == {ChunkOf(e) : e \in b.dels}
  <1>1. b.pc = "delete" /\ b # Resting
    BY DEF DeletePoints, Resting
  <1>2. b \in Batches /\ BatchIsSound(b)
    BY <1>1, BatchFacts
  <1>3. PICK next \in {[b EXCEPT !.pc = "settle", !.removed = TRUE],
                       [b EXCEPT !.pc = "settle"]} :
           /\ worker' = [worker EXCEPT ![w] = next]
           /\ next.removed => points' = points \ removed
    <2>1. CASE /\ points' = points \ removed
               /\ worker' = [worker EXCEPT ![w].pc = "settle", ![w].removed = TRUE]
      <3>1. worker' = [worker EXCEPT ![w] = [b EXCEPT !.pc = "settle", !.removed = TRUE]]
        BY <2>1 DEF IndexInv, IndexTypeOK, OutboxTypeOK
      <3> QED
        BY <2>1, <3>1
    <2>2. CASE worker' = [worker EXCEPT ![w].pc = "settle"]
      <3>1. ~[b EXCEPT !.pc = "settle"].removed
        BY <1>1, <1>2 DEF Batches, BatchIsSound
      <3> QED
        BY <2>2, <3>1
    <2> QED
      BY <2>1, <2>2 DEF DeletePoints
  <1>4. next.pc = "settle" /\ next.dels = b.dels
    BY <1>2, <1>3 DEF Batches
  <1>5. BatchIsOrdered(next)'
    BY <1>3, <1>4 DEF BatchIsOrdered
  <1>6. DeletesAreOwed
    BY RequestOwes DEF DeletePoints
  <1>7. points' \subseteq points /\ UNCHANGED chunks
    BY DEF DeletePoints
  <1> QED
    BY <1>3, <1>5, <1>6, <1>7, WorkerOrdered

\* A deletion that is settled has removed its point, and no other worker has put it
\* back.
LEMMA SettleOrdered ==
    ASSUME \A v, w \in Workers : v = w,
           IndexInv, OneWorkerInv, NEW w \in Workers, SettleBatch(w)
    PROVE  OneWorkerInv'
  <1> DEFINE b == worker[w]
  <1>1. b.pc = "settle" /\ b # Resting
    BY DEF SettleBatch, Resting
  <1>2. BatchIsSound(b) /\ BatchIsOrdered(b)
    BY <1>1, BatchFacts DEF OneWorkerInv
  <1>3. \A e \in DOMAIN outbox : outbox[e] \in Entries
    BY DEF IndexInv, IndexTypeOK, OutboxTypeOK
  <1>4. PICK lost, settled, bad, failed, more :
           /\ settled = Marked(outbox, DoneOf(b) \ UNION lost, "done", 0)
           /\ outbox' = Marked(settled, bad, failed, more)
           /\ failed = "failed" /\ more = 1
    BY DEF SettleBatch
  <1>5. /\ DOMAIN settled = DOMAIN outbox
        /\ \A e \in DOMAIN outbox :
              /\ settled[e] \in Entries /\ settled[e].action = outbox[e].action
              /\ settled[e].status = IF e \in DoneOf(b) \ UNION lost THEN "done"
                                     ELSE outbox[e].status
    BY <1>3, <1>4, MarkedFacts
  <1>f. \A e \in DOMAIN settled : settled[e] \in Entries
    BY <1>5
  <1>6. /\ DOMAIN outbox' = DOMAIN settled
        /\ \A e \in DOMAIN settled :
              /\ outbox'[e] \in Entries /\ outbox'[e].action = settled[e].action
              /\ outbox'[e].status = IF e \in bad THEN failed ELSE settled[e].status
    <2>1. /\ outbox' = Marked(settled, bad, failed, more)
          /\ failed \in {"pending", "processing", "done", "failed"} /\ more \in Nat
      BY <1>4
    <2> QED
      BY <1>f, <2>1, MarkedFacts
  <1>7. UNCHANGED <<chunks, points, gaveUp>> /\ worker' = [worker EXCEPT ![w] = Resting]
    BY DEF SettleBatch
  <1>8. ASSUME NEW e \in DOMAIN outbox, outbox[e].action = "delete",
               outbox[e].status # "done", ChunkOf(e) \in points
        PROVE  /\ e \in DOMAIN outbox' /\ outbox'[e].action = "delete"
               /\ outbox'[e].status # "done"
    <2>1. e \notin b.ups
      BY <1>8, <1>2 DEF BatchIsSound, Finds
    <2>2. e \notin DoneOf(b)
      BY <1>2, <1>8, <2>1 DEF DoneOf, BatchIsOrdered
    <2> QED
      BY <1>4, <1>5, <1>6, <1>8, <2>2
  <1>9. PointsHaveRows'
    <2> SUFFICES ASSUME NEW p \in points, p \notin Live
                 PROVE  Outstanding("delete", p)' \/ p \in gaveUp
      BY <1>7 DEF PointsHaveRows, Live
    <2>1. Outstanding("delete", p) \/ p \in gaveUp
      BY DEF OneWorkerInv, PointsHaveRows
    <2> QED
      BY <1>8, <2>1 DEF Outstanding
  <1>10. \A v \in Workers : worker'[v] = Resting
    BY <1>7 DEF IndexInv, IndexTypeOK, OutboxTypeOK
  <1> QED
    BY <1>9, <1>10 DEF OneWorkerInv

LEMMA PurgeOrdered ==
    ASSUME IndexInv, OneWorkerInv, Purge
    PROVE  OneWorkerInv'
  <1>1. DeletesAreOwed
    <2>1. PICK old \in SUBSET DOMAIN outbox :
             /\ outbox' = [e \in DOMAIN outbox \ old |-> outbox[e]]
             /\ \/ UNCHANGED gaveUp /\ \A e \in old : outbox[e].status = "done"
                \/ gaveUp' = gaveUp \cup {ChunkOf(e) : e \in old}
      BY DEF Purge, PurgeDone, PurgeFailed, Without, WithStatus
    <2> QED
      BY <2>1 DEF DeletesAreOwed
  <1>2. UNCHANGED <<chunks, points, worker>>
    BY DEF Purge, PurgeDone, PurgeFailed
  <1>3. /\ \A c \in Live \ Live' : Covered(c)'
        /\ \A w \in Workers : worker'[w] \in {worker[w], Resting}
    BY <1>2 DEF Live
  <1> QED
    BY <1>1, <1>2, <1>3, OrderKept

LEMMA OneWorkerStep ==
    ASSUME \A v, w \in Workers : v = w, IndexInv, OneWorkerInv, [Next]_vars
    PROVE  OneWorkerInv'
  <1>1. CASE OutboxStep
    <2>1. ASSUME NEW w \in Workers, Work(w)
          PROVE  OneWorkerInv'
      BY <2>1, PollOrdered, UpsertOrdered, DeleteOrdered, SettleOrdered DEF Work
    <2> QED
      BY <1>1, <2>1, PurgeOrdered DEF OutboxStep
  <1>2. CASE SyncStep \/ ReadUnembedded \/ StoreBackfill \/ FailBackfill \/ Crash
             \/ UNCHANGED vars
    <2>1. /\ Queues /\ UNCHANGED <<points, gaveUp>>
          /\ \A w \in Workers : worker'[w] \in {worker[w], Resting}
      BY <1>2, StepsQueue
    <2>2. DeletesAreOwed /\ \A c \in Live \ Live' : Covered(c)'
      BY <2>1, QueuedIsCovered
    <2> QED
      BY <2>1, <2>2, OrderKept
  <1> QED
    BY <1>1, <1>2 DEF Next

\* No zombie vectors, as long as one worker drains the outbox: a point whose chunk is
\* gone has its deletion in the outbox, or the deletion was tried so often that its
\* entry was purged (index.rs, outbox_worker.rs).  With two workers it does not hold:
\* an upsert that one of them claimed may be sent after the other has carried out and
\* settled the deletion.
THEOREM PointsAreNotLeftBehind ==
    ASSUME \A v, w \in Workers : v = w
    PROVE  Spec => []PointsHaveRows
  <1>1. Init => OneWorkerInv
    BY DEF Init, OutboxInit, OneWorkerInv, PointsHaveRows
  <1>2. IndexInv /\ OneWorkerInv /\ [Next]_vars => OneWorkerInv'
    BY OneWorkerStep
  <1>3. OneWorkerInv => PointsHaveRows
    BY DEF OneWorkerInv
  <1> QED
    BY <1>1, <1>2, <1>3, IndexInvariant, PTL DEF Spec

==============================================================================
