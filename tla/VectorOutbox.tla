----------------------------- MODULE VectorOutbox -----------------------------
(***************************************************************************)
(* The transactional outbox of the legacy index: rows of chunks, of          *)
(* chunk_embeddings and of indexing_outbox in PostgreSQL, the points of the   *)
(* vector index in Qdrant, and the workers that carry the one to the other     *)
(* (api/src/services/outbox_worker.rs, api/src/services/qdrant.rs, the claim   *)
(* function of schema.sql).                                                    *)
(*                                                                          *)
(* An entry is identified by the statement that inserted it and by its chunk:  *)
(* one statement inserts at most one entry per chunk, and entries are claimed  *)
(* in the order of created_at.  Chunk identifiers are never used twice.        *)
(***************************************************************************)
EXTENDS Naturals, FiniteSets

CONSTANTS
    Files,       \* paths of the source
    Absent,      \* no file, no row
    Workers,     \* outbox workers, one per server process
    BatchSize,   \* entries one poll may claim
    RetryLimit,  \* retries after which the reaper leaves an entry alone
    MaxChunk,    \* bound: chunks ever inserted
    MaxClock,    \* bound: statements that insert entries
    MaxFaults    \* bound: errors, timeouts and ends of the process

ASSUME OutboxAssumption ==
    /\ BatchSize \in Nat \ {0}
    /\ RetryLimit \in Nat \ {0}
    /\ MaxChunk \in Nat
    /\ MaxClock \in Nat
    /\ MaxFaults \in Nat
    /\ Absent \notin Files

ChunkIds == 1 .. MaxChunk
EntryIds == (1 .. MaxClock) \X ChunkIds
ChunkOf(e) == e[2]

Entries == [action : {"upsert", "delete"}, retry : Nat,
            status : {"pending", "processing", "done", "failed"}]

VARIABLES
    chunks,    \* the rows of chunks, by identifier
    embedded,  \* the chunks with a row in chunk_embeddings
    outbox,    \* the rows of indexing_outbox
    clock,     \* the next inserting statement
    points,    \* the points in Qdrant, by the chunk they stand for
    gaveUp,    \* chunks of which a failed entry was purged (observability)
    worker,    \* the batch each worker is at
    faults     \* what has gone wrong so far

outboxVars == <<chunks, embedded, outbox, clock, points, gaveUp, worker, faults>>

Live == DOMAIN chunks

Resting == [pc |-> "idle"]
Batches == [pc : {"upsert", "delete", "settle"}, ups : SUBSET EntryIds,
            dels : SUBSET EntryIds, bad : SUBSET EntryIds, stored : BOOLEAN,
            removed : BOOLEAN]

OutboxTypeOK ==
    /\ Live \subseteq ChunkIds
    /\ embedded \subseteq Live
    /\ DOMAIN outbox \subseteq EntryIds
    /\ \A e \in DOMAIN outbox : outbox[e] \in Entries
    /\ clock \in 1 .. MaxClock + 1
    /\ points \subseteq ChunkIds
    /\ gaveUp \subseteq ChunkIds
    /\ worker \in [Workers -> Batches \cup {Resting}]
    /\ faults \in 0 .. MaxFaults

OutboxInit ==
    /\ chunks = <<>>
    /\ embedded = {}
    /\ outbox = <<>>
    /\ clock = 1
    /\ points = {}
    /\ gaveUp = {}
    /\ worker = [w \in Workers |-> Resting]
    /\ faults = 0

Fault == faults < MaxFaults /\ faults' = faults + 1

------------------------------------------------------------------------------
(* Rows of the outbox.                                                      *)

WithStatus(s) == {e \in DOMAIN outbox : outbox[e].status = s}

\* The rows of rows after a status update of those of es that still exist.
Marked(rows, es, status, more) ==
    [e \in DOMAIN rows |->
        IF e \in es THEN [rows[e] EXCEPT !.status = status, !.retry = @ + more]
        ELSE rows[e]]

Enqueued(action, cs) ==
    [e \in DOMAIN outbox \cup ({clock} \X cs) |->
        IF e \in DOMAIN outbox THEN outbox[e]
        ELSE [action |-> action, status |-> "pending", retry |-> 0]]

\* A statement that queues action for the chunks cs.
Enqueue(action, cs) ==
    /\ clock <= MaxClock
    /\ outbox' = Enqueued(action, cs)
    /\ clock' = clock + 1

------------------------------------------------------------------------------
(* The worker loop.                                                         *)

\* Entries in processing that have been there for longer than five minutes may
\* be reaped; the model leaves open which these are.
Reapable == {e \in WithStatus("processing") : outbox[e].retry < RetryLimit}

\* The oldest pending entries, at most BatchSize of them.
IsBatch(rows, B) ==
    LET pending == {e \in DOMAIN rows : rows[e].status = "pending"}
    IN  /\ B # {} /\ B \subseteq pending
        /\ Cardinality(B) <= BatchSize
        /\ B = pending \/ Cardinality(B) = BatchSize
        /\ \A e \in B, d \in pending \ B : e[1] <= d[1]

\* Mutant: the claim does not look for the vector of the chunk.
Vectorless(es) == {}

\* The claim joins the vector of the chunk: where there is none, the entry fails.
WithoutVector(es) == {e \in es : ChunkOf(e) \notin embedded}

Poll(w, R) ==
    /\ worker[w] = Resting
    /\ R \subseteq Reapable
    /\ LET rows == Marked(outbox, R, "pending", 1)
       IN  \E B \in SUBSET DOMAIN rows :
             /\ IsBatch(rows, B)
             /\ outbox' = Marked(rows, B, "processing", 0)
             /\ LET ups == {e \in B : rows[e].action = "upsert"}
                IN  worker' = [worker EXCEPT ![w] =
                        [pc |-> "upsert", ups |-> ups \ WithoutVector(ups),
                         dels |-> B \ ups, bad |-> WithoutVector(ups),
                         stored |-> FALSE, removed |-> FALSE]]
    /\ UNCHANGED <<chunks, embedded, clock, points, gaveUp, faults>>

\* A request with its retries: it was carried out if it was answered with
\* success, and it may have been if it was not.
UpsertPoints(w) ==
    LET b == worker[w]
        stored == {ChunkOf(e) : e \in b.ups}
    IN  /\ b.pc = "upsert"
        /\ \/ /\ points' = points \cup stored
              /\ worker' = [worker EXCEPT ![w].pc = "delete", ![w].stored = TRUE]
              /\ UNCHANGED <<outbox, faults>>
           \/ /\ b.ups # {}
              /\ Fault
              /\ points' \in {points, points \cup stored}
              /\ outbox' \in {outbox, Marked(outbox, b.ups, "failed", 1)}
              /\ worker' = [worker EXCEPT ![w].pc = "delete"]
        /\ UNCHANGED <<chunks, embedded, clock, gaveUp>>

DeletePoints(w) ==
    LET b == worker[w]
        removed == {ChunkOf(e) : e \in b.dels}
    IN  /\ b.pc = "delete"
        /\ \/ /\ points' = points \ removed
              /\ worker' = [worker EXCEPT ![w].pc = "settle", ![w].removed = TRUE]
              /\ UNCHANGED <<outbox, faults>>
           \/ /\ b.dels # {}
              /\ Fault
              /\ points' \in {points, points \ removed}
              /\ outbox' \in {outbox, Marked(outbox, b.dels, "failed", 1)}
              /\ worker' = [worker EXCEPT ![w].pc = "settle"]
        /\ UNCHANGED <<chunks, embedded, clock, gaveUp>>

\* Mutant: the batch is settled whatever the requests answered.
DoneOfAll(b) == b.ups \cup b.dels

\* What the requests carried out.
DoneOf(b) == (IF b.stored THEN b.ups ELSE {}) \cup (IF b.removed THEN b.dels ELSE {})

\* Three updates, each of which may fail and is then only logged.
SettleBatch(w) ==
    LET b == worker[w]
    IN  /\ b.pc = "settle"
        /\ \E lost \in SUBSET {b.ups, b.dels, b.bad} :
             /\ IF lost = {} THEN UNCHANGED faults ELSE Fault
             /\ outbox' = Marked(Marked(outbox, DoneOf(b) \ UNION lost, "done", 0),
                                b.bad \ UNION lost, "failed", 1)
        /\ worker' = [worker EXCEPT ![w] = Resting]
        /\ UNCHANGED <<chunks, embedded, clock, points, gaveUp>>

------------------------------------------------------------------------------
(* The purge task.  Its statements spare the rows that are too young; the     *)
(* model does not tell the ages of rows apart.                              *)

Without(es) == [e \in DOMAIN outbox \ es |-> outbox[e]]

PurgeDone ==
    LET old == WithStatus("done")
    IN  /\ old # {}
        /\ outbox' = Without(old)
        /\ UNCHANGED <<chunks, embedded, clock, points, gaveUp, worker, faults>>

PurgeFailed ==
    LET old == {e \in WithStatus("failed") : outbox[e].retry >= RetryLimit}
    IN  /\ old # {}
        /\ outbox' = Without(old)
        /\ gaveUp' = gaveUp \cup {ChunkOf(e) : e \in old}
        /\ UNCHANGED <<chunks, embedded, clock, points, worker, faults>>

Work(w) ==
    \/ \E R \in SUBSET Reapable : Poll(w, R)
    \/ UpsertPoints(w)
    \/ DeletePoints(w)
    \/ SettleBatch(w)

Purge == PurgeDone \/ PurgeFailed

\* The loop of a worker goes on, and after five minutes every entry left in
\* processing is old enough.
WorkerFairness ==
    \A w \in Workers :
        /\ WF_outboxVars(UpsertPoints(w) \/ DeletePoints(w) \/ SettleBatch(w))
        /\ SF_outboxVars(Poll(w, Reapable))
==============================================================================
