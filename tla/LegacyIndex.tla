------------------------------ MODULE LegacyIndex ------------------------------
(***************************************************************************)
(* The legacy index of one source: the sync of its files                      *)
(* (api/src/services/index.rs) and the backfill of vectors                     *)
(* (api/src/api/handlers/admin.rs), composed with the outbox and its workers    *)
(* (VectorOutbox).                                                             *)
(*                                                                          *)
(* The text of a file is a sequence of lines and each line is one chunk; a      *)
(* hash stands for the text it was computed from.  The model runs one sync at   *)
(* a time.  A sync step fails by an error of the database or of the embedding   *)
(* service, by the timeout per file, or by the end of the process.  Symbol      *)
(* analysis, the parents of chunks and the sync ledger are left out.            *)
(***************************************************************************)
EXTENDS VectorOutbox, Sequences, SequencesExt

CONSTANTS
    Jsonl,   \* the files that end in .jsonl
    Texts,   \* contents a file may have
    Large    \* those above the size beyond which content is not stored

ASSUME TextsAssumption ==
    /\ Jsonl \subseteq Files /\ Large \subseteq Texts
    /\ Texts \subseteq Seq(UNION {ToSet(t) : t \in Texts}) \ {<<>>}
    /\ Absent \notin Texts

VARIABLES
    rows,         \* the rows of files, each by the text its hash is of
    nextChunk,    \* the sequence of chunk identifiers
    sync,         \* the sync in progress
    backfill,     \* the chunks a backfill has read and not written yet
    misindexed,   \* files whose chunks a failed sync has left behind, or an append that
                  \* compared nothing, until they are written anew (observability)
    unqueued      \* chunks whose entry was never written (observability)

vars == <<outboxVars, rows, nextChunk, sync, backfill, misindexed, unqueued>>

\* full: a sync of the source and not of named files.  todo are the files found
\* and not begun, with their text, orphans the rows of files that were not found.
\* At work on file with its text, lines up to from are indexed already; fresh are
\* the chunks inserted that have no vector yet.
NoSync == [pc |-> "idle"]
Found(full, texts, orphans) ==
    [pc |-> "pick", full |-> full, todo |-> texts, orphans |-> orphans,
     file |-> Absent, text |-> <<>>, from |-> 0, fresh |-> {}]
NextFile == [sync EXCEPT !.pc = "pick", !.file = Absent, !.text = <<>>, !.from = 0,
                         !.fresh = {}]

TextsOrAbsent == Texts \cup {Absent}

Init ==
    /\ OutboxInit
    /\ rows = [f \in Files |-> Absent]
    /\ nextChunk = 1
    /\ sync = NoSync
    /\ backfill = {}
    /\ misindexed = {}
    /\ unqueued = {}

ChunksOf(f) == {c \in Live : chunks[c].file = f}

\* ORDER BY start_line, id.
Before(c, d) ==
    chunks[c].at < chunks[d].at \/ (chunks[c].at = chunks[d].at /\ c < d)

Place(c) == Cardinality({d \in ChunksOf(chunks[c].file) : Before(d, c)}) + 1

\* As many chunks as lines, each with the text of its line.
HasLines(f, text) ==
    /\ Cardinality(ChunksOf(f)) = Len(text)
    /\ \A c \in ChunksOf(f) : text[Place(c)] = chunks[c].line

workerVars == <<points, gaveUp, worker, faults>>

------------------------------------------------------------------------------
(* What a sync finds.                                                       *)

\* The disk changes at will: whatever a sync reads may be any text.  A sync of the
\* source lists the rows of the files; then the discovery reads the files, except
\* those that are gone or that it cannot read, which it reports as errors.
StartSync ==
    /\ sync = NoSync
    /\ \E found \in SUBSET Files : \E texts \in [found -> Texts] :
         sync' = Found(TRUE, texts, {f \in Files : rows[f] # Absent} \ found)
    /\ UNCHANGED <<outboxVars, rows, nextChunk, backfill, misindexed, unqueued>>

\* Sync of a named file, which looks for no deletions.
StartSyncFiles(f) ==
    /\ sync = NoSync
    /\ \E text \in Texts : sync' = Found(FALSE, [g \in {f} |-> text], {})
    /\ UNCHANGED <<outboxVars, rows, nextChunk, backfill, misindexed, unqueued>>

\* A file that was found is passed over, or the work on it begins.
Passed(f) == [sync EXCEPT !.todo = [g \in DOMAIN @ \ {f} |-> @[g]]]

\* Mutant: what is appended begins one line late.
BegunLate(f, pc, text, from) ==
    [Passed(f) EXCEPT !.pc = pc, !.file = f, !.text = text,
                      !.from = IF from = 0 THEN 0 ELSE from + 1]

Begun(f, pc, text, from) ==
    [Passed(f) EXCEPT !.pc = pc, !.file = f, !.text = text, !.from = from]

\* Large conversations are streamed from the disk, but only by a full sync.
Streams(f) == sync.full /\ f \in Jsonl /\ sync.todo[f] \in Large

------------------------------------------------------------------------------
(* One file, in memory.                                                     *)

StoredText(f) == IF rows[f] \in Large THEN <<>> ELSE rows[f]

\* The row that is about to be replaced stores a text that the new one continues.
Appends(f, text) ==
    /\ f \in Jsonl
    /\ Len(rows[f]) < Len(text)
    /\ IsPrefix(StoredText(f), text)
    /\ ChunksOf(f) # {}

\* What is stored of a large text is nothing, which anything continues.
ComparesNothing(f, text) == rows[f] \in Large /\ ~IsPrefix(rows[f], text)

\* The hash decides whether there is anything to do; the row takes the new one
\* before any chunk is touched.
RecordFile(f) ==
    /\ sync.pc = "pick" /\ f \in DOMAIN sync.todo /\ ~Streams(f)
    /\ LET text == sync.todo[f]
       IN  \/ /\ rows[f] = text
              /\ sync' = Passed(f)
              /\ UNCHANGED <<rows, misindexed>>
           \/ /\ rows[f] # text
              /\ rows' = [rows EXCEPT ![f] = text]
              /\ \/ /\ rows[f] # Absent /\ Appends(f, text)
                    /\ sync' = Begun(f, "insert", text, Len(rows[f]))
                    /\ misindexed' = IF ComparesNothing(f, text) THEN misindexed \cup {f}
                                     ELSE misindexed
                 \/ /\ ~(rows[f] # Absent /\ Appends(f, text))
                    /\ sync' = Begun(f, "replace", text, 0)
                    /\ UNCHANGED misindexed
    /\ UNCHANGED <<outboxVars, nextChunk, backfill, unqueued>>

\* Mutant: the vectors of the chunks stay behind.
DropChunksOnly(cs) ==
    /\ chunks' = [c \in Live \ cs |-> chunks[c]]
    /\ UNCHANGED embedded
    /\ IF cs = {} THEN UNCHANGED <<outbox, clock>> ELSE Enqueue("delete", cs)

\* Deletes the chunks cs and what depends on them, after queueing the deletion of
\* their points in the same transaction.
DropChunks(cs) ==
    /\ chunks' = [c \in Live \ cs |-> chunks[c]]
    /\ embedded' = embedded \ cs
    /\ IF cs = {} THEN UNCHANGED <<outbox, clock>> ELSE Enqueue("delete", cs)

\* The chunks are already those of the text, or all of them are dropped.  The
\* comparison does not look at start_line: what an append that was cut off has left
\* beyond the end of the text stays there.
ReplaceChunks ==
    LET f == sync.file
    IN  /\ sync.pc = "replace"
        /\ \/ /\ HasLines(f, sync.text)
              /\ sync' = NextFile
              /\ misindexed' = IF \A c \in ChunksOf(f) : chunks[c].at <= Len(sync.text)
                                THEN misindexed \ {f} ELSE misindexed
              /\ UNCHANGED <<chunks, embedded, outbox, clock>>
           \/ /\ ~HasLines(f, sync.text)
              /\ DropChunks(ChunksOf(f))
              /\ sync' = [sync EXCEPT !.pc = "insert"]
              /\ UNCHANGED misindexed
        /\ UNCHANGED <<workerVars, rows, nextChunk, backfill, unqueued>>

\* Inserts the lines of text after from as chunks of the file of the sync.
InsertLines(text, from, pc) ==
    LET fresh == nextChunk .. nextChunk + Len(text) - from - 1
    IN  /\ rows[sync.file] # Absent
        /\ nextChunk + Len(text) - from - 1 <= MaxChunk
        /\ chunks' = [c \in Live \cup fresh |->
              IF c \in Live THEN chunks[c]
              ELSE [file |-> sync.file, at |-> from + 1 + c - nextChunk,
                    line |-> text[from + 1 + c - nextChunk]]]
        /\ nextChunk' = nextChunk + Len(text) - from
        /\ sync' = [sync EXCEPT !.pc = pc, !.fresh = fresh]
        /\ UNCHANGED <<embedded, outbox, clock, workerVars, rows, backfill, unqueued>>

InsertChunks ==
    /\ sync.pc = "insert"
    /\ InsertLines(sync.text, sync.from, "embed")
    /\ misindexed' = IF sync.from = 0 THEN misindexed \ {sync.file} ELSE misindexed

\* Rows of chunk_embeddings refer to rows of chunks.
EmbedAndQueue(cs) ==
    /\ cs \subseteq Live
    /\ embedded' = embedded \cup cs
    /\ Enqueue("upsert", cs)

\* Vectors from the embedding service or from chunks with the same content, stored
\* with their entries in one transaction.
StoreVectors ==
    /\ sync.pc = "embed"
    /\ EmbedAndQueue(sync.fresh)
    /\ sync' = NextFile
    /\ UNCHANGED <<chunks, workerVars, rows, nextChunk, backfill, misindexed, unqueued>>

------------------------------------------------------------------------------
(* One file, streamed: hashed, opened again and flushed in batches of a line.  *)

HashStream(f) ==
    /\ sync.pc = "pick" /\ f \in DOMAIN sync.todo /\ Streams(f)
    /\ \/ /\ rows[f] = sync.todo[f]
          /\ sync' = Passed(f)
          /\ UNCHANGED rows
       \/ /\ rows[f] # sync.todo[f]
          /\ rows' = [rows EXCEPT ![f] = sync.todo[f]]
          /\ sync' = Begun(f, "drop", <<>>, 0)
    /\ UNCHANGED <<outboxVars, nextChunk, backfill, misindexed, unqueued>>

DropStreamed ==
    /\ sync.pc = "drop"
    /\ DropChunks(ChunksOf(sync.file))
    /\ sync' = [sync EXCEPT !.pc = "read"]
    /\ misindexed' = misindexed \ {sync.file}
    /\ UNCHANGED <<workerVars, rows, nextChunk, backfill, unqueued>>

OpenStream ==
    /\ sync.pc = "read"
    /\ \E text \in Texts :
         /\ sync' = [sync EXCEPT !.pc = "flush", !.text = text]
         /\ misindexed' = IF text = rows[sync.file] THEN misindexed
                           ELSE misindexed \cup {sync.file}
    /\ UNCHANGED <<outboxVars, rows, nextChunk, backfill, unqueued>>

\* Lines are numbered within their batch.
FlushChunks ==
    /\ sync.pc = "flush" /\ sync.text # <<>>
    /\ InsertLines(<<Head(sync.text)>>, 0, "vectors")
    /\ UNCHANGED misindexed

\* The vector and its entry are two statements here, and a batch that the
\* embedding service refuses is passed over.
FlushVectors ==
    /\ sync.pc = "vectors"
    /\ \/ /\ sync.fresh \subseteq Live
          /\ embedded' = embedded \cup sync.fresh
          /\ sync' = [sync EXCEPT !.pc = "queue"]
          /\ UNCHANGED faults
       \/ /\ Fault
          /\ sync' = [sync EXCEPT !.pc = "flush", !.text = Tail(@), !.fresh = {}]
          /\ UNCHANGED embedded
    /\ UNCHANGED <<chunks, outbox, clock, points, gaveUp, worker, rows, nextChunk,
                   backfill, misindexed, unqueued>>

FlushEntries ==
    /\ sync.pc = "queue"
    /\ sync.fresh \subseteq Live
    /\ Enqueue("upsert", sync.fresh)
    /\ sync' = [sync EXCEPT !.pc = "flush", !.text = Tail(@), !.fresh = {}]
    /\ UNCHANGED <<chunks, embedded, workerVars, rows, nextChunk,
                   backfill, misindexed, unqueued>>

EndStream ==
    /\ sync.pc = "flush" /\ sync.text = <<>>
    /\ sync' = NextFile
    /\ UNCHANGED <<outboxVars, rows, nextChunk, backfill, misindexed, unqueued>>

------------------------------------------------------------------------------
(* The end of a sync.                                                       *)

\* Work on the current file has begun and its chunks are not those of its row.
Halfway == sync.pc \in {"replace", "insert", "drop", "read", "flush", "vectors", "queue"}

LeaveBehind ==
    /\ misindexed' = IF Halfway THEN misindexed \cup {sync.file} ELSE misindexed
    /\ unqueued' = IF sync.pc = "queue" THEN unqueued \cup sync.fresh ELSE unqueued

\* An error or the timeout: the sync goes on with the next file.
AbandonFile ==
    /\ \/ /\ sync.pc = "pick"
          /\ \E f \in DOMAIN sync.todo : sync' = Passed(f)
       \/ /\ sync.pc \notin {"idle", "pick"}
          /\ sync' = NextFile
    /\ Fault
    /\ LeaveBehind
    /\ UNCHANGED <<chunks, embedded, outbox, clock, points, gaveUp, worker,
                   rows, nextChunk, backfill>>

\* Files that were not found lose their rows.  The chunks are read before the
\* transaction begins that queues their deletion and deletes the row; between the two
\* only another sync could insert chunks, and there is one at a time.
DeleteOrphan(f) ==
    /\ sync.pc = "pick" /\ DOMAIN sync.todo = {} /\ f \in sync.orphans
    /\ DropChunks(ChunksOf(f))
    /\ rows' = [rows EXCEPT ![f] = Absent]
    /\ misindexed' = misindexed \ {f}
    /\ sync' = [sync EXCEPT !.orphans = @ \ {f}]
    /\ UNCHANGED <<workerVars, nextChunk, backfill, unqueued>>

\* All is done, or a deletion failed and ends the sync.
FinishSync ==
    /\ sync.pc = "pick" /\ DOMAIN sync.todo = {}
    /\ sync' = NoSync
    /\ UNCHANGED <<outboxVars, rows, nextChunk, backfill, misindexed, unqueued>>

------------------------------------------------------------------------------
(* Other handlers of the same process.                                      *)

\* The first transaction of a batch reads chunks without a vector, the second
\* stores theirs; the vectors are computed in between.
ReadUnembedded ==
    /\ backfill = {} /\ Live # embedded
    /\ backfill' = Live \ embedded
    /\ UNCHANGED <<outboxVars, rows, nextChunk, sync, misindexed, unqueued>>

StoreBackfill ==
    /\ backfill # {}
    /\ EmbedAndQueue(backfill)
    /\ backfill' = {}
    /\ UNCHANGED <<chunks, workerVars, rows, nextChunk, sync, misindexed, unqueued>>

FailBackfill ==
    /\ backfill # {}
    /\ backfill' = {}
    /\ Fault
    /\ UNCHANGED <<chunks, embedded, outbox, clock, points, gaveUp, worker,
                   rows, nextChunk, sync, misindexed, unqueued>>

\* The end of the process.
Crash ==
    /\ Fault
    /\ worker' = [w \in Workers |-> Resting]
    /\ sync' = NoSync
    /\ backfill' = {}
    /\ LeaveBehind
    /\ UNCHANGED <<chunks, embedded, outbox, clock, points, gaveUp, rows, nextChunk>>

OutboxStep ==
    /\ (\E w \in Workers : Work(w)) \/ Purge
    /\ UNCHANGED <<rows, nextChunk, sync, backfill, misindexed, unqueued>>

SyncStep ==
    \/ StartSync \/ ReplaceChunks \/ InsertChunks \/ StoreVectors
    \/ DropStreamed \/ OpenStream \/ FlushChunks \/ FlushVectors \/ FlushEntries \/ EndStream
    \/ AbandonFile \/ FinishSync
    \/ \E f \in Files : StartSyncFiles(f) \/ RecordFile(f) \/ HashStream(f) \/ DeleteOrphan(f)

Next ==
    \/ SyncStep \/ OutboxStep
    \/ ReadUnembedded \/ StoreBackfill \/ FailBackfill
    \/ Crash

Spec == Init /\ [][Next]_vars

FairSpec == Spec /\ WorkerFairness

------------------------------------------------------------------------------
(* Properties.                                                              *)

Outstanding(action, c) ==
    \E e \in DOMAIN outbox :
        /\ ChunkOf(e) = c
        /\ outbox[e].action = action /\ outbox[e].status # "done"

IndexTypeOK ==
    /\ OutboxTypeOK
    /\ \A c \in Live : chunks[c].file \in Files
    /\ rows \in [Files -> TextsOrAbsent]
    /\ nextChunk \in 1 .. MaxChunk + 1
    /\ \A c \in Live : c < nextChunk
    /\ backfill \subseteq 1 .. nextChunk - 1

\* No zombie vectors: a point whose chunk is gone has its deletion in the outbox,
\* unless that deletion failed so often that the entry was purged.
PointsHaveRows ==
        \A p \in points \ Live : Outstanding("delete", p) \/ p \in gaveUp

\* A vector that a sync or a backfill stored is in the vector index, or its entry
\* is there to put it in; a streamed file may lose it between its two statements.
VectorsAreAccounted ==
    \A c \in embedded :
        \/ c \in points \/ Outstanding("upsert", c) \/ c \in gaveUp
        \/ c \in unqueued \/ (sync.pc = "queue" /\ c \in sync.fresh)

\* The chunks of a file are the lines of the text whose hash its row has, through
\* appends, rewrites, skipped files, orphans and backfills, unless a sync of it
\* stopped halfway or appended to a text that was not stored to be compared, and
\* then until the file is indexed anew.
LinesAreIndexed ==
    \A f \in Files \ misindexed :
        (rows[f] # Absent /\ ~(Halfway /\ sync.file = f))
            => HasLines(f, rows[f])

\* "PostgreSQL commit = Qdrant sync will happen" (index.rs:1684).
CommitMeansSync ==
    \A c \in ChunkIds : c \in embedded ~> (c \in points \/ c \notin Live)

\* "Verify old content is prefix of new content" (index.rs:946).
AppendsContinue ==
    [][ \A f \in Files : RecordFile(f) /\ sync'.pc = "insert"
            => IsPrefix(rows[f], rows'[f]) ]_vars
==============================================================================
