----------------------------- MODULE SearchService -----------------------------
(***************************************************************************)
(* Hybrid searches that run at the same time (api/src/services/search.rs):    *)
(* the mode each chooses from the circuit breakers before it waits for         *)
(* anything, the permits it waits for (api/src/services/gpu_semaphore.rs), the  *)
(* calls it makes with them, what it records of their outcome, the mode it      *)
(* answers with, and the client that goes away at any of its awaits.           *)
(*                                                                          *)
(* A search that reads the breakers, or that records an outcome, takes one      *)
(* step per access to an atomic.  What is found and how it is ranked is left     *)
(* out; a call may succeed or fail.                                           *)
(***************************************************************************)
EXTENDS CircuitBreaker, Sequences, FiniteSets

CONSTANT Permits  \* the permits of each semaphore

Services == {"embed", "qdrant", "rerank"}

ASSUME PermitsAssumption ==
    /\ Breakers = Services
    /\ Permits \in [Services -> Nat \ {0}]
    /\ IsFiniteSet(Callers)

VARIABLES
    free,   \* the permits that are left
    search  \* what each caller is doing

vars == <<breakerVars, free, search>>

\* The breakers in the order in which current_search_mode asks them.
Asked == <<"embed", "qdrant", "rerank">>

\* The mode is Full when vectors and rerank hold, and degraded by what does not.
Modes == [vectors : BOOLEAN, rerank : BOOLEAN]
Full == [vectors |-> TRUE, rerank |-> TRUE]

\* An outcome that is recorded: the breaker and whether the call succeeded.
Outcomes == Services \X BOOLEAN

\* next: the breaker that is read; wasOpen: it was open since its count was read;
\* wanted: reranking was requested and there is something to rank; blank: the vector
\* of the query came back empty; used: the services that had a part in the results;
\* holds: the permits it has; todo: outcomes to record, after which it is at then,
\* without permits.
Idle == [pc |-> "idle"]
Searches ==
    [pc : {"count", "time", "embed", "embedding", "synonyms", "semantic", "querying",
           "merge", "rerank", "reranking", "record", "closing", "opening", "answer"},
     next : 1 .. 3, wasOpen : BOOLEAN, mode : Modes, wanted : BOOLEAN, blank : BOOLEAN,
     used : SUBSET Services, holds : SUBSET Services,
     todo : Seq(Outcomes), then : {"merge", "answer"}]

TypeOK ==
    /\ BreakerTypeOK
    /\ free \in [Services -> Nat] /\ \A b \in Services : free[b] <= Permits[b]
    /\ search \in [Callers -> Searches \cup {Idle}]

Init ==
    /\ BreakerInit
    /\ free = Permits
    /\ search = [c \in Callers |-> Idle]

At(c, pc) == search[c].pc = pc

\* The search of a caller goes on.
Goes(c, s) == search' = [search EXCEPT ![c] = s]

------------------------------------------------------------------------------
(* The mode.                                                                *)

Start(c) ==
    /\ At(c, "idle")
    /\ Goes(c, [pc |-> "count", next |-> 1, wasOpen |-> FALSE, mode |-> Full,
                wanted |-> FALSE, blank |-> FALSE, used |-> {}, holds |-> {},
                todo |-> <<>>, then |-> "merge"])
    /\ UNCHANGED <<breakerVars, free>>

\* The mode is known once all breakers have been asked.
Told(s, b, allowed) ==
    LET mode == IF allowed THEN s.mode
                ELSE IF b = "rerank" THEN [s.mode EXCEPT !.rerank = FALSE]
                ELSE [s.mode EXCEPT !.vectors = FALSE]
    IN  IF s.next < 3 THEN [s EXCEPT !.pc = "count", !.next = @ + 1, !.mode = mode,
                                     !.wasOpen = FALSE]
        ELSE [s EXCEPT !.pc = IF mode.vectors THEN "embed" ELSE "merge", !.mode = mode,
                       !.next = 1, !.wasOpen = FALSE]

\* Mutant: the time alone decides.
LoadCountUnused(c) ==
    /\ At(c, "count")
    /\ Goes(c, [search[c] EXCEPT !.pc = "time",
                    !.wasOpen = StateOf(Asked[search[c].next]) = "open"])
    /\ UNCHANGED <<breakerVars, free>>

\* Below the threshold the breaker is closed whatever the time.
LoadCount(c) ==
    LET s == search[c]
        b == Asked[s.next]
    IN  /\ At(c, "count")
        /\ Goes(c, IF failures[b] < Threshold THEN Told(s, b, TRUE)
                   ELSE [s EXCEPT !.pc = "time", !.wasOpen = StateOf(b) = "open"])
        /\ UNCHANGED <<breakerVars, free>>

LoadTime(c) ==
    LET s == search[c]
        b == Asked[s.next]
    IN  /\ At(c, "time")
        /\ Goes(c, Told(s, b, State(Threshold, opened[b]) # "open"))
        /\ UNCHANGED <<breakerVars, free>>

------------------------------------------------------------------------------
(* The calls, each with a permit of its semaphore.                          *)

Acquire(c, waiting, calling, service) ==
    /\ At(c, waiting) /\ free[service] > 0
    /\ free' = [free EXCEPT ![service] = @ - 1]
    /\ Goes(c, [search[c] EXCEPT !.pc = calling, !.holds = @ \cup {service}])
    /\ UNCHANGED breakerVars

\* The permits once a search has dropped those it holds.
Returned(s) == [b \in Services |-> IF b \in s.holds THEN free[b] + 1 ELSE free[b]]

\* The outcomes are recorded, first to last, before the search is at then.
Recording(s, outcomes, then) ==
    [s EXCEPT !.pc = "record", !.todo = outcomes, !.then = then]

\* mode_after_vector_failure and mode_after_rerank_failure.
NoVectors(s) == [s EXCEPT !.mode.vectors = FALSE]
NoRerank(s) == [s EXCEPT !.mode.rerank = FALSE]

WaitEmbed(c) == Acquire(c, "embed", "embedding", "embed")

\* The vector of the query, from the cache or the service; the first of the vectors
\* that came back may be empty.
Embed(c, blank) ==
    /\ At(c, "embedding")
    /\ Goes(c, [search[c] EXCEPT !.pc = "synonyms", !.blank = blank])
    /\ UNCHANGED <<breakerVars, free>>

\* Mutant: the permit is dropped here and again at the end.
ExpandHolding(c) ==
    /\ At(c, "synonyms")
    /\ free' = Returned(search[c])
    /\ Goes(c, [search[c] EXCEPT !.pc = IF search[c].blank THEN "merge" ELSE "semantic"])
    /\ UNCHANGED breakerVars

\* Qdrant is asked for synonyms, with the permit of the embedding service alone; its
\* refusal means none.  Without a vector there is no search for vectors, and the mode
\* stays.  No success is recorded.
Expand(c) ==
    /\ At(c, "synonyms")
    /\ free' = Returned(search[c])
    /\ Goes(c, [search[c] EXCEPT !.pc = IF search[c].blank THEN "merge" ELSE "semantic",
                                 !.holds = {}])
    /\ UNCHANGED breakerVars

\* The embedding service or Qdrant cannot be reached: the permit is dropped before
\* the failure is recorded.
ExpandFailed(c, b) ==
    /\ At(c, IF b = "embed" THEN "embedding" ELSE "synonyms")
    /\ free' = Returned(search[c])
    /\ Goes(c, Recording([NoVectors(search[c]) EXCEPT !.holds = {}],
                         <<<<b, FALSE>>>>, "merge"))
    /\ UNCHANGED breakerVars

WaitQdrant(c) == Acquire(c, "semantic", "querying", "qdrant")

\* Mutant: success counts for Qdrant alone.
QueryUncounted(c) ==
    /\ At(c, "querying")
    /\ Goes(c, Recording([search[c] EXCEPT !.used = {"qdrant"}],
                         <<<<"qdrant", TRUE>>>>, "merge"))
    /\ UNCHANGED <<breakerVars, free>>

\* Success of the query counts for both services.
Query(c) ==
    /\ At(c, "querying")
    /\ Goes(c, Recording([search[c] EXCEPT !.used = {"qdrant"}],
                         <<<<"embed", TRUE>>, <<"qdrant", TRUE>>>>, "merge"))
    /\ UNCHANGED <<breakerVars, free>>

\* Mutant: the failure leaves the mode as it is.
QueryFailedQuietly(c, b) ==
    /\ At(c, "querying")
    /\ Goes(c, Recording(search[c], <<<<b, FALSE>>>>, "merge"))
    /\ UNCHANGED <<breakerVars, free>>

\* An error that does not name Qdrant counts for the embedding service.
QueryFailed(c, b) ==
    /\ At(c, "querying")
    /\ Goes(c, Recording(NoVectors(search[c]), <<<<b, FALSE>>>>, "merge"))
    /\ UNCHANGED <<breakerVars, free>>

\* The results of the full-text search are there too.  Reranking may not be
\* requested, and there may be nothing to rank.
Merge(c, wanted) ==
    LET s == search[c]
    IN  /\ At(c, "merge")
        /\ Goes(c, [s EXCEPT !.pc = IF wanted /\ s.mode.rerank THEN "rerank" ELSE "answer",
                             !.wanted = wanted])
        /\ UNCHANGED <<breakerVars, free>>

WaitRerank(c) == Acquire(c, "rerank", "reranking", "rerank")

Rerank(c) ==
    /\ At(c, "reranking")
    /\ Goes(c, Recording([search[c] EXCEPT !.used = @ \cup {"rerank"}],
                         <<<<"rerank", TRUE>>>>, "answer"))
    /\ UNCHANGED <<breakerVars, free>>

RerankFailed(c) ==
    /\ At(c, "reranking")
    /\ Goes(c, Recording(NoRerank(search[c]), <<<<"rerank", FALSE>>>>, "answer"))
    /\ UNCHANGED <<breakerVars, free>>

------------------------------------------------------------------------------
(* The outcomes.                                                            *)

\* The first outcome is recorded; after the last one the permits are dropped.
Settled(c) ==
    LET s == search[c]
    IN  /\ IF Tail(s.todo) # <<>> THEN UNCHANGED free ELSE free' = Returned(s)
        /\ Goes(c, IF Tail(s.todo) # <<>> THEN [s EXCEPT !.pc = "record", !.todo = Tail(@)]
                   ELSE [s EXCEPT !.pc = s.then, !.todo = <<>>, !.holds = {},
                                  !.then = "merge"])

RecordSuccess(c) ==
    LET s == search[c]
    IN  /\ At(c, "record") /\ Head(s.todo)[2]
        /\ SwapFailures(c, Head(s.todo)[1])
        /\ Goes(c, [s EXCEPT !.pc = "closing"])
        /\ UNCHANGED free

RecordFailure(c) ==
    LET s == search[c]
        b == Head(s.todo)[1]
    IN  /\ At(c, "record") /\ ~Head(s.todo)[2]
        /\ AddFailure(c, b)
        /\ IF failures[b] + 1 = Threshold
           THEN Goes(c, [s EXCEPT !.pc = "opening"]) /\ UNCHANGED free
           ELSE Settled(c)

CloseBreaker(c) ==
    /\ At(c, "closing")
    /\ StoreClosed(Head(search[c].todo)[1])
    /\ Settled(c)

\* No outcome follows a failure.  Those that have read the count see the breaker open.
OpenBreaker(c) ==
    LET s == search[c]
        b == Head(s.todo)[1]
    IN  /\ At(c, "opening")
        /\ StoreOpened(b)
        /\ free' = Returned(s)
        /\ search' = [k \in Callers |->
              IF k = c THEN [s EXCEPT !.pc = s.then, !.todo = <<>>, !.holds = {},
                                      !.then = "merge"]
              ELSE IF At(k, "time") /\ Asked[search[k].next] = b
              THEN [search[k] EXCEPT !.wasOpen = TRUE] ELSE search[k]]

------------------------------------------------------------------------------
(* The end of a search.                                                     *)

Answer(c) ==
    /\ At(c, "answer")
    /\ Goes(c, Idle)
    /\ UNCHANGED <<breakerVars, free>>

\* Mutant: the permits of an abandoned search are lost.
AbandonHolding(c) ==
    /\ search[c].pc \in {"embed", "embedding", "synonyms", "semantic", "querying",
                         "merge", "rerank", "reranking"}
    /\ Goes(c, Idle)
    /\ UNCHANGED <<breakerVars, free>>

\* The client goes away at an await, or the database fails: nothing is recorded.
Abandon(c) ==
    /\ search[c].pc \in {"embed", "embedding", "synonyms", "semantic", "querying",
                         "merge", "rerank", "reranking"}
    /\ free' = Returned(search[c])
    /\ Goes(c, Idle)
    /\ UNCHANGED breakerVars

Timeout(b) == Elapse(b) /\ UNCHANGED <<free, search>>

\* What a search does when all goes well.
Step(c) ==
    \/ Start(c) \/ LoadCount(c) \/ LoadTime(c)
    \/ WaitEmbed(c) \/ Embed(c, FALSE) \/ Expand(c)
    \/ WaitQdrant(c) \/ Query(c)
    \/ Merge(c, TRUE) \/ WaitRerank(c) \/ Rerank(c)
    \/ RecordSuccess(c) \/ RecordFailure(c) \/ CloseBreaker(c) \/ OpenBreaker(c)
    \/ Answer(c)

\* What keeps it from using every service with success.
Disturb(c) ==
    \/ Embed(c, TRUE) \/ Merge(c, FALSE)
    \/ \E b \in {"embed", "qdrant"} : ExpandFailed(c, b) \/ QueryFailed(c, b)
    \/ RerankFailed(c) \/ Abandon(c)

Next ==
    \/ \E c \in Callers : Step(c) \/ Disturb(c)
    \/ \E b \in Breakers : Timeout(b)

Spec == Init /\ [][Next]_vars

\* Time passes, and searches come and go on.
FairSpec ==
    /\ Spec
    /\ \A b \in Breakers : WF_vars(Timeout(b))
    /\ \A c \in Callers : WF_vars(Step(c))

------------------------------------------------------------------------------
(* Properties.                                                              *)

\* Every permit is left or held by one search, however that search ends: a client
\* that goes away, a failure or a breaker that opens neither loses nor doubles one.
PermitsAreReturned ==
    \A b \in Services :
        free[b] + Cardinality({c \in Callers : ~At(c, "idle") /\ b \in search[c].holds})
            = Permits[b]

\* The mode of an answer is what was done for it: vectors are claimed if they were
\* searched and, but for a query whose vector came back empty, only then; reranking
\* is claimed if it was done and, if it was wanted, only then.
AnswersAreTruthful ==
    \A c \in Callers :
        At(c, "answer") =>
            LET s == search[c]
            IN  /\ "qdrant" \in s.used => s.mode.vectors
                /\ s.mode.vectors => "qdrant" \in s.used \/ s.blank
                /\ "rerank" \in s.used => s.mode.rerank
                /\ s.wanted /\ s.mode.rerank => "rerank" \in s.used

\* A search does without a service only if its breaker was open at some moment
\* between the two loads, though no lock is taken for them.
RefusalsAreFounded ==
    [][ \A c \in Callers :
          (LoadTime(c) /\ search'[c].mode # search[c].mode) => search[c].wasOpen ]_vars

\* Once the services work, and the searches use them, no breaker stays open or half
\* open: the probes of a half-open breaker reach all that it guards.
BreakersClose ==
    <>[][ \A c \in Callers : ~Disturb(c) ]_vars
        => \A b \in Breakers : []<>(StateOf(b) = "closed")
==============================================================================
