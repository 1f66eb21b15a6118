------------------------- MODULE SearchServiceProofs -------------------------
(***************************************************************************)
(* Proofs about the search service: for any number of searches, any threshold  *)
(* and any number of permits the breakers stay consistent, refusals are        *)
(* founded, permits return and answers are truthful.                          *)
(*                                                                          *)
(* Most of it is local to one search: what it has used, holds and has left to   *)
(* record follows from where it is (Sound).  The breakers need the owner of      *)
(* each lock (LocksAreHeld), the permits a sum over the searches (Balanced).    *)
(***************************************************************************)
EXTENDS SearchService, TLAPS, FiniteSetTheorems

------------------------------------------------------------------------------
(* What holds of one search.                                                *)

Recorders == {"record", "closing", "opening"}
BeforeQuery == {"count", "time", "embed", "embedding", "synonyms", "semantic", "querying"}
WithVectors == {"embed", "embedding", "synonyms", "semantic", "querying"}
BeforeRerank == {"merge", "rerank", "reranking"}
WithRerank == {"rerank", "reranking"}
Unheld == {"count", "time", "embed", "semantic", "merge", "rerank", "answer"}

Vectored(s) == /\ "qdrant" \in s.used => s.mode.vectors
               /\ s.mode.vectors => "qdrant" \in s.used \/ s.blank
Unranked(s) == "rerank" \notin s.used
Ranked(s) == /\ "rerank" \in s.used => s.mode.rerank
             /\ s.wanted /\ s.mode.rerank => "rerank" \in s.used

\* Whether what it has used agrees with its mode, by where it is.
Honest(s) ==
    /\ s.pc \in BeforeQuery => s.used = {}
    /\ s.pc \in WithVectors => s.mode.vectors
    /\ s.pc \in BeforeRerank \/ (s.pc \in Recorders /\ s.then = "merge")
          => Vectored(s) /\ Unranked(s)
    /\ s.pc \in WithRerank => s.wanted /\ s.mode.rerank
    /\ s.pc = "answer" \/ (s.pc \in Recorders /\ s.then = "answer")
          => Vectored(s) /\ Ranked(s)

\* Permits are held one at a time, from the call to its end.
Holding(s) ==
    /\ s.pc \in Unheld => s.holds = {}
    /\ s.pc \in {"embedding", "synonyms"} => s.holds = {"embed"}
    /\ s.pc = "querying" => s.holds = {"qdrant"}
    /\ s.pc = "reranking" => s.holds = {"rerank"}

Sound(s) ==
    \/ s = Idle
    \/ /\ s \in Searches
       /\ s.pc \in Recorders => s.todo # <<>>
       /\ Honest(s)
       /\ Holding(s)

SearchIsSound ==
    /\ search = [c \in Callers |-> search[c]]
    /\ \A c \in Callers : Sound(search[c])

LEMMA ToldType ==
    ASSUME NEW s \in Searches, NEW b \in Services, NEW a \in BOOLEAN
    PROVE  Told(s, b, a) \in Searches
<1> DEFINE mode == IF a THEN s.mode
                   ELSE IF b = "rerank" THEN [s.mode EXCEPT !.rerank = FALSE]
                   ELSE [s.mode EXCEPT !.vectors = FALSE]
<1>1. mode \in Modes
  BY DEF Searches, Modes
<1> DEFINE pc == IF mode.vectors THEN "embed" ELSE "merge"
<1>2. Told(s, b, a) = IF s.next < 3
                      THEN [s EXCEPT !.pc = "count", !.next = @ + 1, !.mode = mode,
                                     !.wasOpen = FALSE]
                      ELSE [s EXCEPT !.pc = pc, !.mode = mode, !.next = 1,
                                     !.wasOpen = FALSE]
  BY DEF Told
<1>5. pc \in {"embed", "merge"}
  OBVIOUS
<1> HIDE DEF mode, pc
<1>3. CASE s.next < 3
  <2>1. s.next \in 1 .. 3 /\ s.next + 1 \in 1 .. 3
    BY <1>3 DEF Searches
  <2>2. Told(s, b, a) = [s EXCEPT !.pc = "count", !.next = s.next + 1, !.mode = mode,
                                  !.wasOpen = FALSE]
    BY <1>2, <1>3 DEF Searches
  <2>3. "count" \in {"count", "time", "embed", "embedding", "synonyms", "semantic",
                     "querying", "merge", "rerank", "reranking", "record", "closing",
                     "opening", "answer"}
    OBVIOUS
  <2> QED
    BY <1>1, <2>1, <2>2, <2>3 DEF Searches
<1>4. CASE ~(s.next < 3)
  <2>1. 1 \in 1 .. 3
    OBVIOUS
  <2>2. Told(s, b, a) = [s EXCEPT !.pc = pc, !.mode = mode, !.next = 1, !.wasOpen = FALSE]
    BY <1>2, <1>4
  <2> QED
    BY <1>1, <1>5, <2>1, <2>2 DEF Searches
<1> QED
  BY <1>3, <1>4

LEMMA RecordingType ==
    ASSUME NEW s \in Searches, NEW o \in Seq(Outcomes), NEW t \in {"merge", "answer"}
    PROVE  Recording(s, o, t) \in Searches
  BY DEF Recording, Searches

LEMMA DegradedType ==
    ASSUME NEW s \in Searches
    PROVE  NoVectors(s) \in Searches /\ NoRerank(s) \in Searches
  BY DEF NoVectors, NoRerank, Searches, Modes

LEMMA AskedIsAService ==
    ASSUME NEW s \in Searches
    PROVE  Asked[s.next] \in Services
<1>1. s.next \in {1, 2, 3}
  BY DEF Searches
<1> QED
  BY <1>1 DEF Asked, Services

LEMMA OutcomesLeft ==
    ASSUME NEW s \in Searches, s.todo # <<>>
    PROVE  /\ Head(s.todo) \in Outcomes
           /\ Tail(s.todo) \in Seq(Outcomes)
           /\ Head(s.todo)[1] \in Services
<1>1. s.todo \in Seq(Outcomes)
  BY DEF Searches
<1>2. Head(s.todo) \in Outcomes /\ Tail(s.todo) \in Seq(Outcomes)
  BY <1>1
<1>4. Head(s.todo)[1] \in Services
  BY <1>2 DEF Outcomes
<1> QED
  BY <1>2, <1>4

LEMMA SearchIsTyped ==
    ASSUME SearchIsSound, NEW c \in Callers, search[c].pc # "idle"
    PROVE  search[c] \in Searches /\ Sound(search[c]) /\ search[c] # Idle
  BY DEF SearchIsSound, Sound, Idle

LEMMA IdleIsNotASearch == Idle \notin Searches /\ Idle.pc = "idle"
  BY DEF Idle, Searches

LEMMA GoesKeepsSound ==
    ASSUME SearchIsSound, NEW c \in Callers, NEW s, Sound(s), Goes(c, s)
    PROVE  SearchIsSound'
<1>1. search' = [d \in Callers |-> IF d = c THEN s ELSE search[d]]
  BY DEF Goes, SearchIsSound
<1>2. ASSUME NEW d \in Callers PROVE Sound(search'[d])
  BY <1>1 DEF SearchIsSound
<1>3. search' = [d \in Callers |-> search'[d]]
  BY <1>1
<1> QED
  BY <1>2, <1>3 DEF SearchIsSound, Sound, Honest, Holding, Vectored, Unranked, Ranked

------------------------------------------------------------------------------
(* Each action keeps the searches sound.                                    *)

LEMMA StartIsSound ==
    ASSUME SearchIsSound, NEW c \in Callers, Start(c)
    PROVE  SearchIsSound'
<1> DEFINE t == [pc |-> "count", next |-> 1, wasOpen |-> FALSE, mode |-> Full,
                wanted |-> FALSE, blank |-> FALSE, used |-> {}, holds |-> {},
                todo |-> <<>>, then |-> "merge"]
<1>1. /\ Full \in Modes /\ 1 \in 1 .. 3
      /\ <<>> \in Seq(Outcomes) /\ {} \in SUBSET Services
  BY DEF Full, Modes
<1>2. t \in Searches
  BY <1>1 DEF Searches
<1>3. t.pc = "count" /\ t.used = {} /\ t.holds = {}
  OBVIOUS
<1>4. Goes(c, t)
  BY DEF Start
<1> HIDE DEF t
<1>5. Sound(t)
  BY <1>2, <1>3 DEF Sound, Honest, Holding, Recorders, BeforeQuery, WithVectors,
       BeforeRerank, WithRerank, Unheld
<1> QED
  BY <1>4, <1>5, GoesKeepsSound

\* What asking a breaker changes, and what it leaves.
LEMMA ToldIsSound ==
    ASSUME NEW s \in Searches, Sound(s), s.pc \in {"count", "time"},
           NEW b \in Services, NEW a \in BOOLEAN
    PROVE  Sound(Told(s, b, a))
<1> DEFINE t == Told(s, b, a)
<1>1. t \in Searches
  BY ToldType
<1>2. s.used = {} /\ s.holds = {}
  BY IdleIsNotASearch DEF Sound, Honest, Holding, BeforeQuery, Unheld
<1>3. t.used = s.used /\ t.holds = s.holds
  BY DEF Told, Searches
<1>4. CASE s.next < 3
  <2>1. t.pc = "count"
    BY <1>4 DEF Told, Searches
  <2> HIDE DEF t
  <2>2. Sound(t)
    BY <1>1, <1>2, <1>3, <2>1 DEF Sound, Honest, Holding, Recorders, BeforeQuery,
         WithVectors, BeforeRerank, WithRerank, Unheld
  <2> QED
    BY <2>2 DEF t
<1>5. CASE ~(s.next < 3)
  <2>1. t.pc = IF t.mode.vectors THEN "embed" ELSE "merge"
    BY <1>5 DEF Told, Searches
  <2> HIDE DEF t
  <2>2. Sound(t)
    BY <1>1, <1>2, <1>3, <2>1 DEF Sound, Honest, Holding, Recorders, BeforeQuery,
         WithVectors, BeforeRerank, WithRerank, Unheld, Vectored, Unranked
  <2> QED
    BY <2>2 DEF t
<1> QED
  BY <1>4, <1>5

LEMMA LoadCountIsSound ==
    ASSUME SearchIsSound, NEW c \in Callers, LoadCount(c)
    PROVE  SearchIsSound'
<1> DEFINE s == search[c]
<1> DEFINE b == Asked[s.next]
<1>1. s \in Searches /\ Sound(s) /\ s # Idle /\ s.pc = "count"
  BY SearchIsTyped DEF LoadCount, At
<1>2. b \in Services
  BY <1>1, AskedIsAService
<1>3. CASE failures[b] < Threshold
  <2>1. Sound(Told(s, b, TRUE))
    BY <1>1, <1>2, ToldIsSound
  <2>2. Goes(c, Told(s, b, TRUE))
    BY <1>3 DEF LoadCount
  <2> QED
    BY <2>1, <2>2, GoesKeepsSound
<1>4. CASE ~(failures[b] < Threshold)
  <2> DEFINE o == StateOf(b) = "open"
  <2> DEFINE t == [s EXCEPT !.pc = "time", !.wasOpen = o]
  <2>1. Goes(c, t)
    BY <1>4 DEF LoadCount
  <2>2. o \in BOOLEAN
    OBVIOUS
  <2> HIDE DEF o
  <2>3. t \in Searches
    BY <1>1, <2>2 DEF Searches
  <2>4. t.pc = "time" /\ t.used = s.used /\ t.holds = s.holds
    BY <1>1 DEF Searches
  <2>5. s.used = {} /\ s.holds = {}
    BY <1>1 DEF Sound, Honest, Holding, BeforeQuery, Unheld
  <2> HIDE DEF t
  <2>6. Sound(t)
    BY <2>3, <2>4, <2>5 DEF Sound, Honest, Holding, Recorders, BeforeQuery,
         WithVectors, BeforeRerank, WithRerank, Unheld
  <2> QED
    BY <2>1, <2>6, GoesKeepsSound
<1> QED
  BY <1>3, <1>4

LEMMA LoadTimeIsSound ==
    ASSUME SearchIsSound, NEW c \in Callers, LoadTime(c)
    PROVE  SearchIsSound'
<1> DEFINE s == search[c]
<1> DEFINE b == Asked[s.next]
<1> DEFINE a == State(Threshold, opened[b]) # "open"
<1>1. s \in Searches /\ Sound(s) /\ s.pc = "time"
  BY SearchIsTyped DEF LoadTime, At
<1>2. b \in Services
  BY <1>1, AskedIsAService
<1>3. Sound(Told(s, b, a))
  BY <1>1, <1>2, ToldIsSound
<1>4. Goes(c, Told(s, b, a))
  BY DEF LoadTime
<1> QED
  BY <1>3, <1>4, GoesKeepsSound

\* The calls wait, are made and end.
LEMMA AcquireIsSound ==
    ASSUME SearchIsSound, NEW c \in Callers, WaitEmbed(c) \/ WaitQdrant(c) \/ WaitRerank(c)
    PROVE  SearchIsSound'
<1> DEFINE s == search[c]
<1>1. ASSUME NEW from, NEW to, NEW b \in Services, Acquire(c, from, to, b),
             <<from, to, b>> \in {<<"embed", "embedding", "embed">>,
                                  <<"semantic", "querying", "qdrant">>,
                                  <<"rerank", "reranking", "rerank">>}
      PROVE  SearchIsSound'
  <2> DEFINE t == [s EXCEPT !.pc = to, !.holds = s.holds \cup {b}]
  <2>1. s \in Searches /\ Sound(s) /\ s # Idle /\ s.pc = from
    BY <1>1, SearchIsTyped DEF Acquire, At
  <2>2. s.holds = {}
    BY <1>1, <2>1 DEF Sound, Holding, Unheld
  <2>3. Goes(c, t)
    BY <1>1, <2>1 DEF Acquire, Searches
  <2>4. t \in Searches
    BY <1>1, <2>1 DEF Searches
  <2>5. /\ t.pc = to /\ t.used = s.used /\ t.holds = {b}
        /\ t.mode = s.mode /\ t.wanted = s.wanted /\ t.blank = s.blank
    BY <2>1, <2>2 DEF Searches
  <2> HIDE DEF t
  <2>6. Honest(t)
    BY <1>1, <2>1, <2>5 DEF Sound, Honest, Recorders, BeforeQuery, WithVectors,
         BeforeRerank, WithRerank, Vectored, Unranked
  <2>7. Holding(t)
    BY <1>1, <2>5 DEF Holding, Unheld
  <2>8. t.pc \notin Recorders
    BY <1>1, <2>5 DEF Recorders
  <2>9. Sound(t)
    BY <2>4, <2>6, <2>7, <2>8 DEF Sound
  <2> QED
    BY <2>3, <2>9, GoesKeepsSound
<1>2. "embed" \in Services /\ "qdrant" \in Services /\ "rerank" \in Services
  BY DEF Services
<1>3. CASE WaitEmbed(c)
  BY <1>1, <1>2, <1>3 DEF WaitEmbed
<1>4. CASE WaitQdrant(c)
  BY <1>1, <1>2, <1>4 DEF WaitQdrant
<1>5. CASE WaitRerank(c)
  BY <1>1, <1>2, <1>5 DEF WaitRerank
<1> QED
  BY <1>3, <1>4, <1>5

LEMMA EmbedIsSound ==
    ASSUME SearchIsSound, NEW c \in Callers, NEW blank \in BOOLEAN, Embed(c, blank)
    PROVE  SearchIsSound'
<1> DEFINE s == search[c]
<1> DEFINE t == [s EXCEPT !.pc = "synonyms", !.blank = blank]
<1>1. s \in Searches /\ Sound(s) /\ s # Idle /\ s.pc = "embedding"
  BY SearchIsTyped DEF Embed, At
<1>2. Goes(c, t)
  BY DEF Embed
<1>3. t \in Searches
  BY <1>1 DEF Searches
<1>4. t.pc = "synonyms" /\ t.used = s.used /\ t.holds = s.holds /\ t.mode = s.mode
  BY <1>1 DEF Searches
<1> HIDE DEF t
<1>5. Sound(t)
  BY <1>1, <1>3, <1>4 DEF Sound, Honest, Holding, Recorders, BeforeQuery, WithVectors,
       BeforeRerank, WithRerank, Unheld
<1> QED
  BY <1>2, <1>5, GoesKeepsSound

\* Without a vector the search goes on to merge, and may keep its mode.
LEMMA ExpandIsSound ==
    ASSUME SearchIsSound, NEW c \in Callers, Expand(c)
    PROVE  SearchIsSound'
<1> DEFINE s == search[c]
<1> DEFINE pc == IF s.blank THEN "merge" ELSE "semantic"
<1> DEFINE t == [s EXCEPT !.pc = pc, !.holds = {}]
<1>1. s \in Searches /\ Sound(s) /\ s # Idle /\ s.pc = "synonyms"
  BY SearchIsTyped DEF Expand, At
<1>2. Goes(c, t)
  BY DEF Expand
<1>3. pc \in {"merge", "semantic"} /\ (pc = "merge" => s.blank)
  OBVIOUS
<1> HIDE DEF pc
<1>4. t \in Searches
  BY <1>1, <1>3 DEF Searches
<1>5. /\ t.pc = pc /\ t.used = s.used /\ t.holds = {} /\ t.mode = s.mode
      /\ t.blank = s.blank
  BY <1>1 DEF Searches
<1>6. s.used = {} /\ s.mode.vectors
  BY <1>1 DEF Sound, Honest, BeforeQuery, WithVectors
<1> HIDE DEF t
<1>7. Honest(t)
  BY <1>3, <1>5, <1>6 DEF Honest, Recorders, BeforeQuery, WithVectors,
       BeforeRerank, WithRerank, Vectored, Unranked
<1>8. Holding(t)
  BY <1>3, <1>5 DEF Holding
<1>9. t.pc \notin Recorders
  BY <1>3, <1>5 DEF Recorders
<1>10. Sound(t)
  BY <1>4, <1>7, <1>8, <1>9 DEF Sound
<1> QED
  BY <1>2, <1>10, GoesKeepsSound

\* A search that has an outcome to record, if it is honest about what comes then.
LEMMA RecordingIsSound ==
    ASSUME NEW s \in Searches, NEW o \in Seq(Outcomes), o # <<>>,
           NEW then \in {"merge", "answer"},
           Vectored(s),
           then = "merge" => Unranked(s),
           then = "answer" => Ranked(s)
    PROVE  Sound(Recording(s, o, then))
<1> DEFINE t == Recording(s, o, then)
<1>1. t \in Searches
  BY RecordingType
<1>2. /\ t.pc = "record" /\ t.todo = o /\ t.then = then
      /\ t.used = s.used /\ t.mode = s.mode /\ t.wanted = s.wanted
      /\ t.blank = s.blank
  BY DEF Recording, Searches
<1> HIDE DEF t
<1>3. Honest(t)
  BY <1>2 DEF Honest, Recorders, BeforeQuery, WithVectors, BeforeRerank, WithRerank,
       Vectored, Unranked, Ranked
<1>4. Holding(t)
  BY <1>2 DEF Holding, Unheld
<1>5. Sound(t)
  BY <1>1, <1>2, <1>3, <1>4 DEF Sound
<1> QED
  BY <1>5 DEF t

LEMMA FailureIsAnOutcome ==
    ASSUME NEW b \in Services, NEW a \in BOOLEAN
    PROVE  <<<<b, a>>>> \in Seq(Outcomes) /\ <<<<b, a>>>> # <<>>
<1>1. <<b, a>> \in Outcomes
  BY DEF Outcomes
<1> QED
  BY <1>1

LEMMA ExpandFailedIsSound ==
    ASSUME SearchIsSound, NEW c \in Callers, NEW b \in Services, ExpandFailed(c, b)
    PROVE  SearchIsSound'
<1> DEFINE s == search[c]
<1> DEFINE t == [NoVectors(s) EXCEPT !.holds = {}]
<1>1. s \in Searches /\ Sound(s) /\ s # Idle /\ s.pc \in {"embedding", "synonyms"}
  BY SearchIsTyped DEF ExpandFailed, At
<1>2. s.used = {}
  BY <1>1 DEF Sound, Honest, BeforeQuery
<1>3. NoVectors(s) \in Searches
  BY <1>1, DegradedType
<1>4. t \in Searches
  BY <1>3 DEF Searches
<1>5. ~t.mode.vectors /\ t.used = s.used
  BY <1>1 DEF Searches, Modes, NoVectors
<1>6. Goes(c, Recording(t, <<<<b, FALSE>>>>, "merge"))
  BY DEF ExpandFailed
<1> HIDE DEF t
<1>7. Vectored(t) /\ Unranked(t)
  BY <1>2, <1>5 DEF Vectored, Unranked
<1>8. Sound(Recording(t, <<<<b, FALSE>>>>, "merge"))
  BY <1>4, <1>7, FailureIsAnOutcome, RecordingIsSound
<1> QED
  BY <1>6, <1>8, GoesKeepsSound

LEMMA QueryIsSound ==
    ASSUME SearchIsSound, NEW c \in Callers, Query(c)
    PROVE  SearchIsSound'
<1> DEFINE s == search[c]
<1> DEFINE t == [s EXCEPT !.used = {"qdrant"}]
<1> DEFINE o == <<<<"embed", TRUE>>, <<"qdrant", TRUE>>>>
<1>1. s \in Searches /\ Sound(s) /\ s # Idle /\ s.pc = "querying"
  BY SearchIsTyped DEF Query, At
<1>2. s.mode.vectors
  BY <1>1 DEF Sound, Honest, WithVectors
<1>3. t \in Searches
  BY <1>1 DEF Searches, Services
<1>4. t.mode = s.mode /\ t.used = {"qdrant"}
  BY <1>1 DEF Searches
<1>5. Goes(c, Recording(t, o, "merge"))
  BY DEF Query
<1>6. o \in Seq(Outcomes) /\ o # <<>>
  <2>1. <<"embed", TRUE>> \in Outcomes /\ <<"qdrant", TRUE>> \in Outcomes
    BY DEF Outcomes, Services
  <2> QED
    BY <2>1
<1> HIDE DEF t, o
<1>7. Vectored(t) /\ Unranked(t)
  BY <1>2, <1>4 DEF Vectored, Unranked
<1>8. Sound(Recording(t, o, "merge"))
  BY <1>3, <1>6, <1>7, RecordingIsSound
<1> QED
  BY <1>5, <1>8, GoesKeepsSound

LEMMA QueryFailedIsSound ==
    ASSUME SearchIsSound, NEW c \in Callers, NEW b \in Services, QueryFailed(c, b)
    PROVE  SearchIsSound'
<1> DEFINE s == search[c]
<1> DEFINE t == NoVectors(s)
<1>1. s \in Searches /\ Sound(s) /\ s # Idle /\ s.pc = "querying"
  BY SearchIsTyped DEF QueryFailed, At
<1>2. s.used = {}
  BY <1>1 DEF Sound, Honest, BeforeQuery
<1>3. t \in Searches
  BY <1>1, DegradedType
<1>4. ~t.mode.vectors /\ t.used = s.used
  BY <1>1 DEF Searches, Modes, NoVectors
<1>5. Goes(c, Recording(t, <<<<b, FALSE>>>>, "merge"))
  BY DEF QueryFailed
<1> HIDE DEF t
<1>6. Vectored(t) /\ Unranked(t)
  BY <1>2, <1>4 DEF Vectored, Unranked
<1>7. Sound(Recording(t, <<<<b, FALSE>>>>, "merge"))
  BY <1>3, <1>6, FailureIsAnOutcome, RecordingIsSound
<1> QED
  BY <1>5, <1>7, GoesKeepsSound

LEMMA MergeIsSound ==
    ASSUME SearchIsSound, NEW c \in Callers, NEW w \in BOOLEAN, Merge(c, w)
    PROVE  SearchIsSound'
<1> DEFINE s == search[c]
<1> DEFINE pc == IF w /\ s.mode.rerank THEN "rerank" ELSE "answer"
<1> DEFINE t == [s EXCEPT !.pc = pc, !.wanted = w]
<1>1. s \in Searches /\ Sound(s) /\ s # Idle /\ s.pc = "merge"
  BY SearchIsTyped DEF Merge, At
<1>2. s.holds = {} /\ Vectored(s) /\ Unranked(s)
  BY <1>1 DEF Sound, Honest, Holding, Unheld, BeforeRerank
<1>3. Goes(c, t)
  BY DEF Merge
<1>4. pc \in {"rerank", "answer"}
  OBVIOUS
<1>5. pc = "rerank" <=> w /\ s.mode.rerank
  OBVIOUS
<1> HIDE DEF pc
<1>6. t \in Searches
  BY <1>1, <1>4 DEF Searches
<1>7. /\ t.pc = pc /\ t.wanted = w /\ t.mode = s.mode
      /\ t.used = s.used /\ t.holds = s.holds /\ t.blank = s.blank
  BY <1>1 DEF Searches
<1> HIDE DEF t
<1>8. Honest(t)
  BY <1>2, <1>4, <1>5, <1>7 DEF Honest, Recorders, BeforeQuery, WithVectors,
       BeforeRerank, WithRerank, Vectored, Unranked, Ranked
<1>9. Holding(t)
  BY <1>2, <1>4, <1>7 DEF Holding
<1>10. t.pc \notin Recorders
  BY <1>4, <1>7 DEF Recorders
<1>11. Sound(t)
  BY <1>6, <1>8, <1>9, <1>10 DEF Sound
<1> QED
  BY <1>3, <1>11, GoesKeepsSound

LEMMA RerankIsSound ==
    ASSUME SearchIsSound, NEW c \in Callers, Rerank(c) \/ RerankFailed(c)
    PROVE  SearchIsSound'
<1> DEFINE s == search[c]
<1>1. s \in Searches /\ Sound(s) /\ s # Idle /\ s.pc = "reranking"
  BY SearchIsTyped DEF Rerank, RerankFailed, At
<1>2. Vectored(s) /\ Unranked(s) /\ s.mode.rerank
  BY <1>1 DEF Sound, Honest, BeforeRerank, WithRerank
<1>3. CASE Rerank(c)
  <2> DEFINE t == [s EXCEPT !.used = s.used \cup {"rerank"}]
  <2>1. t \in Searches
    BY <1>1 DEF Searches, Services
  <2>2. t.mode = s.mode /\ t.used = s.used \cup {"rerank"} /\ t.blank = s.blank
    BY <1>1 DEF Searches
  <2>3. Goes(c, Recording(t, <<<<"rerank", TRUE>>>>, "answer"))
    BY <1>1, <1>3 DEF Rerank, Searches
  <2> HIDE DEF t
  <2>4. Vectored(t) /\ Ranked(t)
    BY <1>2, <2>2 DEF Vectored, Ranked
  <2>5. "rerank" \in Services
    BY DEF Services
  <2>6. Sound(Recording(t, <<<<"rerank", TRUE>>>>, "answer"))
    BY <2>1, <2>4, <2>5, FailureIsAnOutcome, RecordingIsSound
  <2> QED
    BY <2>3, <2>6, GoesKeepsSound
<1>4. CASE RerankFailed(c)
  <2> DEFINE t == NoRerank(s)
  <2>1. t \in Searches
    BY <1>1, DegradedType
  <2>2. /\ ~t.mode.rerank /\ t.mode.vectors = s.mode.vectors
        /\ t.used = s.used /\ t.blank = s.blank
    BY <1>1 DEF NoRerank, Searches, Modes
  <2>3. Goes(c, Recording(t, <<<<"rerank", FALSE>>>>, "answer"))
    BY <1>4 DEF RerankFailed
  <2> HIDE DEF t
  <2>4. Vectored(t) /\ Ranked(t)
    BY <1>2, <2>2 DEF Vectored, Ranked, Unranked
  <2>5. "rerank" \in Services
    BY DEF Services
  <2>6. Sound(Recording(t, <<<<"rerank", FALSE>>>>, "answer"))
    BY <2>1, <2>4, <2>5, FailureIsAnOutcome, RecordingIsSound
  <2> QED
    BY <2>3, <2>6, GoesKeepsSound
<1> QED
  BY <1>3, <1>4

\* What a search that records is honest about holds when it has recorded.
LEMMA LastIsSound ==
    ASSUME NEW s \in Searches, Sound(s), s.pc \in Recorders
    PROVE  Sound([s EXCEPT !.pc = s.then, !.todo = <<>>, !.holds = {}, !.then = "merge"])
<1> DEFINE t == [s EXCEPT !.pc = s.then, !.todo = <<>>, !.holds = {}, !.then = "merge"]
<1>1. /\ <<>> \in Seq(Outcomes) /\ {} \in SUBSET Services
      /\ s.then \in {"merge", "answer"}
  BY DEF Searches
<1>2. t \in Searches
  BY <1>1 DEF Searches
<1>3. /\ t.pc = s.then /\ t.holds = {} /\ t.mode = s.mode
      /\ t.used = s.used /\ t.wanted = s.wanted /\ t.blank = s.blank
  BY DEF Searches
<1>4. Honest(s)
  BY IdleIsNotASearch DEF Sound
<1> HIDE DEF t
<1>5. Honest(t)
  BY <1>1, <1>3, <1>4 DEF Honest, Recorders, BeforeQuery, WithVectors,
       BeforeRerank, WithRerank, Vectored, Unranked, Ranked
<1>6. Holding(t)
  BY <1>1, <1>3 DEF Holding
<1>7. t.pc \notin Recorders
  BY <1>1, <1>3 DEF Recorders
<1>8. Sound(t)
  BY <1>2, <1>5, <1>6, <1>7 DEF Sound
<1> QED
  BY <1>8 DEF t

\* A search that goes on recording.
LEMMA MoreIsSound ==
    ASSUME NEW s \in Searches, Sound(s), s.pc \in Recorders,
           NEW pc \in Recorders, NEW o \in Seq(Outcomes), o # <<>>
    PROVE  Sound([s EXCEPT !.pc = pc, !.todo = o])
<1> DEFINE t == [s EXCEPT !.pc = pc, !.todo = o]
<1>1. t \in Searches
  BY DEF Searches, Recorders
<1>2. /\ t.pc = pc /\ t.todo = o /\ t.then = s.then /\ t.mode = s.mode
      /\ t.used = s.used /\ t.wanted = s.wanted /\ t.blank = s.blank
  BY DEF Searches
<1>3. Honest(s)
  BY IdleIsNotASearch DEF Sound
<1> HIDE DEF t
<1>4. Honest(t)
  BY <1>2, <1>3 DEF Honest, Recorders, BeforeQuery, WithVectors,
       BeforeRerank, WithRerank, Vectored, Unranked, Ranked
<1>5. Holding(t)
  BY <1>2 DEF Holding, Recorders, Unheld
<1>6. Sound(t)
  BY <1>1, <1>2, <1>4, <1>5 DEF Sound
<1> QED
  BY <1>6 DEF t

LEMMA RecorderIsTyped ==
    ASSUME SearchIsSound, NEW c \in Callers, search[c].pc \in Recorders
    PROVE  /\ search[c] \in Searches /\ Sound(search[c]) /\ search[c] # Idle
           /\ search[c].todo \in Seq(Outcomes) /\ search[c].todo # <<>>
           /\ Head(search[c].todo) \in Outcomes
           /\ Tail(search[c].todo) \in Seq(Outcomes)
           /\ Head(search[c].todo)[1] \in Services
<1>1. search[c].pc # "idle"
  BY DEF Recorders
<1>2. search[c] \in Searches /\ Sound(search[c]) /\ search[c] # Idle
  BY <1>1, SearchIsTyped
<1>3. search[c].todo # <<>> /\ search[c].todo \in Seq(Outcomes)
  BY <1>2 DEF Sound, Searches
<1> QED
  BY <1>2, <1>3, OutcomesLeft

LEMMA SettledIsSound ==
    ASSUME SearchIsSound, NEW c \in Callers, search[c].pc \in Recorders, Settled(c)
    PROVE  SearchIsSound'
<1> DEFINE s == search[c]
<1> DEFINE more == [s EXCEPT !.pc = "record", !.todo = Tail(s.todo)]
<1> DEFINE last == [s EXCEPT !.pc = s.then, !.todo = <<>>, !.holds = {}, !.then = "merge"]
<1>1. s \in Searches /\ Sound(s) /\ Tail(s.todo) \in Seq(Outcomes)
  BY RecorderIsTyped
<1>2. IF Tail(s.todo) # <<>> THEN Goes(c, more) ELSE Goes(c, last)
  BY <1>1 DEF Settled, Searches
<1>3. Sound(last)
  BY <1>1, LastIsSound
<1>4. "record" \in Recorders
  BY DEF Recorders
<1>5. ASSUME Tail(s.todo) # <<>> PROVE Sound(more)
  BY <1>1, <1>4, <1>5, MoreIsSound
<1> HIDE DEF more, last
<1> QED
  BY <1>2, <1>3, <1>5, GoesKeepsSound

\* A search that takes a lock keeps what it has to record.
LEMMA LockedIsSound ==
    ASSUME SearchIsSound, NEW c \in Callers, search[c].pc = "record",
           NEW pc \in {"closing", "opening"}, Goes(c, [search[c] EXCEPT !.pc = pc])
    PROVE  SearchIsSound'
<1> DEFINE s == search[c]
<1> DEFINE t == [s EXCEPT !.pc = pc, !.todo = s.todo]
<1>1. /\ s \in Searches /\ Sound(s) /\ s.todo \in Seq(Outcomes) /\ s.todo # <<>>
      /\ s.pc \in Recorders /\ pc \in Recorders
  BY RecorderIsTyped DEF Recorders
<1>2. Sound(t)
  BY <1>1, MoreIsSound
<1>3. t = [s EXCEPT !.pc = pc]
  BY <1>1 DEF Searches
<1> HIDE DEF t
<1> QED
  BY <1>2, <1>3, GoesKeepsSound

LEMMA RecordIsSound ==
    ASSUME SearchIsSound, NEW c \in Callers,
           RecordSuccess(c) \/ RecordFailure(c) \/ CloseBreaker(c)
    PROVE  SearchIsSound'
<1>1. CASE RecordSuccess(c)
  BY <1>1, LockedIsSound DEF RecordSuccess, At
<1>2. CASE RecordFailure(c)
  <2>1. search[c].pc = "record" /\ search[c].pc \in Recorders
    BY <1>2 DEF RecordFailure, At, Recorders
  <2>2. CASE Goes(c, [search[c] EXCEPT !.pc = "opening"])
    BY <2>1, <2>2, LockedIsSound
  <2>3. CASE Settled(c)
    BY <2>1, <2>3, SettledIsSound
  <2> QED
    BY <1>2, <2>2, <2>3 DEF RecordFailure
<1>3. CASE CloseBreaker(c)
  <2>1. search[c].pc \in Recorders
    BY <1>3 DEF CloseBreaker, At, Recorders
  <2> QED
    BY <1>3, <2>1, SettledIsSound DEF CloseBreaker
<1> QED
  BY <1>1, <1>2, <1>3

LEMMA OpenBreakerIsSound ==
    ASSUME SearchIsSound, NEW c \in Callers, OpenBreaker(c)
    PROVE  SearchIsSound'
<1> DEFINE s == search[c]
<1> DEFINE last == [s EXCEPT !.pc = s.then, !.todo = <<>>, !.holds = {}, !.then = "merge"]
<1> DEFINE seen(k) == [search[k] EXCEPT !.wasOpen = TRUE]
<1>1. s.pc \in Recorders
  BY DEF OpenBreaker, At, Recorders
<1>2. Sound(last)
  BY <1>1, RecorderIsTyped, LastIsSound
<1>3. ASSUME NEW k \in Callers, At(k, "time") PROVE Sound(seen(k))
  <2>1. search[k] \in Searches /\ Sound(search[k]) /\ search[k] # Idle
    BY <1>3, SearchIsTyped DEF At
  <2>2. seen(k) \in Searches
    BY <2>1 DEF Searches
  <2>3. /\ seen(k).pc = search[k].pc /\ seen(k).todo = search[k].todo
        /\ seen(k).used = search[k].used /\ seen(k).holds = search[k].holds
        /\ seen(k).then = search[k].then /\ seen(k).mode = search[k].mode
        /\ seen(k).wanted = search[k].wanted /\ seen(k).blank = search[k].blank
    BY <2>1 DEF Searches
  <2> HIDE DEF seen
  <2> QED
    BY <2>1, <2>2, <2>3 DEF Sound, Honest, Holding, Vectored, Unranked, Ranked
<1>4. search' = [k \in Callers |->
              IF k = c THEN last
              ELSE IF At(k, "time") /\ Asked[search[k].next] = Head(s.todo)[1]
              THEN seen(k) ELSE search[k]]
  BY DEF OpenBreaker
<1>5. ASSUME NEW k \in Callers PROVE Sound(search[k])
  BY DEF SearchIsSound
<1> HIDE DEF last, seen
<1>6. ASSUME NEW k \in Callers PROVE Sound(search'[k])
  BY <1>2, <1>3, <1>4, <1>5
<1>7. search' = [k \in Callers |-> search'[k]]
  BY <1>4
<1> QED
  BY <1>6, <1>7 DEF SearchIsSound, Sound, Honest, Holding, Vectored, Unranked, Ranked

LEMMA EndIsSound ==
    ASSUME SearchIsSound, NEW c \in Callers, Answer(c) \/ Abandon(c)
    PROVE  SearchIsSound'
<1>1. Sound(Idle)
  BY DEF Sound
<1>2. Goes(c, Idle)
  BY DEF Answer, Abandon
<1> QED
  BY <1>1, <1>2, GoesKeepsSound

LEMMA SearchStaysSound ==
    ASSUME SearchIsSound, [Next]_vars
    PROVE  SearchIsSound'
<1>1. ASSUME NEW c \in Callers, Step(c) PROVE SearchIsSound'
  BY <1>1, StartIsSound, LoadCountIsSound, LoadTimeIsSound, AcquireIsSound, EmbedIsSound,
     ExpandIsSound, QueryIsSound, MergeIsSound, RerankIsSound, RecordIsSound, OpenBreakerIsSound,
     EndIsSound DEF Step
<1>2. ASSUME NEW c \in Callers, Disturb(c) PROVE SearchIsSound'
  <2>1. {"embed", "qdrant"} \subseteq Services
    BY DEF Services
  <2> QED
    BY <1>2, <2>1, EmbedIsSound, MergeIsSound, ExpandFailedIsSound, QueryFailedIsSound,
       RerankIsSound, EndIsSound DEF Disturb
<1>3. CASE search' = search
  BY <1>3 DEF SearchIsSound, Sound, Honest, Holding, Vectored, Unranked, Ranked
<1> QED
  BY <1>1, <1>2, <1>3 DEF Next, vars, Timeout

------------------------------------------------------------------------------
(* The breakers.                                                            *)

\* The breaker whose outcome a search records.
Aims(c) == Head(search[c].todo)[1]

\* Who has made the first of the two writes has the lock, and what it wrote stays.
LocksAreHeld ==
    \A c \in Callers :
        /\ At(c, "closing") => lock[Aims(c)] = c /\ failures[Aims(c)] = 0
        /\ At(c, "opening") => /\ lock[Aims(c)] = c /\ opened[Aims(c)] = "no"
                               /\ failures[Aims(c)] = Threshold

\* Who has read the count and waits to read the time has seen the breaker open, if
\* it has opened lately.
OpeningsAreSeen ==
    \A c \in Callers :
        At(c, "time") /\ opened[Asked[search[c].next]] = "recent" => search[c].wasOpen

BreakerInv == BreakerTypeOK /\ LocksAreHeld /\ BreakersAgree /\ OpeningsAreSeen

\* The steps that leave the breakers alone: only c moves, and not to a step that
\* holds a lock.
LEMMA QuietKeepsBreakers ==
    ASSUME SearchIsSound, BreakerInv, UNCHANGED breakerVars,
           NEW c \in Callers, NEW t, Goes(c, t),
           t.pc \notin {"closing", "opening", "time"}
    PROVE  BreakerInv'
<1>1. \A k \in Callers : search'[k] = IF k = c THEN t ELSE search[k]
  BY DEF Goes, SearchIsSound
<1>2. LocksAreHeld'
  BY <1>1 DEF BreakerInv, LocksAreHeld, At, Aims, breakerVars
<1>3. OpeningsAreSeen'
  BY <1>1 DEF BreakerInv, OpeningsAreSeen, At, breakerVars
<1> QED
  BY <1>2, <1>3 DEF BreakerInv, BreakersAgree, BreakerTypeOK, breakerVars

LEMMA ModeKeepsBreakers ==
    ASSUME SearchIsSound, BreakerInv, NEW c \in Callers, LoadCount(c) \/ LoadTime(c)
    PROVE  BreakerInv'
<1> DEFINE s == search[c]
<1> DEFINE b == Asked[s.next]
<1>1. s \in Searches /\ b \in Services /\ UNCHANGED breakerVars
  BY SearchIsTyped, AskedIsAService DEF LoadCount, LoadTime, At
<1>2. ASSUME NEW a \in BOOLEAN PROVE Told(s, b, a).pc \in {"count", "embed", "merge"}
  BY <1>1 DEF Told, Searches
<1>3. CASE LoadTime(c)
  <2>1. Goes(c, Told(s, b, State(Threshold, opened[b]) # "open"))
    BY <1>3 DEF LoadTime
  <2> QED
    BY <1>1, <1>2, <2>1, QuietKeepsBreakers
<1>4. CASE LoadCount(c) /\ failures[b] < Threshold
  <2>1. Goes(c, Told(s, b, TRUE))
    BY <1>4 DEF LoadCount
  <2> QED
    BY <1>1, <1>2, <2>1, QuietKeepsBreakers
<1>5. CASE LoadCount(c) /\ ~(failures[b] < Threshold)
  <2> DEFINE o == StateOf(b) = "open"
  <2> DEFINE t == [s EXCEPT !.pc = "time", !.wasOpen = o]
  <2>1. Goes(c, t)
    BY <1>5 DEF LoadCount
  <2>2. t.pc = "time" /\ t.next = s.next /\ t.wasOpen = o
    BY <1>1 DEF Searches
  <2>3. opened[b] = "recent" => o
    BY <1>5 DEF StateOf, State
  <2> HIDE DEF t, o
  <2>4. \A k \in Callers : search'[k] = IF k = c THEN t ELSE search[k]
    BY <2>1 DEF Goes, SearchIsSound
  <2>5. LocksAreHeld'
    BY <1>1, <2>2, <2>4 DEF BreakerInv, LocksAreHeld, At, Aims, breakerVars
  <2>6. OpeningsAreSeen'
    BY <1>1, <2>2, <2>3, <2>4 DEF BreakerInv, OpeningsAreSeen, At, breakerVars
  <2> QED
    BY <1>1, <2>5, <2>6 DEF BreakerInv, BreakersAgree, BreakerTypeOK, breakerVars
<1> QED
  BY <1>3, <1>4, <1>5 DEF LoadCount

LEMMA CallsKeepBreakers ==
    ASSUME SearchIsSound, BreakerInv, NEW c \in Callers,
           \/ Start(c) \/ \E w \in BOOLEAN : Embed(c, w) \/ Merge(c, w)
           \/ WaitEmbed(c) \/ WaitQdrant(c) \/ WaitRerank(c)
           \/ Expand(c) \/ Query(c) \/ Rerank(c) \/ RerankFailed(c)
           \/ \E b \in Services : ExpandFailed(c, b) \/ QueryFailed(c, b)
           \/ Answer(c) \/ Abandon(c)
    PROVE  BreakerInv'
<1> DEFINE s == search[c]
<1> DEFINE quiet == {"count", "embedding", "synonyms", "querying", "reranking", "semantic",
                     "merge", "record", "rerank", "answer", "idle"}
<1>1. ASSUME NEW t, Goes(c, t), UNCHANGED breakerVars, t.pc \in quiet PROVE BreakerInv'
  BY <1>1, QuietKeepsBreakers
<1>2. s.pc # "idle" => s \in Searches
  BY SearchIsTyped
<1>3. ASSUME NEW t \in Searches, NEW o, NEW then PROVE Recording(t, o, then).pc = "record"
  BY DEF Recording, Searches
<1>4. CASE Start(c)
  BY <1>1, <1>4 DEF Start
<1>5. ASSUME NEW w \in BOOLEAN, Merge(c, w) PROVE BreakerInv'
  <2> DEFINE t == [s EXCEPT !.pc = IF w /\ s.mode.rerank THEN "rerank" ELSE "answer",
                            !.wanted = w]
  <2>1. Goes(c, t) /\ UNCHANGED breakerVars /\ s \in Searches
    BY <1>2, <1>5 DEF Merge, At
  <2>2. t.pc \in quiet
    BY <2>1 DEF Searches
  <2> HIDE DEF t
  <2> QED
    BY <1>1, <2>1, <2>2
<1>6. ASSUME NEW from, NEW to \in {"embedding", "querying", "reranking"}, NEW b,
             from # "idle", Acquire(c, from, to, b)
      PROVE  BreakerInv'
  <2> DEFINE t == [s EXCEPT !.pc = to, !.holds = s.holds \cup {b}]
  <2>1. UNCHANGED breakerVars /\ s \in Searches
    BY <1>2, <1>6 DEF Acquire, At
  <2>2. Goes(c, t)
    BY <1>6, <2>1 DEF Acquire, Searches
  <2>3. t.pc \in quiet
    BY <2>1 DEF Searches
  <2> HIDE DEF t
  <2> QED
    BY <1>1, <2>1, <2>2, <2>3
<1>7. CASE WaitEmbed(c) \/ WaitQdrant(c) \/ WaitRerank(c)
  BY <1>6, <1>7 DEF WaitEmbed, WaitQdrant, WaitRerank
<1>15. ASSUME NEW w \in BOOLEAN, Embed(c, w) PROVE BreakerInv'
  <2> DEFINE t == [s EXCEPT !.pc = "synonyms", !.blank = w]
  <2>1. Goes(c, t) /\ UNCHANGED breakerVars /\ s \in Searches
    BY <1>2, <1>15 DEF Embed, At
  <2>2. t.pc \in quiet
    BY <2>1 DEF Searches
  <2> HIDE DEF t
  <2> QED
    BY <1>1, <2>1, <2>2
<1>8. CASE Expand(c)
  <2> DEFINE t == [s EXCEPT !.pc = IF s.blank THEN "merge" ELSE "semantic", !.holds = {}]
  <2>1. Goes(c, t) /\ UNCHANGED breakerVars /\ s \in Searches
    BY <1>2, <1>8 DEF Expand, At
  <2>2. t.pc \in quiet
    BY <2>1 DEF Searches
  <2> HIDE DEF t
  <2> QED
    BY <1>1, <2>1, <2>2
<1>9. ASSUME NEW t \in Searches, NEW o, NEW then, Goes(c, Recording(t, o, then)),
             UNCHANGED breakerVars
      PROVE  BreakerInv'
  BY <1>1, <1>3, <1>9
<1>10. CASE Query(c) \/ Rerank(c)
  <2>1. s \in Searches /\ UNCHANGED breakerVars
    BY <1>2, <1>10 DEF Query, Rerank, At
  <2>2. ASSUME NEW u \in SUBSET Services PROVE [s EXCEPT !.used = u] \in Searches
    BY <2>1 DEF Searches
  <2>3. {"qdrant"} \in SUBSET Services /\ s.used \cup {"rerank"} \in SUBSET Services
    BY <2>1 DEF Searches, Services
  <2>4. CASE Query(c)
    <3>1. Goes(c, Recording([s EXCEPT !.used = {"qdrant"}],
                            <<<<"embed", TRUE>>, <<"qdrant", TRUE>>>>, "merge"))
      BY <2>4 DEF Query
    <3> QED
      BY <1>9, <2>1, <2>2, <2>3, <3>1
  <2>5. CASE Rerank(c)
    <3>1. Goes(c, Recording([s EXCEPT !.used = s.used \cup {"rerank"}],
                            <<<<"rerank", TRUE>>>>, "answer"))
      BY <2>1, <2>5 DEF Rerank, Searches
    <3> QED
      BY <1>9, <2>1, <2>2, <2>3, <3>1
  <2> QED
    BY <1>10, <2>4, <2>5
<1>11. CASE RerankFailed(c)
  <2>1. NoRerank(s) \in Searches /\ UNCHANGED breakerVars
    BY <1>2, <1>11, DegradedType DEF RerankFailed, At
  <2> QED
    BY <1>9, <1>11, <2>1 DEF RerankFailed
<1>12. ASSUME NEW b \in Services, ExpandFailed(c, b) PROVE BreakerInv'
  <2>1. NoVectors(s) \in Searches /\ UNCHANGED breakerVars
    BY <1>2, <1>12, DegradedType DEF ExpandFailed, At
  <2>2. [NoVectors(s) EXCEPT !.holds = {}] \in Searches
    BY <2>1 DEF Searches
  <2>3. Goes(c, Recording([NoVectors(s) EXCEPT !.holds = {}], <<<<b, FALSE>>>>, "merge"))
    BY <1>12 DEF ExpandFailed
  <2> QED
    BY <1>9, <2>1, <2>2, <2>3
<1>13. ASSUME NEW b \in Services, QueryFailed(c, b) PROVE BreakerInv'
  <2>1. NoVectors(s) \in Searches /\ UNCHANGED breakerVars
    BY <1>2, <1>13, DegradedType DEF QueryFailed, At
  <2> QED
    BY <1>9, <1>13, <2>1 DEF QueryFailed
<1>14. CASE Answer(c) \/ Abandon(c)
  BY <1>1, <1>14 DEF Answer, Abandon, Idle
<1> QED
  BY <1>4, <1>5, <1>7, <1>8, <1>10, <1>11, <1>12, <1>13, <1>14, <1>15

\* The first outcome is recorded: the search holds no lock afterwards, no other moves.
LEMMA SettledLeavesLocks ==
    ASSUME SearchIsSound, NEW c \in Callers, search[c].pc \in Recorders, Settled(c)
    PROVE  /\ search'[c].pc \notin {"closing", "opening", "time"}
           /\ \A k \in Callers \ {c} : search'[k] = search[k]
<1> DEFINE s == search[c]
<1> DEFINE more == [s EXCEPT !.pc = "record", !.todo = Tail(s.todo)]
<1> DEFINE last == [s EXCEPT !.pc = s.then, !.todo = <<>>, !.holds = {}, !.then = "merge"]
<1>1. s \in Searches
  BY RecorderIsTyped
<1>2. IF Tail(s.todo) # <<>> THEN Goes(c, more) ELSE Goes(c, last)
  BY <1>1 DEF Settled, Searches
<1>3. more.pc = "record" /\ last.pc \in {"merge", "answer"}
  BY <1>1 DEF Searches
<1> HIDE DEF more, last
<1>4. ASSUME NEW t, Goes(c, t), t.pc \in {"record", "merge", "answer"}
      PROVE  /\ search'[c].pc \notin {"closing", "opening", "time"}
             /\ \A k \in Callers \ {c} : search'[k] = search[k]
  BY <1>4 DEF Goes, SearchIsSound
<1> QED
  BY <1>2, <1>3, <1>4

LEMMA RecordSuccessKeepsBreakers ==
    ASSUME SearchIsSound, BreakerInv, NEW c \in Callers, RecordSuccess(c)
    PROVE  BreakerInv'
<1> DEFINE s == search[c]
<1> DEFINE b == Head(s.todo)[1]
<1> DEFINE t == [s EXCEPT !.pc = "closing"]
<1>1. s \in Searches /\ b \in Breakers
  BY RecorderIsTyped, PermitsAssumption DEF RecordSuccess, At, Recorders
<1>2. Goes(c, t) /\ lock[b] = Nobody
      /\ failures' = [failures EXCEPT ![b] = 0] /\ lock' = [lock EXCEPT ![b] = c]
      /\ opened' = opened
  BY DEF RecordSuccess, SwapFailures
<1>3. t.pc = "closing" /\ t.todo = s.todo
  BY <1>1 DEF Searches
<1> HIDE DEF t
<1>4. \A k \in Callers : search'[k] = IF k = c THEN t ELSE search[k]
  BY <1>2 DEF Goes, SearchIsSound
<1>5. c # Nobody /\ \A k \in Callers : k # Nobody
  BY BreakerAssumption
<1>6. BreakerTypeOK'
  BY <1>1, <1>2, BreakerAssumption DEF BreakerInv, BreakerTypeOK
<1>7. \A d \in Breakers : /\ failures'[d] = IF d = b THEN 0 ELSE failures[d]
                          /\ lock'[d] = IF d = b THEN c ELSE lock[d]
  BY <1>2 DEF BreakerInv, BreakerTypeOK
<1>8. LocksAreHeld'
  <2>1. ASSUME NEW k \in Callers, k # c, search[k].pc \in {"closing", "opening"}
        PROVE  Aims(k) \in Breakers /\ Aims(k) # b
    <3>1. Aims(k) \in Breakers
      BY <2>1, RecorderIsTyped, PermitsAssumption DEF Recorders, Aims
    <3>2. lock[Aims(k)] = k
      BY <2>1 DEF BreakerInv, LocksAreHeld, At
    <3> QED
      BY <1>2, <1>5, <3>1, <3>2
  <2>2. Aims(c)' = b
    BY <1>3, <1>4 DEF Aims
  <2>3. ASSUME NEW k \in Callers, k # c PROVE Aims(k)' = Aims(k) /\ search'[k] = search[k]
    BY <1>4, <2>3 DEF Aims
  <2> QED
    BY <1>1, <1>2, <1>3, <1>4, <1>7, <2>1, <2>2, <2>3 DEF BreakerInv, LocksAreHeld, At
<1>9. BreakersAgree'
  BY <1>2, <1>5, <1>7 DEF BreakerInv, BreakersAgree
<1>10. OpeningsAreSeen'
  BY <1>2, <1>3, <1>4 DEF BreakerInv, OpeningsAreSeen, At
<1> QED
  BY <1>6, <1>8, <1>9, <1>10 DEF BreakerInv

LEMMA RecordFailureKeepsBreakers ==
    ASSUME SearchIsSound, BreakerInv, NEW c \in Callers, RecordFailure(c)
    PROVE  BreakerInv'
<1> DEFINE s == search[c]
<1> DEFINE b == Head(s.todo)[1]
<1>1. s \in Searches /\ b \in Breakers /\ s.pc \in Recorders
  BY RecorderIsTyped, PermitsAssumption DEF RecordFailure, At, Recorders
<1>2. /\ lock[b] = Nobody /\ opened' = opened
      /\ failures' = [failures EXCEPT ![b] = IF failures[b] > Threshold THEN failures[b]
                                             ELSE failures[b] + 1]
      /\ lock' = IF failures[b] + 1 = Threshold THEN [lock EXCEPT ![b] = c] ELSE lock
  BY DEF RecordFailure, AddFailure, BreakerInv, BreakerTypeOK
<1>3. /\ failures \in [Breakers -> 0 .. Threshold + 1] /\ Threshold \in Nat \ {0}
      /\ lock \in [Breakers -> Callers \cup {Nobody}]
      /\ opened \in [Breakers -> {"no", "recent", "old"}]
  BY BreakerAssumption DEF BreakerInv, BreakerTypeOK
<1>4. failures[b] \in Nat /\ failures[b] <= Threshold + 1
  BY <1>1, <1>3
<1> DEFINE n == IF failures[b] > Threshold THEN failures[b] ELSE failures[b] + 1
<1>5. n \in 0 .. Threshold + 1
  BY <1>3, <1>4
<1>6. /\ n >= Threshold <=> (failures[b] >= Threshold \/ failures[b] + 1 = Threshold)
      /\ failures[b] + 1 = Threshold => n = Threshold /\ ~(failures[b] >= Threshold)
  BY <1>3, <1>4
<1>7. failures' = [failures EXCEPT ![b] = n]
  BY <1>2
<1> HIDE DEF n
<1>8. \A d \in Breakers : failures'[d] = IF d = b THEN n ELSE failures[d]
  BY <1>3, <1>7
<1>9. BreakerTypeOK'
  BY <1>2, <1>3, <1>5, <1>7 DEF BreakerTypeOK
<1>10. \A k \in Callers : k # Nobody
  BY BreakerAssumption
<1>11. failures[b] >= Threshold <=> opened[b] # "no"
  BY <1>1, <1>2 DEF BreakerInv, BreakersAgree
<1>12. ASSUME NEW k \in Callers, search[k].pc \in {"closing", "opening"}
       PROVE  Aims(k) \in Breakers /\ Aims(k) # b
  <2>1. Aims(k) \in Breakers
    BY <1>12, RecorderIsTyped, PermitsAssumption DEF Recorders, Aims
  <2>2. lock[Aims(k)] = k
    BY <1>12 DEF BreakerInv, LocksAreHeld, At
  <2> QED
    BY <1>2, <1>10, <2>1, <2>2
<1>13. CASE failures[b] + 1 = Threshold
  <2> DEFINE t == [s EXCEPT !.pc = "opening"]
  <2>1. Goes(c, t)
    BY <1>13 DEF RecordFailure
  <2>2. t.pc = "opening" /\ t.todo = s.todo
    BY <1>1 DEF Searches
  <2> HIDE DEF t
  <2>3. \A k \in Callers : search'[k] = IF k = c THEN t ELSE search[k]
    BY <2>1 DEF Goes, SearchIsSound
  <2>4. \A d \in Breakers : lock'[d] = IF d = b THEN c ELSE lock[d]
    BY <1>2, <1>3, <1>13
  <2>5. LocksAreHeld'
    <3>1. Aims(c)' = b
      BY <2>2, <2>3 DEF Aims
    <3>2. ASSUME NEW k \in Callers, k # c PROVE Aims(k)' = Aims(k) /\ search'[k] = search[k]
      BY <2>3, <3>2 DEF Aims
    <3>3. failures'[b] = Threshold /\ opened'[b] = "no" /\ lock'[b] = c
      BY <1>1, <1>2, <1>6, <1>8, <1>11, <1>13, <2>4
    <3>4. ASSUME NEW k \in Callers, k # c
          PROVE  /\ At(k, "closing")' => lock'[Aims(k)'] = k /\ failures'[Aims(k)'] = 0
                 /\ At(k, "opening")' => /\ lock'[Aims(k)'] = k /\ opened'[Aims(k)'] = "no"
                                         /\ failures'[Aims(k)'] = Threshold
      BY <1>2, <1>8, <1>12, <2>4, <3>2, <3>4 DEF BreakerInv, LocksAreHeld, At
    <3> QED
      BY <2>2, <2>3, <3>1, <3>3, <3>4 DEF LocksAreHeld, At
  <2>6. BreakersAgree'
    BY <1>2, <1>8, <1>10, <2>4 DEF BreakerInv, BreakersAgree
  <2>7. OpeningsAreSeen'
    BY <1>2, <2>2, <2>3 DEF BreakerInv, OpeningsAreSeen, At
  <2> QED
    BY <1>9, <2>5, <2>6, <2>7 DEF BreakerInv
<1>14. CASE ~(failures[b] + 1 = Threshold)
  <2>1. Settled(c) /\ lock' = lock
    BY <1>2, <1>14 DEF RecordFailure
  <2>2. /\ search'[c].pc \notin {"closing", "opening", "time"}
        /\ \A k \in Callers \ {c} : search'[k] = search[k]
    BY <1>1, <2>1, SettledLeavesLocks
  <2>3. LocksAreHeld'
    <3>1. ASSUME NEW k \in Callers, k # c PROVE Aims(k)' = Aims(k) /\ search'[k] = search[k]
      BY <2>2, <3>1 DEF Aims
    <3> QED
      BY <1>2, <1>8, <1>12, <2>1, <2>2, <3>1 DEF BreakerInv, LocksAreHeld, At
  <2>4. BreakersAgree'
    BY <1>2, <1>6, <1>8, <1>14, <2>1 DEF BreakerInv, BreakersAgree
  <2>5. OpeningsAreSeen'
    BY <1>2, <2>2 DEF BreakerInv, OpeningsAreSeen, At
  <2> QED
    BY <1>9, <2>3, <2>4, <2>5 DEF BreakerInv
<1> QED
  BY <1>13, <1>14

LEMMA CloseKeepsBreakers ==
    ASSUME SearchIsSound, BreakerInv, NEW c \in Callers, CloseBreaker(c)
    PROVE  BreakerInv'
<1> DEFINE b == Aims(c)
<1>1. b \in Breakers /\ search[c].pc \in Recorders /\ At(c, "closing")
  BY RecorderIsTyped, PermitsAssumption DEF CloseBreaker, At, Recorders, Aims
<1>2. /\ opened' = [opened EXCEPT ![b] = "no"] /\ failures' = failures
      /\ lock' = [lock EXCEPT ![b] = Nobody] /\ Settled(c)
  BY DEF CloseBreaker, StoreClosed, Aims
<1>3. lock[b] = c /\ failures[b] = 0
  BY <1>1 DEF BreakerInv, LocksAreHeld
<1>4. /\ search'[c].pc \notin {"closing", "opening", "time"}
      /\ \A k \in Callers \ {c} : search'[k] = search[k]
  BY <1>1, <1>2, SettledLeavesLocks
<1>5. ASSUME NEW k \in Callers, k # c, search[k].pc \in {"closing", "opening"}
      PROVE  Aims(k) \in Breakers /\ Aims(k) # b
  <2>1. Aims(k) \in Breakers
    BY <1>5, RecorderIsTyped, PermitsAssumption DEF Recorders, Aims
  <2>2. lock[Aims(k)] = k
    BY <1>5 DEF BreakerInv, LocksAreHeld, At
  <2> QED
    BY <1>3, <1>5, <2>1, <2>2
<1> HIDE DEF b
<1>6. BreakerTypeOK'
  BY <1>1, <1>2 DEF BreakerInv, BreakerTypeOK
<1>7. \A d \in Breakers : /\ opened'[d] = IF d = b THEN "no" ELSE opened[d]
                          /\ lock'[d] = IF d = b THEN Nobody ELSE lock[d]
  BY <1>2 DEF BreakerInv, BreakerTypeOK
<1>8. LocksAreHeld'
  <2>1. ASSUME NEW k \in Callers, k # c PROVE Aims(k)' = Aims(k) /\ search'[k] = search[k]
    BY <1>4, <2>1 DEF Aims
  <2> QED
    BY <1>2, <1>4, <1>5, <1>7, <2>1 DEF BreakerInv, LocksAreHeld, At
<1>9. BreakersAgree'
  BY <1>2, <1>3, <1>7, BreakerAssumption DEF BreakerInv, BreakersAgree
<1>10. OpeningsAreSeen'
  <2>1. ASSUME NEW k \in Callers, At(k, "time")' , opened'[Asked[search'[k].next]] = "recent"
        PROVE  search'[k].wasOpen
    <3>1. k # c /\ search'[k] = search[k] /\ At(k, "time")
      BY <1>4, <2>1 DEF At
    <3>2. Asked[search[k].next] \in Breakers
      BY <3>1, SearchIsTyped, AskedIsAService, PermitsAssumption DEF At
    <3> QED
      BY <1>7, <2>1, <3>1, <3>2 DEF BreakerInv, OpeningsAreSeen
  <2> QED
    BY <2>1 DEF OpeningsAreSeen
<1> QED
  BY <1>6, <1>8, <1>9, <1>10 DEF BreakerInv

LEMMA OpenKeepsBreakers ==
    ASSUME SearchIsSound, BreakerInv, NEW c \in Callers, OpenBreaker(c)
    PROVE  BreakerInv'
<1> DEFINE s == search[c]
<1> DEFINE b == Aims(c)
<1> DEFINE last == [s EXCEPT !.pc = s.then, !.todo = <<>>, !.holds = {}, !.then = "merge"]
<1> DEFINE seen(k) == [search[k] EXCEPT !.wasOpen = TRUE]
<1>1. b \in Breakers /\ s \in Searches /\ At(c, "opening")
  BY RecorderIsTyped, PermitsAssumption DEF OpenBreaker, At, Recorders, Aims
<1>2. /\ opened' = [opened EXCEPT ![b] = "recent"] /\ failures' = failures
      /\ lock' = [lock EXCEPT ![b] = Nobody]
  BY DEF OpenBreaker, StoreOpened, Aims
<1>3. lock[b] = c /\ failures[b] = Threshold
  BY <1>1 DEF BreakerInv, LocksAreHeld
<1>4. \A k \in Callers :
         search'[k] = IF k = c THEN last
                      ELSE IF At(k, "time") /\ Asked[search[k].next] = b
                      THEN seen(k) ELSE search[k]
  BY DEF OpenBreaker, Aims
<1>5. last.pc \in {"merge", "answer"}
  BY <1>1 DEF Searches
<1>6. ASSUME NEW k \in Callers, At(k, "time")
      PROVE  seen(k).wasOpen /\ seen(k).pc = "time" /\ seen(k).next = search[k].next
  <2>1. search[k] \in Searches
    BY <1>6, SearchIsTyped DEF At
  <2> QED
    BY <1>6, <2>1 DEF Searches, At
<1>7. ASSUME NEW k \in Callers, k # c, search[k].pc \in {"closing", "opening"}
      PROVE  Aims(k) \in Breakers /\ Aims(k) # b
  <2>1. Aims(k) \in Breakers
    BY <1>7, RecorderIsTyped, PermitsAssumption DEF Recorders, Aims
  <2>2. lock[Aims(k)] = k
    BY <1>7 DEF BreakerInv, LocksAreHeld, At
  <2> QED
    BY <1>3, <1>7, <2>1, <2>2
<1> HIDE DEF b, last, seen
<1>8. BreakerTypeOK'
  BY <1>1, <1>2 DEF BreakerInv, BreakerTypeOK
<1>9. \A d \in Breakers : /\ opened'[d] = IF d = b THEN "recent" ELSE opened[d]
                          /\ lock'[d] = IF d = b THEN Nobody ELSE lock[d]
  BY <1>2 DEF BreakerInv, BreakerTypeOK
<1>10. LocksAreHeld'
  <2>1. ASSUME NEW k \in Callers, At(k, "closing")' \/ At(k, "opening")'
        PROVE  k # c /\ search'[k] = search[k] /\ Aims(k)' = Aims(k)
    BY <1>4, <1>5, <1>6, <2>1 DEF At, Aims
  <2> QED
    BY <1>2, <1>7, <1>9, <2>1 DEF BreakerInv, LocksAreHeld, At
<1>11. BreakersAgree'
  <2>1. Threshold \in Nat
    BY BreakerAssumption
  <2> QED
    BY <1>2, <1>3, <1>9, <2>1 DEF BreakerInv, BreakersAgree
<1>12. OpeningsAreSeen'
  <2>1. ASSUME NEW k \in Callers, At(k, "time")', opened'[Asked[search'[k].next]] = "recent"
        PROVE  search'[k].wasOpen
    <3>1. k # c /\ At(k, "time") /\ search'[k].next = search[k].next
      BY <1>4, <1>5, <1>6, <2>1 DEF At
    <3>2. Asked[search[k].next] \in Breakers
      BY <3>1, SearchIsTyped, AskedIsAService, PermitsAssumption DEF At
    <3>3. CASE Asked[search[k].next] = b
      BY <1>4, <1>6, <3>1, <3>3
    <3>4. CASE Asked[search[k].next] # b
      BY <1>4, <1>9, <2>1, <3>1, <3>2, <3>4 DEF BreakerInv, OpeningsAreSeen
    <3> QED
      BY <3>3, <3>4
  <2> QED
    BY <2>1 DEF OpeningsAreSeen
<1> QED
  BY <1>8, <1>10, <1>11, <1>12 DEF BreakerInv

LEMMA TimeoutKeepsBreakers ==
    ASSUME SearchIsSound, BreakerInv, NEW b \in Breakers, Timeout(b)
    PROVE  BreakerInv'
<1>1. opened[b] = "recent" /\ opened' = [opened EXCEPT ![b] = "old"]
      /\ UNCHANGED <<failures, lock, search>>
  BY DEF Timeout, Elapse
<1>2. BreakerTypeOK'
  BY <1>1 DEF BreakerInv, BreakerTypeOK
<1>3. \A d \in Breakers : opened'[d] = IF d = b THEN "old" ELSE opened[d]
  BY <1>1 DEF BreakerInv, BreakerTypeOK
<1>4. ASSUME NEW k \in Callers, search[k].pc \in {"closing", "opening"}
      PROVE  Aims(k) \in Breakers
  BY <1>4, RecorderIsTyped, PermitsAssumption DEF Recorders, Aims
<1>5. LocksAreHeld'
  BY <1>1, <1>3, <1>4 DEF BreakerInv, LocksAreHeld, At, Aims
<1>6. BreakersAgree'
  BY <1>1, <1>3 DEF BreakerInv, BreakersAgree
<1>7. OpeningsAreSeen'
  <2>1. ASSUME NEW k \in Callers, At(k, "time") PROVE Asked[search[k].next] \in Breakers
    BY <2>1, SearchIsTyped, AskedIsAService, PermitsAssumption DEF At
  <2> QED
    BY <1>1, <1>3, <2>1 DEF BreakerInv, OpeningsAreSeen, At
<1> QED
  BY <1>2, <1>5, <1>6, <1>7 DEF BreakerInv

LEMMA BreakersStay ==
    ASSUME SearchIsSound, BreakerInv, [Next]_vars
    PROVE  BreakerInv'
<1>1. ASSUME NEW c \in Callers, Step(c) PROVE BreakerInv'
  BY <1>1, ModeKeepsBreakers, CallsKeepBreakers, RecordSuccessKeepsBreakers,
     RecordFailureKeepsBreakers, CloseKeepsBreakers, OpenKeepsBreakers DEF Step
<1>2. ASSUME NEW c \in Callers, Disturb(c) PROVE BreakerInv'
  <2>1. {"embed", "qdrant"} \subseteq Services
    BY DEF Services
  <2> QED
    BY <1>2, <2>1, CallsKeepBreakers DEF Disturb
<1>3. ASSUME NEW b \in Breakers, Timeout(b) PROVE BreakerInv'
  BY <1>3, TimeoutKeepsBreakers
<1>4. CASE UNCHANGED vars
  BY <1>4 DEF vars, breakerVars, BreakerInv, BreakerTypeOK, LocksAreHeld, BreakersAgree,
     OpeningsAreSeen, At, Aims
<1> QED
  BY <1>1, <1>2, <1>3, <1>4 DEF Next

------------------------------------------------------------------------------
(* The permits.                                                             *)

Held(s) == IF s.pc = "idle" THEN {} ELSE s.holds
Holders(b) == {c \in Callers : b \in Held(search[c])}

\* A permit is left or held.
Balanced ==
    /\ free \in [Services -> Nat]
    /\ \A b \in Services : free[b] + Cardinality(Holders(b)) = Permits[b]

LEMMA HoldersAreFinite ==
    ASSUME NEW b
    PROVE  IsFiniteSet(Holders(b)) /\ Cardinality(Holders(b)) \in Nat
<1>1. IsFiniteSet(Holders(b))
  BY PermitsAssumption, FS_Subset DEF Holders
<1> QED
  BY <1>1, FS_CardinalityType

\* One search takes or returns some permits, the others keep theirs.
LEMMA PermitsAreTaken ==
    ASSUME Balanced, NEW c \in Callers, NEW b \in Services, b \notin Held(search[c]),
           free[b] > 0, free' = [free EXCEPT ![b] = free[b] - 1],
           Held(search'[c]) = Held(search[c]) \cup {b},
           \A k \in Callers \ {c} : Held(search'[k]) = Held(search[k])
    PROVE  Balanced'
<1>1. ASSUME NEW d \in Services
      PROVE  /\ free'[d] \in Nat
             /\ free'[d] + Cardinality(Holders(d)') = Permits[d]
  <2>1. free[d] \in Nat /\ free[d] + Cardinality(Holders(d)) = Permits[d]
    BY DEF Balanced
  <2>2. CASE d = b
    <3>1. Holders(d)' = Holders(d) \cup {c} /\ c \notin Holders(d)
      BY <2>2 DEF Holders
    <3>2. Cardinality(Holders(d)') = Cardinality(Holders(d)) + 1
      BY <3>1, HoldersAreFinite, FS_AddElement
    <3>3. free'[d] = free[d] - 1
      BY <2>2 DEF Balanced
    <3> QED
      BY <2>1, <2>2, <3>2, <3>3, HoldersAreFinite
  <2>3. CASE d # b
    <3>1. Holders(d)' = Holders(d) /\ free'[d] = free[d]
      BY <2>3 DEF Holders, Balanced
    <3> QED
      BY <2>1, <3>1
  <2> QED
    BY <2>2, <2>3
<1>2. free' \in [Services -> Nat]
  BY <1>1 DEF Balanced
<1> QED
  BY <1>1, <1>2 DEF Balanced

LEMMA PermitsComeBack ==
    ASSUME Balanced, NEW c \in Callers, search[c].pc # "idle",
           search[c].holds \in SUBSET Services,
           free' = Returned(search[c]), Held(search'[c]) = {},
           \A k \in Callers \ {c} : Held(search'[k]) = Held(search[k])
    PROVE  Balanced'
<1>1. ASSUME NEW d \in Services
      PROVE  /\ free'[d] \in Nat
             /\ free'[d] + Cardinality(Holders(d)') = Permits[d]
  <2>1. free[d] \in Nat /\ free[d] + Cardinality(Holders(d)) = Permits[d]
    BY DEF Balanced
  <2>2. free'[d] = IF d \in search[c].holds THEN free[d] + 1 ELSE free[d]
    BY DEF Returned
  <2>3. CASE d \in search[c].holds
    <3>1. Holders(d)' = Holders(d) \ {c} /\ c \in Holders(d)
      BY <2>3 DEF Holders, Held
    <3>2. Cardinality(Holders(d)') = Cardinality(Holders(d)) - 1
      BY <3>1, HoldersAreFinite, FS_RemoveElement
    <3> QED
      BY <2>1, <2>2, <2>3, <3>2, HoldersAreFinite
  <2>4. CASE d \notin search[c].holds
    <3>1. Holders(d)' = Holders(d)
      BY <2>4 DEF Holders, Held
    <3> QED
      BY <2>1, <2>2, <2>4, <3>1
  <2> QED
    BY <2>3, <2>4
<1>2. free' \in [Services -> Nat]
  BY <1>1 DEF Returned
<1> QED
  BY <1>1, <1>2 DEF Balanced

LEMMA PermitsAreKept ==
    ASSUME Balanced, free' = free,
           \A k \in Callers : Held(search'[k]) = Held(search[k])
    PROVE  Balanced'
  BY DEF Balanced, Holders

\* The search of c goes to t, the others stay.
LEMMA GoesAlone ==
    ASSUME SearchIsSound, NEW c \in Callers, NEW t, Goes(c, t)
    PROVE  /\ Held(search'[c]) = Held(t)
           /\ \A k \in Callers \ {c} : Held(search'[k]) = Held(search[k])
<1>1. \A k \in Callers : search'[k] = IF k = c THEN t ELSE search[k]
  BY DEF Goes, SearchIsSound
<1> QED
  BY <1>1 DEF Held

LEMMA ModeKeepsPermits ==
    ASSUME SearchIsSound, Balanced, NEW c \in Callers,
           \/ Start(c) \/ \E w \in BOOLEAN : Merge(c, w)
           \/ LoadCount(c) \/ LoadTime(c) \/ Answer(c)
    PROVE  Balanced'
<1> DEFINE s == search[c]
<1> DEFINE b == Asked[s.next]
<1>1. s.pc # "idle" => s \in Searches /\ Sound(s) /\ s # Idle
  BY SearchIsTyped
<1>2. ASSUME NEW t, Goes(c, t), free' = free, Held(t) = Held(s)
      PROVE  Balanced'
  <2>1. \A k \in Callers : Held(search'[k]) = Held(search[k])
    BY <1>2, GoesAlone
  <2> QED
    BY <1>2, <2>1, PermitsAreKept
<1>3. CASE Start(c)
  <2> DEFINE t == [pc |-> "count", next |-> 1, wasOpen |-> FALSE, mode |-> Full,
                   wanted |-> FALSE, blank |-> FALSE, used |-> {}, holds |-> {},
                   todo |-> <<>>, then |-> "merge"]
  <2>1. Goes(c, t) /\ free' = free /\ s.pc = "idle"
    BY <1>3 DEF Start, At
  <2>2. Held(t) = {} /\ Held(s) = {}
    BY <2>1 DEF Held
  <2> QED
    BY <1>2, <2>1, <2>2
<1>4. ASSUME NEW w \in BOOLEAN, Merge(c, w) PROVE Balanced'
  <2> DEFINE t == [s EXCEPT !.pc = IF w /\ s.mode.rerank THEN "rerank" ELSE "answer",
                            !.wanted = w]
  <2>1. Goes(c, t) /\ free' = free /\ s \in Searches /\ s.pc = "merge"
    BY <1>1, <1>4 DEF Merge, At
  <2>2. t.pc \in {"rerank", "answer"} /\ t.holds = s.holds
    BY <2>1 DEF Searches
  <2> HIDE DEF t
  <2>3. Held(t) = Held(s)
    BY <2>1, <2>2 DEF Held
  <2> QED
    BY <1>2, <2>1, <2>3
<1>5. ASSUME NEW a \in BOOLEAN, s \in Searches, s.pc # "idle",
             Goes(c, Told(s, b, a)), free' = free
      PROVE  Balanced'
  <2>1. Told(s, b, a).holds = s.holds /\ Told(s, b, a).pc # "idle"
    BY <1>5 DEF Told, Searches
  <2>2. Held(Told(s, b, a)) = Held(s)
    BY <1>5, <2>1 DEF Held
  <2> QED
    BY <1>2, <1>5, <2>2
<1>6. CASE LoadTime(c)
  <2>1. /\ Goes(c, Told(s, b, State(Threshold, opened[b]) # "open")) /\ free' = free
        /\ s \in Searches /\ s.pc = "time"
    BY <1>1, <1>6 DEF LoadTime, At
  <2> QED
    BY <1>5, <2>1
<1>7. CASE LoadCount(c)
  <2> DEFINE o == StateOf(b) = "open"
  <2> DEFINE t == [s EXCEPT !.pc = "time", !.wasOpen = o]
  <2>1. free' = free /\ s \in Searches /\ s.pc = "count"
    BY <1>1, <1>7 DEF LoadCount, At
  <2>2. Goes(c, Told(s, b, TRUE)) \/ Goes(c, t)
    BY <1>7 DEF LoadCount
  <2> HIDE DEF o
  <2>3. t.pc = "time" /\ t.holds = s.holds
    BY <2>1 DEF Searches
  <2> HIDE DEF t
  <2>4. Held(t) = Held(s)
    BY <2>1, <2>3 DEF Held
  <2> QED
    BY <1>2, <1>5, <2>1, <2>2, <2>4
<1>8. CASE Answer(c)
  <2>1. Goes(c, Idle) /\ free' = free /\ s.pc = "answer"
    BY <1>8 DEF Answer, At
  <2>2. s.holds = {}
    BY <1>1, <2>1 DEF Sound, Holding, Unheld
  <2>3. Held(Idle) = {} /\ Held(s) = {}
    BY <2>1, <2>2 DEF Held, Idle
  <2> QED
    BY <1>2, <2>1, <2>3
<1> QED
  BY <1>3, <1>4, <1>6, <1>7, <1>8

LEMMA WaitsTakePermits ==
    ASSUME SearchIsSound, Balanced, NEW c \in Callers,
           WaitEmbed(c) \/ WaitQdrant(c) \/ WaitRerank(c)
    PROVE  Balanced'
<1> DEFINE s == search[c]
<1>1. ASSUME NEW from \in {"embed", "semantic", "rerank"},
             NEW to \in {"embedding", "querying", "reranking"}, NEW b \in Services,
             Acquire(c, from, to, b)
      PROVE  Balanced'
  <2> DEFINE t == [s EXCEPT !.pc = to, !.holds = s.holds \cup {b}]
  <2>1. s \in Searches /\ Sound(s) /\ s # Idle /\ s.pc = from
    BY <1>1, SearchIsTyped DEF Acquire, At
  <2>2. s.holds = {}
    BY <1>1, <2>1 DEF Sound, Holding, Unheld
  <2>3. Goes(c, t) /\ free[b] > 0 /\ free' = [free EXCEPT ![b] = free[b] - 1]
    BY <1>1, <2>1 DEF Acquire, Searches, Balanced
  <2>4. t.pc = to /\ t.holds = {b}
    BY <2>1, <2>2 DEF Searches
  <2> HIDE DEF t
  <2>5. Held(t) = {b} /\ Held(s) = {}
    BY <1>1, <2>1, <2>2, <2>4 DEF Held
  <2>6. /\ Held(search'[c]) = Held(s) \cup {b}
        /\ \A k \in Callers \ {c} : Held(search'[k]) = Held(search[k])
    BY <2>3, <2>5, GoesAlone
  <2> QED
    BY <2>3, <2>5, <2>6, PermitsAreTaken
<1>2. "embed" \in Services /\ "qdrant" \in Services /\ "rerank" \in Services
  BY DEF Services
<1> QED
  BY <1>1, <1>2 DEF WaitEmbed, WaitQdrant, WaitRerank

LEMMA CallsKeepPermits ==
    ASSUME SearchIsSound, Balanced, NEW c \in Callers,
           \/ \E w \in BOOLEAN : Embed(c, w)
           \/ Expand(c) \/ Query(c) \/ Rerank(c) \/ RerankFailed(c)
           \/ \E b \in Services : ExpandFailed(c, b) \/ QueryFailed(c, b)
           \/ Abandon(c)
    PROVE  Balanced'
<1> DEFINE s == search[c]
<1>1. s \in Searches /\ s.pc # "idle" /\ s.holds \in SUBSET Services
  <2>1. s.pc # "idle"
    BY DEF Embed, Expand, Query, Rerank, RerankFailed, ExpandFailed, QueryFailed, Abandon, At
  <2> QED
    BY <2>1, SearchIsTyped DEF Searches
<1>2. ASSUME NEW t, Goes(c, t), free' = free, t.pc # "idle", t.holds = s.holds
      PROVE  Balanced'
  <2>1. \A k \in Callers : Held(search'[k]) = Held(search[k])
    BY <1>1, <1>2, GoesAlone DEF Held
  <2> QED
    BY <1>2, <2>1, PermitsAreKept
<1>3. ASSUME NEW t, Goes(c, t), free' = Returned(s), Held(t) = {}
      PROVE  Balanced'
  BY <1>1, <1>3, GoesAlone, PermitsComeBack
<1>4. ASSUME NEW t \in Searches, NEW o, NEW then
      PROVE  Recording(t, o, then).pc = "record" /\ Recording(t, o, then).holds = t.holds
  BY DEF Recording, Searches
<1>5. CASE Abandon(c)
  BY <1>3, <1>5 DEF Abandon, Held, Idle
<1>12. ASSUME NEW w \in BOOLEAN, Embed(c, w) PROVE Balanced'
  <2> DEFINE t == [s EXCEPT !.pc = "synonyms", !.blank = w]
  <2>1. Goes(c, t) /\ free' = free
    BY <1>12 DEF Embed
  <2>2. t.pc # "idle" /\ t.holds = s.holds
    BY <1>1 DEF Searches
  <2> HIDE DEF t
  <2> QED
    BY <1>2, <2>1, <2>2
<1>6. CASE Expand(c)
  <2> DEFINE t == [s EXCEPT !.pc = IF s.blank THEN "merge" ELSE "semantic", !.holds = {}]
  <2>1. Goes(c, t) /\ free' = Returned(s)
    BY <1>6 DEF Expand
  <2>2. t.holds = {}
    BY <1>1 DEF Searches
  <2> HIDE DEF t
  <2> QED
    BY <1>3, <2>1, <2>2 DEF Held
<1>7. ASSUME NEW b \in Services, ExpandFailed(c, b) PROVE Balanced'
  <2> DEFINE t == [NoVectors(s) EXCEPT !.holds = {}]
  <2>1. Goes(c, Recording(t, <<<<b, FALSE>>>>, "merge")) /\ free' = Returned(s)
    BY <1>7 DEF ExpandFailed
  <2>2. NoVectors(s) \in Searches
    BY <1>1, DegradedType
  <2>3. t \in Searches /\ t.holds = {}
    BY <2>2 DEF Searches
  <2> HIDE DEF t
  <2>4. Recording(t, <<<<b, FALSE>>>>, "merge").holds = {}
    BY <1>4, <2>3
  <2> QED
    BY <1>3, <2>1, <2>4 DEF Held
<1>8. CASE Query(c)
  <2> DEFINE t == [s EXCEPT !.used = {"qdrant"}]
  <2>1. Goes(c, Recording(t, <<<<"embed", TRUE>>, <<"qdrant", TRUE>>>>, "merge"))
        /\ free' = free
    BY <1>8 DEF Query
  <2>2. t \in Searches /\ t.holds = s.holds
    BY <1>1 DEF Searches, Services
  <2> HIDE DEF t
  <2> QED
    BY <1>2, <1>4, <2>1, <2>2
<1>9. ASSUME NEW b \in Services, QueryFailed(c, b) PROVE Balanced'
  <2>1. Goes(c, Recording(NoVectors(s), <<<<b, FALSE>>>>, "merge")) /\ free' = free
    BY <1>9 DEF QueryFailed
  <2>2. NoVectors(s) \in Searches /\ NoVectors(s).holds = s.holds
    BY <1>1, DegradedType DEF NoVectors, Searches
  <2> QED
    BY <1>2, <1>4, <2>1, <2>2
<1>10. CASE Rerank(c)
  <2> DEFINE t == [s EXCEPT !.used = s.used \cup {"rerank"}]
  <2>1. Goes(c, Recording(t, <<<<"rerank", TRUE>>>>, "answer")) /\ free' = free
    BY <1>1, <1>10 DEF Rerank, Searches
  <2>2. t \in Searches /\ t.holds = s.holds
    BY <1>1 DEF Searches, Services
  <2> HIDE DEF t
  <2> QED
    BY <1>2, <1>4, <2>1, <2>2
<1>11. CASE RerankFailed(c)
  <2>1. Goes(c, Recording(NoRerank(s), <<<<"rerank", FALSE>>>>, "answer")) /\ free' = free
    BY <1>11 DEF RerankFailed
  <2>2. NoRerank(s) \in Searches /\ NoRerank(s).holds = s.holds
    BY <1>1, DegradedType DEF NoRerank, Searches
  <2> QED
    BY <1>2, <1>4, <2>1, <2>2
<1> QED
  BY <1>5, <1>6, <1>7, <1>8, <1>9, <1>10, <1>11, <1>12

LEMMA SettledKeepsPermits ==
    ASSUME SearchIsSound, Balanced, NEW c \in Callers, search[c].pc \in Recorders,
           Settled(c)
    PROVE  Balanced'
<1> DEFINE s == search[c]
<1> DEFINE more == [s EXCEPT !.pc = "record", !.todo = Tail(s.todo)]
<1> DEFINE last == [s EXCEPT !.pc = s.then, !.todo = <<>>, !.holds = {}, !.then = "merge"]
<1>1. s \in Searches /\ s.pc # "idle" /\ s.holds \in SUBSET Services
  BY RecorderIsTyped DEF Searches, Recorders
<1>2. IF Tail(s.todo) # <<>> THEN Goes(c, more) /\ free' = free
      ELSE Goes(c, last) /\ free' = Returned(s)
  BY <1>1 DEF Settled, Searches
<1>3. more.pc = "record" /\ more.holds = s.holds /\ last.holds = {}
  BY <1>1 DEF Searches
<1> HIDE DEF more, last
<1>4. CASE Tail(s.todo) # <<>>
  <2>1. Held(more) = Held(s)
    BY <1>1, <1>3 DEF Held
  <2>2. \A k \in Callers : Held(search'[k]) = Held(search[k])
    BY <1>2, <1>4, <2>1, GoesAlone
  <2> QED
    BY <1>2, <1>4, <2>2, PermitsAreKept
<1>5. CASE Tail(s.todo) = <<>>
  <2>1. Held(last) = {}
    BY <1>3 DEF Held
  <2> QED
    BY <1>1, <1>2, <1>5, <2>1, GoesAlone, PermitsComeBack
<1> QED
  BY <1>4, <1>5

LEMMA LockingKeepsPermits ==
    ASSUME SearchIsSound, Balanced, NEW c \in Callers, search[c].pc = "record",
           NEW pc \in {"closing", "opening"}, Goes(c, [search[c] EXCEPT !.pc = pc]),
           free' = free
    PROVE  Balanced'
<1> DEFINE t == [search[c] EXCEPT !.pc = pc]
<1>1. search[c] \in Searches
  BY SearchIsTyped
<1>2. t.pc = pc /\ t.holds = search[c].holds
  BY <1>1 DEF Searches
<1> HIDE DEF t
<1>3. Held(t) = Held(search[c])
  BY <1>2 DEF Held
<1>4. Goes(c, t)
  BY DEF t
<1>5. \A k \in Callers : Held(search'[k]) = Held(search[k])
  BY <1>3, <1>4, GoesAlone
<1> QED
  BY <1>5, PermitsAreKept

LEMMA RecordKeepsPermits ==
    ASSUME SearchIsSound, Balanced, NEW c \in Callers,
           RecordSuccess(c) \/ RecordFailure(c) \/ CloseBreaker(c) \/ OpenBreaker(c)
    PROVE  Balanced'
<1>1. search[c].pc \in Recorders
  BY DEF RecordSuccess, RecordFailure, CloseBreaker, OpenBreaker, At, Recorders
<1>2. CASE RecordSuccess(c)
  BY <1>2, LockingKeepsPermits DEF RecordSuccess, At
<1>3. CASE RecordFailure(c)
  BY <1>1, <1>3, LockingKeepsPermits, SettledKeepsPermits DEF RecordFailure, At
<1>4. CASE CloseBreaker(c)
  BY <1>1, <1>4, SettledKeepsPermits DEF CloseBreaker
<1>5. CASE OpenBreaker(c)
  <2> DEFINE s == search[c]
  <2> DEFINE last == [s EXCEPT !.pc = s.then, !.todo = <<>>, !.holds = {}, !.then = "merge"]
  <2> DEFINE seen(k) == [search[k] EXCEPT !.wasOpen = TRUE]
  <2>1. s \in Searches /\ s.pc # "idle" /\ s.holds \in SUBSET Services
    BY <1>1, RecorderIsTyped DEF Searches, Recorders
  <2>2. \A k \in Callers :
           search'[k] = IF k = c THEN last
                        ELSE IF At(k, "time") /\ Asked[search[k].next] = Head(s.todo)[1]
                        THEN seen(k) ELSE search[k]
    BY <1>5 DEF OpenBreaker
  <2>3. Held(last) = {}
    <3>1. last.holds = {}
      BY <2>1 DEF Searches
    <3> QED
      BY <3>1 DEF Held
  <2>4. ASSUME NEW k \in Callers, At(k, "time") PROVE Held(seen(k)) = Held(search[k])
    <3>1. search[k] \in Searches
      BY <2>4, SearchIsTyped DEF At
    <3>2. seen(k).pc = search[k].pc /\ seen(k).holds = search[k].holds
      BY <3>1 DEF Searches
    <3> QED
      BY <3>2 DEF Held
  <2> HIDE DEF last, seen
  <2>5. /\ Held(search'[c]) = {}
        /\ \A k \in Callers \ {c} : Held(search'[k]) = Held(search[k])
    BY <2>2, <2>3, <2>4
  <2> QED
    BY <1>5, <2>1, <2>5, PermitsComeBack DEF OpenBreaker
<1> QED
  BY <1>2, <1>3, <1>4, <1>5

LEMMA PermitsStay ==
    ASSUME SearchIsSound, Balanced, [Next]_vars
    PROVE  Balanced'
<1>1. ASSUME NEW c \in Callers, Step(c) PROVE Balanced'
  BY <1>1, ModeKeepsPermits, WaitsTakePermits, CallsKeepPermits, RecordKeepsPermits DEF Step
<1>2. ASSUME NEW c \in Callers, Disturb(c) PROVE Balanced'
  <2>1. {"embed", "qdrant"} \subseteq Services
    BY DEF Services
  <2> QED
    BY <1>2, <2>1, ModeKeepsPermits, CallsKeepPermits DEF Disturb
<1>3. CASE UNCHANGED <<free, search>>
  BY <1>3, PermitsAreKept DEF Held
<1> QED
  BY <1>1, <1>2, <1>3 DEF Next, vars, Timeout

------------------------------------------------------------------------------
(* The theorems.                                                            *)

SearchInv == SearchIsSound /\ BreakerInv /\ Balanced

LEMMA InvAtFirst == Init => SearchInv
<1> SUFFICES ASSUME Init PROVE SearchInv
  OBVIOUS
<1>1. \A c \in Callers : search[c] = Idle /\ search[c].pc = "idle"
  BY DEF Init, Idle
<1>2. SearchIsSound
  BY <1>1 DEF Init, SearchIsSound, Sound
<1>3. BreakerInv
  <2>1. 0 \in 0 .. Threshold + 1 /\ ~(0 >= Threshold)
    BY BreakerAssumption
  <2>2. BreakerTypeOK
    BY <2>1 DEF Init, BreakerInit, BreakerTypeOK
  <2>3. BreakersAgree
    BY <2>1 DEF Init, BreakerInit, BreakersAgree
  <2> QED
    BY <1>1, <2>2, <2>3 DEF BreakerInv, LocksAreHeld, OpeningsAreSeen, At
<1>4. Balanced
  <2>1. \A b \in Services : Holders(b) = {}
    BY <1>1 DEF Holders, Held
  <2>2. Cardinality({}) = 0
    BY FS_EmptySet
  <2>3. free = Permits /\ Permits \in [Services -> Nat]
    BY PermitsAssumption DEF Init
  <2>4. ASSUME NEW b \in Services PROVE free[b] + Cardinality(Holders(b)) = Permits[b]
    <3>1. Cardinality(Holders(b)) = 0
      BY <2>1, <2>2
    <3> QED
      BY <2>3, <3>1
  <2> QED
    BY <2>3, <2>4 DEF Balanced
<1> QED
  BY <1>2, <1>3, <1>4 DEF SearchInv

LEMMA InvStays == SearchInv /\ [Next]_vars => SearchInv'
  BY SearchStaysSound, BreakersStay, PermitsStay DEF SearchInv

LEMMA InvAlways == Spec => []SearchInv
  BY InvAtFirst, InvStays, PTL DEF Spec

\* Every search is somewhere with its outcomes, its permits and its mode, and no
\* semaphore ever has more permits than it was made with, for any number of searches.
THEOREM TypeCorrect == Spec => []TypeOK
<1>1. SearchInv => TypeOK
  <2> SUFFICES ASSUME SearchInv PROVE TypeOK
    OBVIOUS
  <2>1. search \in [Callers -> Searches \cup {Idle}]
    BY DEF SearchInv, SearchIsSound, Sound
  <2>2. ASSUME NEW b \in Services PROVE free[b] <= Permits[b]
    <3>1. Cardinality(Holders(b)) \in Nat /\ free[b] \in Nat /\ Permits[b] \in Nat
      BY HoldersAreFinite, PermitsAssumption DEF SearchInv, Balanced
    <3>2. free[b] + Cardinality(Holders(b)) = Permits[b]
      BY DEF SearchInv, Balanced
    <3> QED
      BY <3>1, <3>2
  <2> QED
    BY <2>1, <2>2 DEF SearchInv, BreakerInv, Balanced, TypeOK
<1> QED
  BY <1>1, InvAlways, PTL

\* The count and the time of a breaker agree whenever its lock is free, whatever the
\* threshold and however many searches record outcomes at the same time.
THEOREM BreakersConsistent == Spec => []BreakersAgree
<1>1. SearchInv => BreakersAgree
  BY DEF SearchInv, BreakerInv
<1> QED
  BY <1>1, InvAlways, PTL

\* What a search answers about vectors and reranking is what was done for it, but for
\* the vectors of a query whose vector came back empty.
THEOREM TruthfulAnswers == Spec => []AnswersAreTruthful
<1>1. SearchInv => AnswersAreTruthful
  <2> SUFFICES ASSUME SearchInv, NEW c \in Callers, At(c, "answer")
               PROVE  Vectored(search[c]) /\ Ranked(search[c])
    BY DEF AnswersAreTruthful, Vectored, Ranked
  <2>1. Sound(search[c]) /\ search[c] # Idle
    BY SearchIsTyped DEF SearchInv, At
  <2> QED
    BY <2>1 DEF Sound, Honest, At
<1> QED
  BY <1>1, InvAlways, PTL

\* Every permit is left or held by one search, for any number of searches and permits.
THEOREM ReturnedPermits == Spec => []PermitsAreReturned
<1>1. SearchInv => PermitsAreReturned
  <2> SUFFICES ASSUME SearchInv PROVE PermitsAreReturned
    OBVIOUS
  <2>1. ASSUME NEW b \in Services
        PROVE  free[b] + Cardinality({c \in Callers : ~At(c, "idle")
                                                        /\ b \in search[c].holds})
                 = Permits[b]
    <3>1. Holders(b) = {c \in Callers : ~At(c, "idle") /\ b \in search[c].holds}
      BY DEF Holders, Held, At
    <3> QED
      BY <3>1 DEF SearchInv, Balanced
  <2> QED
    BY <2>1 DEF PermitsAreReturned
<1> QED
  BY <1>1, InvAlways, PTL

\* A search goes without a service only if the breaker was open since it read the
\* count, though it reads count and time without the lock.
THEOREM FoundedRefusals == Spec => RefusalsAreFounded
<1> DEFINE founded ==
      \A c \in Callers :
          (LoadTime(c) /\ search'[c].mode # search[c].mode) => search[c].wasOpen
<1>1. SearchInv /\ [Next]_vars => [founded]_vars
  <2> SUFFICES ASSUME SearchInv, NEW c \in Callers, LoadTime(c),
                      search'[c].mode # search[c].mode
               PROVE  search[c].wasOpen
    OBVIOUS
  <2> DEFINE s == search[c]
  <2> DEFINE b == Asked[s.next]
  <2> DEFINE a == State(Threshold, opened[b]) # "open"
  <2>1. s \in Searches /\ b \in Breakers /\ At(c, "time")
    BY SearchIsTyped, AskedIsAService, PermitsAssumption DEF SearchInv, LoadTime, At
  <2>2. search'[c] = Told(s, b, a)
    BY DEF LoadTime, Goes, SearchInv, SearchIsSound
  <2>3. Told(s, b, TRUE).mode = s.mode
    BY <2>1 DEF Told, Searches
  <2>4. a \in BOOLEAN
    OBVIOUS
  <2>5. ~a
    <3> HIDE DEF a
    <3> QED
      BY <2>2, <2>3, <2>4
  <2>6. opened[b] = "recent"
    BY <2>1, <2>5 DEF State, SearchInv, BreakerInv, BreakerTypeOK
  <2> QED
    BY <2>1, <2>6 DEF SearchInv, BreakerInv, OpeningsAreSeen
<1> QED
  BY <1>1, InvAlways, PTL DEF Spec, RefusalsAreFounded

==============================================================================
