-------------------------- MODULE LegacyContentProofs --------------------------
(***************************************************************************)
(* Proofs about what the legacy index holds: the chunks of a file are the       *)
(* lines of the text whose hash its row has, through rewrites, appends, streams, *)
(* orphans, errors and crashes, unless a sync of the file stopped halfway.       *)
(***************************************************************************)
EXTENDS LegacyIndexProofs, FiniteSetTheorems

------------------------------------------------------------------------------
(* The inductive invariant.                                                 *)

StandWithin(f, n) == \A c \in ChunksOf(f) : chunks[c].at <= n

IsIndexed(f) == HasLines(f, rows[f]) /\ StandWithin(f, Len(rows[f]))

FilesAreIndexed ==
    \A f \in Files :
        IF rows[f] = Absent THEN ChunksOf(f) = {}
        ELSE f \in misindexed \/ (Halfway /\ sync.file = f) \/ IsIndexed(f)

\* What a stream has still to turn into chunks.
Unread == IF sync.pc = "flush" THEN sync.text ELSE Tail(sync.text)

\* The file at work has its new row, and the chunks it has are the lines before
\* those that are to come.
WorkIsSound ==
    LET f == sync.file
        text == sync.text
    IN  /\ Halfway => rows[f] # Absent
        /\ sync.pc \in {"replace", "insert"} => rows[f] = text
        /\ sync.pc = "replace" => sync.from = 0 /\ (f \in misindexed \/ ~HasLines(f, text))
        /\ sync.pc = "insert" /\ (sync.from = 0 \/ f \notin misindexed) =>
              HasLines(f, SubSeq(text, 1, sync.from)) /\ StandWithin(f, sync.from)
        /\ sync.pc = "read" => ChunksOf(f) = {}
        /\ sync.pc \in {"flush", "vectors", "queue"} =>
              /\ StandWithin(f, 1)
              /\ f \notin misindexed =>
                   \E k \in 0 .. Len(rows[f]) :
                      /\ HasLines(f, SubSeq(rows[f], 1, k))
                      /\ Unread = SubSeq(rows[f], k + 1, Len(rows[f]))

ContentInv ==
    /\ \A c \in Live : chunks[c].at \in Nat
    /\ FilesAreIndexed
    /\ WorkIsSound

------------------------------------------------------------------------------
(* The chunks of a file.                                                    *)

LEMMA ChunksAreFinite ==
    ASSUME IndexInv
    PROVE  /\ \A f : ChunksOf(f) \subseteq 1 .. nextChunk - 1 /\ ChunksOf(f) \subseteq Live
           /\ \A f : IsFiniteSet(ChunksOf(f))
           /\ \A f : \A c \in ChunksOf(f) : c \in Nat /\ c < nextChunk
           /\ nextChunk \in Nat
  <1>1. /\ nextChunk \in Nat /\ \A c \in Live : c \in Nat /\ c < nextChunk /\ 1 <= c
    BY NumbersAreNaturals, OutboxAssumption
       DEF IndexInv, IndexTypeOK, OutboxTypeOK, ChunkIds
  <1>2. \A f : ChunksOf(f) \subseteq 1 .. nextChunk - 1 /\ ChunksOf(f) \subseteq Live
    BY <1>1 DEF ChunksOf
  <1>3. IsFiniteSet(1 .. nextChunk - 1)
    BY <1>1, FS_Interval
  <1>4. \A f : IsFiniteSet(ChunksOf(f))
    BY <1>2, <1>3, FS_Subset
  <1> QED
    BY <1>1, <1>2, <1>4

\* Whoever keeps its chunks keeps its lines.
LEMMA LinesKept ==
    ASSUME NEW f, ChunksOf(f)' = ChunksOf(f),
           \A c \in ChunksOf(f) : chunks'[c] = chunks[c]
    PROVE  /\ \A text : HasLines(f, text)' <=> HasLines(f, text)
           /\ \A n : StandWithin(f, n)' <=> StandWithin(f, n)
  <1>1. ASSUME NEW c \in ChunksOf(f)
        PROVE  Place(c)' = Place(c)
    <2>1. chunks[c].file = f /\ chunks'[c].file = f
      BY <1>1 DEF ChunksOf
    <2>2. \A d \in ChunksOf(f) : Before(d, c)' <=> Before(d, c)
      BY <1>1 DEF Before
    <2> QED
      BY <2>1, <2>2 DEF Place
  <1> QED
    BY <1>1 DEF HasLines, StandWithin

LEMMA IntervalSize ==
    ASSUME NEW a \in Nat, NEW n \in Nat, NEW b, b = a + n - 1
    PROVE  IsFiniteSet(a .. b) /\ Cardinality(a .. b) = n
  <1>1. a \in Int /\ b \in Int /\ (a > b <=> n = 0) /\ b - a + 1 = n
    OBVIOUS
  <1>2. IsFiniteSet(a .. b) /\ Cardinality(a .. b) = IF a > b THEN 0 ELSE b - a + 1
    BY <1>1, FS_Interval
  <1> QED
    BY <1>1, <1>2

LEMMA UnionSize ==
    ASSUME NEW S, NEW T, IsFiniteSet(S), IsFiniteSet(T), S \cap T = {}
    PROVE  Cardinality(S \cup T) = Cardinality(S) + Cardinality(T)
  <1>1. Cardinality(S \cap T) = 0
    BY FS_EmptySet
  <1>2. Cardinality(S) \in Nat /\ Cardinality(T) \in Nat
    BY FS_CardinalityType
  <1>3. Cardinality(S \cup T) = Cardinality(S) + Cardinality(T) - Cardinality(S \cap T)
    BY FS_Union
  <1> QED
    BY <1>1, <1>2, <1>3

\* A chunk has a place among the chunks of its file.
LEMMA PlaceFacts ==
    ASSUME IndexInv, NEW f, NEW c \in ChunksOf(f), chunks[c].at \in Nat
    PROVE  Place(c) \in 1 .. Cardinality(ChunksOf(f))
  <1> DEFINE before == {d \in ChunksOf(f) : Before(d, c)}
  <1>1. chunks[c].file = f /\ IsFiniteSet(ChunksOf(f)) /\ c \in Nat
    BY ChunksAreFinite DEF ChunksOf
  <1>2. ~Before(c, c)
    BY <1>1 DEF Before
  <1>3. before \in SUBSET (ChunksOf(f) \ {c})
    BY <1>2
  <1>4. /\ IsFiniteSet(ChunksOf(f) \ {c})
        /\ Cardinality(ChunksOf(f) \ {c}) = Cardinality(ChunksOf(f)) - 1
    BY <1>1, FS_RemoveElement
  <1>5. /\ Cardinality(before) <= Cardinality(ChunksOf(f)) - 1
        /\ IsFiniteSet(before)
    BY <1>3, <1>4, FS_Subset
  <1>6. Cardinality(before) \in Nat /\ Cardinality(ChunksOf(f)) \in Nat
    BY <1>1, <1>5, FS_CardinalityType
  <1>7. Place(c) = Cardinality(before) + 1
    BY <1>1 DEF Place
  <1> HIDE DEF before
  <1> QED
    BY <1>5, <1>6, <1>7

\* A file without chunks has no lines.
LEMMA NoLines ==
    ASSUME NEW f, NEW text \in Seq(Lines)
    PROVE  /\ ChunksOf(f) = {} => (HasLines(f, text) <=> text = <<>>)
           /\ ChunksOf(f) = {} => \A n : StandWithin(f, n)
  <1>1. ChunksOf(f) = {} => Cardinality(ChunksOf(f)) = 0
    BY FS_EmptySet
  <1>2. Len(text) = 0 <=> text = <<>>
    OBVIOUS
  <1> QED
    BY <1>1, <1>2 DEF HasLines, StandWithin

\* The lines a file has, none of which stands behind the next one, and those of text
\* after from are the lines of want.
Continues(f, have, text, from, want) ==
    /\ HasLines(f, have) /\ StandWithin(f, from + 1)
    /\ Len(want) = Cardinality(ChunksOf(f)) + Len(text) - from
    /\ \A i \in 1 .. Cardinality(ChunksOf(f)) : want[i] = have[i]
    /\ \A i \in 1 .. Len(text) - from : want[Cardinality(ChunksOf(f)) + i] = text[from + i]

\* Lines that are inserted behind those that are there, or among chunks of the same
\* line, come after them.
LEMMA InsertedLines ==
    ASSUME IndexInv, \A c \in Live : chunks[c].at \in Nat,
           NEW f, sync.file = f, NEW text \in Seq(Lines), NEW from \in Nat, from <= Len(text),
           NEW pc, InsertLines(text, from, pc),
           NEW have, NEW want, Continues(f, have, text, from, want)
    PROVE  HasLines(f, want)'
  <1> USE DEF Continues
  <1>n. PICK n, size : n = Cardinality(ChunksOf(f)) /\ size = Len(text) - from
    OBVIOUS
  <1> DEFINE fresh == nextChunk .. nextChunk + size - 1
             new(c) == [file |-> sync.file, at |-> from + 1 + c - nextChunk,
                        line |-> text[from + 1 + c - nextChunk]]
  <1>1. /\ nextChunk \in Nat /\ size \in Nat /\ n \in Nat /\ IsFiniteSet(ChunksOf(f))
        /\ \A c \in ChunksOf(f) : c \in Nat /\ c < nextChunk /\ c \in Live
    <2>1. Len(text) \in Nat
      OBVIOUS
    <2> QED
      BY <1>n, <2>1, ChunksAreFinite, FS_CardinalityType
  <1>2. nextChunk + Len(text) - from - 1 = nextChunk + size - 1
    BY <1>1, <1>n
  <1>3. chunks' = [c \in Live \cup fresh |-> IF c \in Live THEN chunks[c] ELSE new(c)]
    BY <1>2 DEF InsertLines
  <1> HIDE DEF new
  <1>4. \A c \in fresh : c \notin Live /\ c \in Nat /\ c >= nextChunk
    BY <1>1 DEF IndexInv, IndexTypeOK
  <1>5. ChunksOf(f)' = ChunksOf(f) \cup fresh
    <2>1. Live' = Live \cup fresh
      BY <1>3 DEF Live
    <2>2. \A c \in Live : chunks'[c] = chunks[c]
      BY <1>3
    <2>3. \A c \in fresh : chunks'[c].file = f
      BY <1>3, <1>4 DEF new
    <2> QED
      BY <2>1, <2>2, <2>3 DEF ChunksOf
  <1>6. \A c \in ChunksOf(f) : chunks'[c] = chunks[c] /\ chunks[c].file = f
                             /\ chunks[c].at \in Nat /\ chunks[c].at <= from + 1
    BY <1>1, <1>3 DEF ChunksOf, StandWithin
  <1>7. \A c \in fresh : /\ chunks'[c].file = f /\ chunks'[c].at = from + 1 + c - nextChunk
                       /\ chunks'[c].line = text[from + 1 + c - nextChunk]
    BY <1>3, <1>4 DEF new
  <1>8. Cardinality(ChunksOf(f))' = n + size
    <2>1. IsFiniteSet(fresh) /\ Cardinality(fresh) = size
      BY <1>1, IntervalSize
    <2>2. ChunksOf(f) \cap fresh = {}
      BY <1>1, <1>4
    <2> HIDE DEF fresh
    <2>3. Cardinality(ChunksOf(f) \cup fresh) = n + size
      BY <1>1, <1>n, <2>1, <2>2, UnionSize
    <2> QED
      BY <1>1, <1>5, <2>3
  <1>9. ASSUME NEW c \in ChunksOf(f)
        PROVE  want[Place(c)'] = chunks'[c].line
    <2>1. \A d \in fresh : ~Before(d, c)'
      BY <1>1, <1>4, <1>6, <1>7 DEF Before
    <2>2. \A d \in ChunksOf(f) : Before(d, c)' <=> Before(d, c)
      BY <1>6 DEF Before
    <2>3. {d \in ChunksOf(f)' : Before(d, c)'} = {d \in ChunksOf(f) : Before(d, c)}
      BY <1>5, <2>1, <2>2
    <2>4. Place(c)' = Place(c)
      BY <1>6, <2>3 DEF Place
    <2>5. Place(c) \in 1 .. n
      BY <1>n, <1>6, PlaceFacts
    <2> QED
      BY <1>n, <1>6, <2>4, <2>5 DEF HasLines
  <1>10. ASSUME NEW c \in fresh
         PROVE  want[Place(c)'] = chunks'[c].line
    <2>k. PICK k : k = c - nextChunk
      OBVIOUS
    <2> DEFINE earlier == nextChunk .. c - 1
    <2>1. k \in 0 .. size - 1 /\ c \in Nat /\ c = nextChunk + k
      BY <1>1, <1>4, <2>k
    <2>2. \A d \in ChunksOf(f) : Before(d, c)'
      BY <1>1, <1>6, <1>7, <2>1 DEF Before
    <2>3. \A d \in fresh : Before(d, c)' <=> d < c
      BY <1>1, <1>4, <1>7, <2>1 DEF Before
    <2>4. {d \in fresh : d < c} = earlier
      BY <1>1, <2>1
    <2>5. {d \in ChunksOf(f)' : Before(d, c)'} = ChunksOf(f) \cup earlier
      BY <1>5, <2>2, <2>3, <2>4
    <2>6. IsFiniteSet(earlier) /\ Cardinality(earlier) = k
      <3>1. k \in Nat /\ c - 1 = nextChunk + k - 1
        BY <1>1, <2>1
      <3> QED
        BY <1>1, <3>1, IntervalSize
    <2>7. ChunksOf(f) \cap earlier = {}
      BY <1>1, <2>1
    <2>8. Cardinality(ChunksOf(f) \cup earlier) = n + k
      <3> HIDE DEF earlier
      <3> QED
        BY <1>1, <1>n, <2>6, <2>7, UnionSize
    <2>9. Place(c)' = n + k + 1
      BY <1>7, <2>5, <2>8 DEF Place
    <2>10. k + 1 \in 1 .. size /\ from + (k + 1) = from + 1 + c - nextChunk
            /\ n + k + 1 = n + (k + 1)
      BY <1>1, <2>1
    <2> QED
      BY <1>n, <1>7, <2>9, <2>10
  <1> HIDE DEF fresh
  <1>11. Len(want) = n + size
    BY <1>1, <1>n
  <1>12. \A c \in ChunksOf(f)' : want[Place(c)'] = chunks'[c].line
    BY <1>5, <1>9, <1>10
  <1> QED
    BY <1>8, <1>11, <1>12 DEF HasLines

\* Each place is taken: the lines of a file are those of one text.
LEMMA OneText ==
    ASSUME IndexInv, \A c \in Live : chunks[c].at \in Nat, NEW f,
           NEW s \in Seq(Lines), NEW t \in Seq(Lines), HasLines(f, s), HasLines(f, t)
    PROVE  s = t
  <1>1. PICK n : n = Cardinality(ChunksOf(f))
    OBVIOUS
  <1>2. /\ IsFiniteSet(ChunksOf(f)) /\ n \in Nat /\ Len(s) = n /\ Len(t) = n
        /\ \A c \in ChunksOf(f) : /\ c \in Nat /\ chunks[c].at \in Nat /\ chunks[c].file = f
                                 /\ Place(c) \in 1 .. n
    <2>1. \A c \in ChunksOf(f) : c \in Nat /\ c \in Live /\ chunks[c].file = f
      BY ChunksAreFinite DEF ChunksOf
    <2> QED
      BY <1>1, <2>1, ChunksAreFinite, PlaceFacts, FS_CardinalityType DEF HasLines
  <1>3. ASSUME NEW c \in ChunksOf(f), NEW d \in ChunksOf(f), Before(c, d)
        PROVE  Place(c) < Place(d)
    <2> DEFINE before(x) == {e \in ChunksOf(f) : Before(e, x)}
    <2>1. ~Before(c, c)
      BY <1>2 DEF Before
    <2>2. \A e \in ChunksOf(f) : Before(e, c) => Before(e, d)
      BY <1>2, <1>3 DEF Before
    <2>3. before(c) \cup {c} \in SUBSET before(d) /\ c \notin before(c)
      BY <1>3, <2>1, <2>2
    <2>4. IsFiniteSet(before(c)) /\ IsFiniteSet(before(d))
      BY <1>2, FS_Subset
    <2>5. Place(c) = Cardinality(before(c)) + 1 /\ Place(d) = Cardinality(before(d)) + 1
      BY <1>2 DEF Place
    <2> HIDE DEF before
    <2>6. Cardinality(before(c) \cup {c}) = Cardinality(before(c)) + 1
      BY <2>3, <2>4, FS_AddElement
    <2>7. Cardinality(before(c) \cup {c}) <= Cardinality(before(d))
      BY <2>3, <2>4, FS_Subset
    <2>8. Cardinality(before(c)) \in Nat /\ Cardinality(before(d)) \in Nat
      BY <2>4, FS_CardinalityType
    <2> QED
      BY <2>5, <2>6, <2>7, <2>8
  <1> DEFINE place == [c \in ChunksOf(f) |-> Place(c)]
  <1>4. place \in Injection(ChunksOf(f), 1 .. n)
    <2>1. place \in [ChunksOf(f) -> 1 .. n]
      BY <1>2
    <2>2. ASSUME NEW c \in ChunksOf(f), NEW d \in ChunksOf(f), c # d
          PROVE  place[c] # place[d]
      <3>1. Before(c, d) \/ Before(d, c)
        BY <1>2, <2>2 DEF Before
      <3>2. Place(c) < Place(d) \/ Place(d) < Place(c)
        BY <1>3, <3>1
      <3> QED
        BY <1>2, <3>2
    <2> QED
      BY <2>1, <2>2 DEF Injection, IsInjective
  <1>5. place \in Surjection(ChunksOf(f), 1 .. n)
    <2>1. IsFiniteSet(1 .. n) /\ Cardinality(1 .. n) = n
      BY <1>2, IntervalSize
    <2> HIDE DEF place
    <2> QED
      BY <1>1, <1>4, <2>1, FS_Injection
  <1>6. ASSUME NEW i \in 1 .. n
        PROVE  s[i] = t[i]
    <2>1. PICK c \in ChunksOf(f) : place[c] = i
      BY <1>5 DEF Surjection
    <2> QED
      BY <2>1 DEF HasLines
  <1> QED
    BY <1>2, <1>6

------------------------------------------------------------------------------
(* Steps.                                                                   *)

\* The files that a step does not work on.
OthersAreKept(f) ==
    \A g \in Files \ {f} :
        /\ ChunksOf(g)' = ChunksOf(g) /\ \A c \in ChunksOf(g) : chunks'[c] = chunks[c]
        /\ rows'[g] = rows[g]
        /\ g \in misindexed => g \in misindexed'

\* After a step that works on f, no other file has changed its state.
LEMMA FilesKept ==
    ASSUME ContentInv, NEW f, OthersAreKept(f), Halfway => sync.file = f,
           f \in Files => IF rows'[f] = Absent THEN ChunksOf(f)' = {}
                          ELSE \/ f \in misindexed' \/ (Halfway' /\ sync'.file = f)
                               \/ IsIndexed(f)'
    PROVE  FilesAreIndexed'
  <1>1. ASSUME NEW g \in Files \ {f}
        PROVE  IF rows'[g] = Absent THEN ChunksOf(g)' = {}
               ELSE g \in misindexed' \/ IsIndexed(g)'
    <2>1. /\ ChunksOf(g)' = ChunksOf(g) /\ rows'[g] = rows[g]
          /\ \A c \in ChunksOf(g) : chunks'[c] = chunks[c]
          /\ g \in misindexed => g \in misindexed'
      BY <1>1 DEF OthersAreKept
    <2>2. IF rows[g] = Absent THEN ChunksOf(g) = {} ELSE g \in misindexed \/ IsIndexed(g)
      BY <1>1 DEF ContentInv, FilesAreIndexed
    <2>3. IsIndexed(g) => IsIndexed(g)'
      <3>1. PICK r : r = rows[g]
        OBVIOUS
      <3>2. /\ HasLines(g, r)' <=> HasLines(g, r)
            /\ StandWithin(g, Len(r))' <=> StandWithin(g, Len(r))
        BY <2>1, LinesKept
      <3>3. IsIndexed(g) => HasLines(g, r) /\ StandWithin(g, Len(r))
        BY <3>1 DEF IsIndexed
      <3>4. HasLines(g, r)' /\ StandWithin(g, Len(r))' => IsIndexed(g)'
        BY <2>1, <3>1 DEF IsIndexed, HasLines, StandWithin
      <3> QED
        BY <3>2, <3>3, <3>4
    <2> QED
      BY <2>1, <2>2, <2>3
  <1> QED
    BY <1>1 DEF FilesAreIndexed

\* Steps of other handlers and of the outbox.
LEMMA OtherHandlers ==
    ASSUME ContentInv, UNCHANGED <<chunks, rows, misindexed, sync>>
    PROVE  ContentInv'
  <1>1. PICK f : f = sync.file
    OBVIOUS
  <1>2. \A g : ChunksOf(g)' = ChunksOf(g)
    BY DEF ChunksOf, Live
  <1>3. FilesAreIndexed'
    <2>1. \A g : OthersAreKept(g)
      BY <1>2 DEF OthersAreKept
    <2>2. CASE Halfway
      <3>1. sync'.file = f /\ Halfway' /\ rows'[f] # Absent
        BY <1>1, <2>2 DEF ContentInv, WorkIsSound, Halfway
      <3> QED
        BY <1>1, <2>1, <2>2, <3>1, FilesKept
    <2>3. CASE ~Halfway
      <3>1. PICK g : g \notin Files
        BY OutboxAssumption
      <3> QED
        BY <2>1, <2>3, <3>1, FilesKept
    <2> QED
      BY <2>2, <2>3
  <1>4. WorkIsSound'
    <2>1. /\ \A text : HasLines(f, text)' <=> HasLines(f, text)
          /\ \A n : StandWithin(f, n)' <=> StandWithin(f, n)
      BY <1>2, LinesKept
    <2>2. WorkIsSound
      BY DEF ContentInv
    <2> QED
      BY <1>1, <1>2, <2>1, <2>2 DEF WorkIsSound, Halfway, Unread
  <1>5. (\A c \in Live : chunks[c].at \in Nat)'
    BY DEF ContentInv, Live
  <1> QED
    BY <1>3, <1>4, <1>5 DEF ContentInv

\* A step after which no file is at work, and that of a file it leaves behind is noted.
LEMMA NoFileAtWork ==
    ASSUME ContentInv, UNCHANGED <<chunks, rows>>, ~Halfway', misindexed \subseteq misindexed',
           Halfway => sync.file \in misindexed'
    PROVE  ContentInv'
  <1>1. \A f : ChunksOf(f)' = ChunksOf(f)
    BY DEF ChunksOf, Live
  <1>2. FilesAreIndexed'
    <2>1. \A f : OthersAreKept(f)
      BY <1>1 DEF OthersAreKept
    <2>2. CASE Halfway
      <3>1. sync.file \in Files =>
               IF rows'[sync.file] = Absent THEN ChunksOf(sync.file) = {}
               ELSE sync.file \in misindexed'
        BY <2>2 DEF ContentInv, WorkIsSound
      <3>2. PICK f : f = sync.file
        OBVIOUS
      <3> QED
        BY <1>1, <2>1, <2>2, <3>1, <3>2, FilesKept
    <2>3. CASE ~Halfway
      <3>1. PICK f : f \notin Files
        BY OutboxAssumption
      <3> QED
        BY <2>1, <2>3, <3>1, FilesKept
    <2> QED
      BY <2>2, <2>3
  <1>3. WorkIsSound'
    BY DEF WorkIsSound, Halfway
  <1>4. (\A c \in Live : chunks[c].at \in Nat)'
    BY DEF ContentInv, Live
  <1> QED
    BY <1>2, <1>3, <1>4 DEF ContentInv

LEMMA RestingSteps ==
    ASSUME IndexInv, ContentInv,
           \/ StartSync \/ StoreVectors \/ FinishSync \/ AbandonFile \/ Crash
           \/ \E f \in Files : StartSyncFiles(f)
    PROVE  ContentInv'
  <1>1. UNCHANGED <<chunks, rows>> /\ misindexed \subseteq misindexed'
    BY DEF StartSync, StoreVectors, FinishSync, AbandonFile, Crash, StartSyncFiles,
           LeaveBehind, outboxVars
  <1>2. Halfway => sync.file \in misindexed'
    <2>1. CASE AbandonFile \/ Crash
      BY <2>1 DEF AbandonFile, Crash, LeaveBehind
    <2>2. CASE StartSync \/ \E f \in Files : StartSyncFiles(f)
      <3>1. sync = NoSync
        BY <2>2 DEF StartSync, StartSyncFiles
      <3> QED
        BY <3>1 DEF NoSync, Halfway
    <2>3. CASE StoreVectors \/ FinishSync
      BY <2>3 DEF StoreVectors, FinishSync, Halfway
    <2> QED
      BY <2>1, <2>2, <2>3
  <1>3. sync'.pc \in {"idle", "pick"}
    <2>1. CASE StartSync \/ FinishSync \/ Crash \/ \E f \in Files : StartSyncFiles(f)
      <3>1. \A full, texts, orphans : Found(full, texts, orphans).pc = "pick"
        BY DEF Found
      <3>2. NoSync.pc = "idle"
        BY DEF NoSync
      <3>3. CASE StartSync
        BY <3>1, <3>3 DEF StartSync
      <3>4. CASE \E f \in Files : StartSyncFiles(f)
        BY <3>1, <3>4 DEF StartSyncFiles
      <3>5. CASE FinishSync \/ Crash
        BY <3>2, <3>5 DEF FinishSync, Crash
      <3> QED
        BY <2>1, <3>3, <3>4, <3>5
    <2>2. ASSUME sync # NoSync, sync' = NextFile
          PROVE  sync'.pc = "pick"
      BY <2>2, SyncFacts DEF NextFile, Syncs
    <2>3. CASE StoreVectors
      BY <2>2, <2>3 DEF StoreVectors, NoSync
    <2>4. CASE AbandonFile
      BY <2>2, <2>4, PassedFacts DEF AbandonFile, NoSync
    <2> QED
      BY <2>1, <2>3, <2>4
  <1>4. ~Halfway'
    BY <1>3 DEF Halfway
  <1> QED
    BY <1>1, <1>2, <1>4, NoFileAtWork

LEMMA WholePrefix ==
    ASSUME NEW s \in Seq(Lines), NEW t \in Seq(Lines), IsPrefix(s, t), s # <<>>
    PROVE  Len(s) # 0 /\ SubSeq(t, 1, Len(s)) = s
  <1>1. SubSeq(s, 1, Len(s)) = s
    OBVIOUS
  <1> QED
    BY <1>1 DEF IsPrefix

\* The work on a file begins with its row.
LEMMA RecordedFile ==
    ASSUME IndexInv, ContentInv,
           NEW f \in Files, RecordFile(f) \/ HashStream(f)
    PROVE  ContentInv'
  <1> DEFINE text == sync.todo[f]
  <1>1. /\ sync.pc = "pick" /\ f \in DOMAIN sync.todo /\ sync # NoSync /\ ~Halfway
        /\ UNCHANGED chunks /\ misindexed \subseteq misindexed' /\ sync \in Syncs
    <2>1. /\ sync.pc = "pick" /\ f \in DOMAIN sync.todo
          /\ UNCHANGED chunks /\ misindexed \subseteq misindexed'
      BY DEF RecordFile, HashStream, outboxVars
    <2>2. sync # NoSync
      BY <2>1 DEF NoSync
    <2> QED
      BY <2>1, <2>2, SyncFacts DEF Halfway
  <1>2. /\ text \in Texts /\ text \in Seq(Lines) /\ text # <<>> /\ text # Absent
        /\ Len(text) \in Nat
    BY <1>1, SyncFacts, TextFacts
  <1>3. CASE UNCHANGED rows /\ sync' = Passed(f)
    <2>1. ~Halfway'
      BY <1>1, <1>3, PassedFacts DEF Halfway
    <2> QED
      BY <1>1, <1>3, <2>1, NoFileAtWork
  <1>4. ASSUME NEW pc \in {"replace", "insert", "drop"}, NEW from \in Nat,
               NEW its \in Seq(Lines), sync' = Begun(f, pc, its, from),
               rows' = [rows EXCEPT ![f] = text],
               pc \in {"replace", "insert"} => its = text,
               pc = "replace" => from = 0 /\ (f \in misindexed \/ ~HasLines(f, its)),
               pc = "insert" => from # 0 /\ (f \in misindexed'
                     \/ (HasLines(f, SubSeq(its, 1, from)) /\ StandWithin(f, from)))
        PROVE  ContentInv'
    <2>1. sync'.pc = pc /\ sync'.file = f /\ sync'.from = from /\ sync'.text = its
      BY <1>1, <1>4, BegunFacts
    <2>2. /\ rows'[f] = text /\ \A g \in Files \ {f} : rows'[g] = rows[g]
      BY <1>4 DEF IndexInv, IndexTypeOK
    <2>3. \A g : ChunksOf(g)' = ChunksOf(g)
      BY <1>1 DEF ChunksOf, Live
    <2>4. FilesAreIndexed'
      <3>1. OthersAreKept(f)
        BY <1>1, <2>2, <2>3 DEF OthersAreKept
      <3>2. Halfway' /\ sync'.file = f
        BY <2>1 DEF Halfway
      <3> QED
        BY <1>1, <1>2, <2>2, <3>1, <3>2, FilesKept
    <2>5. /\ \A u : HasLines(f, u)' <=> HasLines(f, u)
          /\ \A n : StandWithin(f, n)' <=> StandWithin(f, n)
      BY <1>1, <2>3, LinesKept
    <2>6. PICK begun : begun = SubSeq(its, 1, from)
      OBVIOUS
    <2>7. /\ pc = "replace" => from = 0 /\ (f \in misindexed' \/ ~HasLines(f, its)')
          /\ pc = "insert" => from # 0 /\ (f \in misindexed'
                     \/ (HasLines(f, begun)' /\ StandWithin(f, from)'))
      BY <1>1, <1>4, <2>5, <2>6
    <2>8. WorkIsSound'
      BY <1>2, <1>4, <2>1, <2>2, <2>6, <2>7 DEF WorkIsSound, HasLines, StandWithin
    <2>9. (\A c \in Live : chunks[c].at \in Nat)'
      BY <1>1 DEF ContentInv, Live
    <2> QED
      BY <2>4, <2>8, <2>9 DEF ContentInv
  <1>5. CASE rows[f] # text /\ rows' = [rows EXCEPT ![f] = text]
    <2>1. PICK old : old = rows[f]
      OBVIOUS
    <2>2. old \in Texts \/ old = Absent
      BY <2>1 DEF IndexInv, IndexTypeOK, TextsOrAbsent
    <2>3. IF old = Absent THEN ChunksOf(f) = {} ELSE f \in misindexed \/ IsIndexed(f)
      BY <1>1, <2>1 DEF ContentInv, FilesAreIndexed
    <2>4. CASE sync' = Begun(f, "replace", text, 0)
      <3>1. f \in misindexed \/ ~HasLines(f, text)
        <4>1. CASE old = Absent
          BY <1>2, <2>3, <4>1, NoLines
        <4>2. CASE old # Absent /\ IsIndexed(f)
          <5>1. old \in Seq(Lines) /\ HasLines(f, old)
            BY <2>1, <2>2, <4>2, TextFacts DEF IsIndexed
          <5>2. HasLines(f, text) => text = old
            BY <1>2, <5>1, OneText DEF ContentInv
          <5> QED
            BY <1>5, <2>1, <5>2
        <4> QED
          BY <2>3, <4>1, <4>2
      <3> HIDE DEF text
      <3> QED
        BY <1>2, <1>4, <1>5, <2>4, <3>1
    <2>5. CASE /\ old # Absent /\ Appends(f, text)
               /\ sync' = Begun(f, "insert", text, Len(old))
               /\ ComparesNothing(f, text) => f \in misindexed'
      <3>1. old \in Texts /\ Len(old) \in Nat /\ old # <<>> /\ old \in Seq(Lines)
        BY <2>2, <2>5, TextFacts
      <3>2. Len(old) # 0
        BY <3>1
      <3>3. CASE IsPrefix(old, text)
        <4>1. SubSeq(text, 1, Len(old)) = old
          BY <1>2, <3>1, <3>3, WholePrefix
        <4>2. \/ f \in misindexed'
              \/ HasLines(f, SubSeq(text, 1, Len(old))) /\ StandWithin(f, Len(old))
          BY <1>1, <2>1, <2>3, <2>5, <4>1 DEF IsIndexed
        <4> HIDE DEF text
        <4> QED
          BY <1>2, <1>4, <1>5, <2>5, <3>1, <3>2, <4>2
      <3>4. CASE ~IsPrefix(old, text)
        <4>1. old \in Large
          BY <2>1, <2>5, <3>4 DEF Appends, StoredText
        <4>2. f \in misindexed'
          BY <2>1, <2>5, <3>4, <4>1 DEF ComparesNothing
        <4> HIDE DEF text
        <4> QED
          BY <1>2, <1>4, <1>5, <2>5, <3>1, <3>2, <4>2
      <3> QED
        BY <3>3, <3>4
    <2>6. CASE sync' = Begun(f, "drop", <<>>, 0)
      <3>1. <<>> \in Seq(Lines)
        OBVIOUS
      <3> HIDE DEF text
      <3> QED
        BY <1>4, <1>5, <2>6, <3>1
    <2> QED
      BY <1>5, <2>1, <2>4, <2>5, <2>6 DEF RecordFile, HashStream
  <1> QED
    BY <1>3, <1>5 DEF RecordFile, HashStream

\* Chunks that are inserted and dropped belong to the file at work.
LEMMA InsertFrame ==
    ASSUME IndexInv, ContentInv, NEW f, sync.file = f, sync # NoSync,
           NEW text \in Seq(Lines), NEW from \in Nat, from <= Len(text),
           NEW pc \in {"embed", "vectors"}, InsertLines(text, from, pc)
    PROVE  /\ \A g : g # f => /\ ChunksOf(g)' = ChunksOf(g)
                            /\ \A c \in ChunksOf(g) : chunks'[c] = chunks[c]
           /\ (\A c \in Live : chunks[c].at \in Nat)'
           /\ \A m \in Nat : StandWithin(f, m) /\ Len(text) <= m => StandWithin(f, m)'
           /\ rows' = rows /\ rows[f] # Absent
           /\ sync'.pc = pc /\ sync'.file = f /\ sync'.text = sync.text /\ sync'.from = sync.from
  <1>1. PICK size : size = Len(text) - from
    OBVIOUS
  <1> DEFINE fresh == nextChunk .. nextChunk + size - 1
             new(c) == [file |-> sync.file, at |-> from + 1 + c - nextChunk,
                        line |-> text[from + 1 + c - nextChunk]]
  <1>2. nextChunk \in Nat /\ size \in Nat /\ Len(text) \in Nat
    <2>1. Len(text) \in Nat
      OBVIOUS
    <2> QED
      BY <1>1, <2>1, ChunksAreFinite
  <1>3. nextChunk + Len(text) - from - 1 = nextChunk + size - 1
    BY <1>1, <1>2
  <1>4. /\ chunks' = [c \in Live \cup fresh |-> IF c \in Live THEN chunks[c] ELSE new(c)]
        /\ sync' = [sync EXCEPT !.pc = pc, !.fresh = fresh]
        /\ rows' = rows /\ rows[f] # Absent
    BY <1>3 DEF InsertLines
  <1>5. \A c \in fresh : /\ new(c).file = f /\ new(c).at \in Nat /\ new(c).at <= Len(text)
    BY <1>1, <1>2
  <1> HIDE DEF new, fresh
  <1>6. Live' = Live \cup fresh
    BY <1>4 DEF Live
  <1>7. /\ \A c \in Live : chunks'[c] = chunks[c]
        /\ \A c \in fresh \ Live : chunks'[c] = new(c)
    BY <1>4
  <1>8. \A g : g # f => /\ ChunksOf(g)' = ChunksOf(g)
                      /\ \A c \in ChunksOf(g) : chunks'[c] = chunks[c]
    BY <1>5, <1>6, <1>7 DEF ChunksOf
  <1>9. (\A c \in Live : chunks[c].at \in Nat)'
    BY <1>5, <1>6, <1>7 DEF ContentInv
  <1>10. ASSUME NEW m \in Nat, StandWithin(f, m), Len(text) <= m
         PROVE  StandWithin(f, m)'
    <2>1. \A c \in fresh : new(c).at <= m
      BY <1>2, <1>5, <1>10
    <2> QED
      BY <1>6, <1>7, <1>10, <2>1 DEF StandWithin, ChunksOf
  <1>11. /\ sync'.pc = pc /\ sync'.file = f /\ sync'.text = sync.text
         /\ sync'.from = sync.from
    BY <1>4, SyncFacts DEF Syncs
  <1> QED
    BY <1>4, <1>8, <1>9, <1>10, <1>11

LEMMA DropFrame ==
    ASSUME ContentInv, NEW f, DropChunks(ChunksOf(f))
    PROVE  /\ \A g : g # f => /\ ChunksOf(g)' = ChunksOf(g)
                            /\ \A c \in ChunksOf(g) : chunks'[c] = chunks[c]
           /\ (\A c \in Live : chunks[c].at \in Nat)'
           /\ ChunksOf(f)' = {}
           /\ HasLines(f, <<>>)'
           /\ \A n : StandWithin(f, n)'
  <1>1. chunks' = [c \in Live \ ChunksOf(f) |-> chunks[c]]
    BY DEF DropChunks
  <1>2. Live' = Live \ ChunksOf(f) /\ \A c \in Live' : chunks'[c] = chunks[c]
    BY <1>1 DEF Live
  <1>3. ChunksOf(f)' = {}
    BY <1>2 DEF ChunksOf
  <1>4. \A g : g # f => /\ ChunksOf(g)' = ChunksOf(g)
                      /\ \A c \in ChunksOf(g) : chunks'[c] = chunks[c]
    BY <1>2 DEF ChunksOf
  <1>5. (\A c \in Live : chunks[c].at \in Nat)'
    BY <1>2 DEF ContentInv
  <1>6. Cardinality(ChunksOf(f))' = 0 /\ Len(<<>>) = 0
    BY <1>3, FS_EmptySet
  <1> QED
    BY <1>3, <1>4, <1>5, <1>6 DEF HasLines, StandWithin

\* What a sync at work knows of its file.
LEMMA FileAtWork ==
    ASSUME IndexInv, ContentInv, sync.pc \notin {"idle", "pick"}
    PROVE  /\ sync # NoSync /\ sync \in Syncs /\ sync.file \in Files
           /\ sync.text \in Seq(Lines) /\ Len(sync.text) \in Nat
           /\ Halfway => rows[sync.file] \in Texts
           /\ NextFile.pc = "pick"
  <1>1. sync # NoSync
    BY DEF NoSync
  <1>2. /\ sync \in Syncs /\ sync.file \in Files
        /\ sync.text \in Seq(Lines) /\ Len(sync.text) \in Nat
    BY <1>1, SyncFacts
  <1>3. Halfway => rows[sync.file] \in Texts
    BY <1>2 DEF ContentInv, WorkIsSound, IndexInv, IndexTypeOK, TextsOrAbsent
  <1>4. NextFile.pc = "pick"
    BY <1>2 DEF NextFile, Syncs
  <1> QED
    BY <1>1, <1>2, <1>3, <1>4

\* The comparison with what is there, and what it drops.
LEMMA ReplacedChunks ==
    ASSUME IndexInv, ContentInv, ReplaceChunks
    PROVE  ContentInv'
  <1>1. PICK f, text : f = sync.file /\ text = sync.text
    OBVIOUS
  <1>2. /\ sync.pc = "replace" /\ Halfway /\ sync # NoSync /\ sync \in Syncs
        /\ f \in Files /\ text \in Seq(Lines) /\ Len(text) \in Nat
        /\ rows[f] = text /\ text \in Texts /\ text # Absent
        /\ sync.from = 0 /\ (f \in misindexed \/ ~HasLines(f, text))
        /\ rows' = rows
    <2>1. sync.pc = "replace" /\ Halfway
      BY DEF ReplaceChunks, Halfway
    <2> QED
      BY <1>1, <2>1, FileAtWork, TextFacts DEF ReplaceChunks, ContentInv, WorkIsSound
  <1>3. CASE HasLines(f, text)
    <2>1. UNCHANGED chunks /\ sync' = NextFile /\ sync'.pc = "pick"
      BY <1>1, <1>2, <1>3, FileAtWork DEF ReplaceChunks
    <2>2. misindexed' = IF StandWithin(f, Len(text)) THEN misindexed \ {f} ELSE misindexed
      BY <1>1, <1>2, <1>3 DEF ReplaceChunks, StandWithin
    <2>3. \A g : ChunksOf(g)' = ChunksOf(g)
      BY <2>1 DEF ChunksOf, Live
    <2>4. OthersAreKept(f)
      BY <1>2, <2>1, <2>2, <2>3 DEF OthersAreKept
    <2>5. (HasLines(f, text)' <=> HasLines(f, text))
          /\ (StandWithin(f, Len(text))' <=> StandWithin(f, Len(text)))
      BY <2>1, <2>3, LinesKept
    <2>6. f \in misindexed' \/ (HasLines(f, text)' /\ StandWithin(f, Len(text))')
      BY <1>2, <1>3, <2>2, <2>5
    <2>7. f \in misindexed' \/ IsIndexed(f)'
      BY <1>2, <2>6 DEF IsIndexed, HasLines, StandWithin
    <2>8. FilesAreIndexed'
      BY <1>1, <1>2, <2>4, <2>7, FilesKept
    <2>9. WorkIsSound'
      BY <2>1 DEF WorkIsSound, Halfway
    <2> QED
      BY <2>1, <2>8, <2>9 DEF ContentInv, Live
  <1>4. CASE ~HasLines(f, text)
    <2>1. /\ DropChunks(ChunksOf(f)) /\ UNCHANGED misindexed
          /\ sync' = [sync EXCEPT !.pc = "insert"]
      BY <1>1, <1>4 DEF ReplaceChunks
    <2>2. /\ sync'.pc = "insert" /\ sync'.file = f /\ sync'.text = text /\ sync'.from = 0
      BY <1>1, <1>2, <2>1 DEF Syncs
    <2>3. OthersAreKept(f)
      BY <1>2, <2>1, DropFrame DEF OthersAreKept
    <2>4. FilesAreIndexed'
      BY <1>1, <1>2, <2>2, <2>3, FilesKept DEF Halfway
    <2>5. WorkIsSound'
      <3>1. SubSeq(text, 1, 0) = <<>>
        BY <1>2
      <3>2. HasLines(f, <<>>)' /\ StandWithin(f, 0)'
        BY <2>1, DropFrame
      <3> QED
        BY <1>2, <2>2, <3>1, <3>2 DEF WorkIsSound, HasLines, StandWithin
    <2> QED
      BY <2>1, <2>4, <2>5, DropFrame DEF ContentInv
  <1> QED
    BY <1>3, <1>4

\* What was there of a stream is dropped, and of a file that was not found.
LEMMA DroppedChunks ==
    ASSUME IndexInv, ContentInv, DropStreamed \/ \E f \in Files : DeleteOrphan(f)
    PROVE  ContentInv'
  <1>1. CASE DropStreamed
    <2>1. PICK f : f = sync.file
      OBVIOUS
    <2>2. /\ sync.pc = "drop" /\ Halfway /\ sync \in Syncs /\ f \in Files
          /\ rows[f] \in Texts /\ rows' = rows /\ rows[f] # Absent
          /\ DropChunks(ChunksOf(f)) /\ misindexed' = misindexed \ {f}
          /\ sync' = [sync EXCEPT !.pc = "read"]
      <3>1. sync.pc = "drop" /\ Halfway
        BY <1>1 DEF DropStreamed, Halfway
      <3> QED
        BY <1>1, <2>1, <3>1, FileAtWork, TextFacts DEF DropStreamed
    <2>3. sync'.pc = "read" /\ sync'.file = f
      BY <2>1, <2>2 DEF Syncs
    <2>4. OthersAreKept(f)
      BY <2>2, DropFrame DEF OthersAreKept
    <2>5. FilesAreIndexed'
      BY <2>1, <2>2, <2>3, <2>4, FilesKept DEF Halfway
    <2>6. WorkIsSound'
      BY <2>2, <2>3, DropFrame DEF WorkIsSound
    <2> QED
      BY <2>2, <2>5, <2>6, DropFrame DEF ContentInv
  <1>2. ASSUME NEW f \in Files, DeleteOrphan(f)
        PROVE  ContentInv'
    <2>1. /\ sync.pc = "pick" /\ ~Halfway /\ sync # NoSync
          /\ DropChunks(ChunksOf(f)) /\ misindexed' = misindexed \ {f}
          /\ rows' = [rows EXCEPT ![f] = Absent]
          /\ sync' = [sync EXCEPT !.orphans = @ \ {f}]
      BY <1>2 DEF DeleteOrphan, Halfway, NoSync
    <2>2. sync'.pc = "pick"
      BY <2>1, SyncFacts DEF Syncs
    <2>3. rows'[f] = Absent /\ \A g \in Files \ {f} : rows'[g] = rows[g]
      BY <2>1 DEF IndexInv, IndexTypeOK
    <2>4. OthersAreKept(f)
      BY <2>1, <2>3, DropFrame DEF OthersAreKept
    <2>5. FilesAreIndexed'
      BY <2>1, <2>3, <2>4, DropFrame, FilesKept
    <2>6. WorkIsSound'
      BY <2>2 DEF WorkIsSound, Halfway
    <2> QED
      BY <2>1, <2>5, <2>6, DropFrame DEF ContentInv
  <1> QED
    BY <1>1, <1>2

\* The lines of a rewritten text, or those that an append brings.
LEMMA InsertedText ==
    ASSUME IndexInv, ContentInv, InsertChunks
    PROVE  ContentInv'
  <1>1. PICK f, text, from : f = sync.file /\ text = sync.text /\ from = sync.from
    OBVIOUS
  <1>2. /\ sync.pc = "insert" /\ Halfway /\ sync # NoSync /\ sync \in Syncs
        /\ f \in Files /\ text \in Seq(Lines) /\ Len(text) \in Nat
        /\ from \in Nat /\ from <= Len(text) /\ rows[f] = text
        /\ from = 0 \/ f \notin misindexed =>
             HasLines(f, SubSeq(text, 1, from)) /\ StandWithin(f, from)
        /\ InsertLines(text, from, "embed")
        /\ misindexed' = IF from = 0 THEN misindexed \ {f} ELSE misindexed
    <2>1. sync.pc = "insert" /\ Halfway
      BY DEF InsertChunks, Halfway
    <2> QED
      BY <1>1, <2>1, FileAtWork, SyncFacts DEF InsertChunks, ContentInv, WorkIsSound
  <1>3. /\ \A g : g # f => /\ ChunksOf(g)' = ChunksOf(g)
                          /\ \A c \in ChunksOf(g) : chunks'[c] = chunks[c]
        /\ (\A c \in Live : chunks[c].at \in Nat)'
        /\ \A m \in Nat : StandWithin(f, m) /\ Len(text) <= m => StandWithin(f, m)'
        /\ rows' = rows /\ rows[f] # Absent
        /\ sync'.pc = "embed"
    <2>1. PICK pc : pc = "embed"
      OBVIOUS
    <2>2. pc \in {"embed", "vectors"} /\ InsertLines(text, from, pc)
      BY <1>2, <2>1
    <2> QED
      BY <1>1, <1>2, <2>1, <2>2, InsertFrame
  <1>4. ASSUME from = 0 \/ f \notin misindexed
        PROVE  HasLines(f, text)' /\ StandWithin(f, Len(text))'
    <2>1. PICK have : have = SubSeq(text, 1, from)
      OBVIOUS
    <2>2. /\ HasLines(f, have) /\ Len(have) = from /\ \A i \in 1 .. from : text[i] = have[i]
      BY <1>2, <1>4, <2>1
    <2>3. Cardinality(ChunksOf(f)) = from
      BY <2>2 DEF HasLines
    <2>4. StandWithin(f, from + 1) /\ StandWithin(f, Len(text))
      <3>1. \A c \in ChunksOf(f) : chunks[c].at \in Nat /\ chunks[c].at <= from
        BY <1>2, <1>4 DEF ContentInv, StandWithin, ChunksOf
      <3>2. \A c \in ChunksOf(f) : chunks[c].at <= from + 1 /\ chunks[c].at <= Len(text)
        BY <1>2, <3>1
      <3> QED
        BY <3>2 DEF StandWithin
    <2>5. HasLines(f, text)'
      <3>1. PICK pc : pc = "embed"
        OBVIOUS
      <3>2. InsertLines(text, from, pc)
        BY <1>2, <3>1
      <3>3. PICK want : want = text
        OBVIOUS
      <3>4. Len(want) = Cardinality(ChunksOf(f)) + Len(text) - from
        BY <1>2, <2>3, <3>3
      <3>5. \A i \in 1 .. Cardinality(ChunksOf(f)) : want[i] = have[i]
        BY <2>2, <2>3, <3>3
      <3>6. \A i \in 1 .. Len(text) - from :
               want[Cardinality(ChunksOf(f)) + i] = text[from + i]
        BY <2>3, <3>3
      <3>7. /\ \A c \in Live : chunks[c].at \in Nat
            /\ sync.file = f /\ text \in Seq(Lines) /\ from \in Nat /\ from <= Len(text)
            /\ HasLines(f, have) /\ StandWithin(f, from + 1)
        BY <1>1, <1>2, <2>2, <2>4 DEF ContentInv
      <3>8. HasLines(f, want)'
        <4>1. Continues(f, have, text, from, want)
          BY <3>4, <3>5, <3>6, <3>7 DEF Continues
        <4> QED
          BY <3>2, <3>7, <4>1, InsertedLines
      <3> QED
        BY <3>3, <3>8
    <2>6. StandWithin(f, Len(text))'
      BY <1>2, <1>3, <2>4
    <2> QED
      BY <2>5, <2>6
  <1>5. f \in misindexed' \/ IsIndexed(f)'
    <2>1. f \in misindexed' \/ (HasLines(f, text)' /\ StandWithin(f, Len(text))')
      BY <1>2, <1>4
    <2> QED
      BY <1>2, <1>3, <2>1 DEF IsIndexed, HasLines, StandWithin
  <1>6. FilesAreIndexed'
    <2>1. OthersAreKept(f)
      BY <1>2, <1>3 DEF OthersAreKept
    <2> QED
      BY <1>1, <1>2, <1>3, <1>5, <2>1, FilesKept
  <1>7. WorkIsSound'
    BY <1>3 DEF WorkIsSound, Halfway
  <1> QED
    BY <1>3, <1>6, <1>7 DEF ContentInv

LEMMA SameSequence ==
    ASSUME NEW s \in Seq(Lines), NEW t \in Seq(Lines), Len(s) = Len(t),
           \A i \in 1 .. Len(t) : s[i] = t[i]
    PROVE  s = t
  OBVIOUS

\* The rest of a text after its first k lines.
LEMMA RestOfText ==
    ASSUME NEW r \in Seq(Lines), NEW k \in 0 .. Len(r),
           NEW t, t = SubSeq(r, k + 1, Len(r))
    PROVE  /\ t = <<>> => k = Len(r)
           /\ t # <<>> => /\ k + 1 \in 0 .. Len(r) /\ Head(t) = r[k + 1]
                         /\ Tail(t) = SubSeq(r, (k + 1) + 1, Len(r))
  <1>1. Len(r) \in Nat /\ k \in Nat /\ k <= Len(r)
    OBVIOUS
  <1>2. /\ Len(t) = Len(r) - k /\ t \in Seq(Lines)
        /\ \A i \in 1 .. Len(r) - k : t[i] = r[k + i]
    BY <1>1
  <1>3. t = <<>> => k = Len(r)
    <2>1. t = <<>> => Len(t) = 0
      OBVIOUS
    <2>2. Len(r) - k = 0 => k = Len(r)
      BY <1>1
    <2> QED
      BY <1>2, <2>1, <2>2
  <1>4. ASSUME t # <<>>
        PROVE  /\ k + 1 \in 0 .. Len(r) /\ Head(t) = r[k + 1]
               /\ Tail(t) = SubSeq(r, (k + 1) + 1, Len(r))
    <2>1. Len(t) # 0
      BY <1>2, <1>4
    <2>2. k + 1 \in 0 .. Len(r) /\ Head(t) = r[k + 1]
      BY <1>1, <1>2, <1>4, <2>1
    <2>3. PICK rest : rest = SubSeq(r, (k + 1) + 1, Len(r))
      OBVIOUS
    <2>4. /\ rest \in Seq(Lines) /\ Len(rest) = Len(r) - (k + 1)
          /\ \A i \in 1 .. Len(r) - (k + 1) : rest[i] = r[k + 1 + i]
      BY <1>1, <2>2, <2>3
    <2>5. /\ Tail(t) \in Seq(Lines) /\ Len(Tail(t)) = Len(t) - 1
          /\ \A i \in 1 .. Len(t) - 1 : Tail(t)[i] = t[i + 1]
      BY <1>2, <1>4
    <2>6. ASSUME NEW i \in 1 .. Len(rest)
          PROVE  Tail(t)[i] = rest[i]
      <3>1. /\ i \in 1 .. Len(t) - 1 /\ i \in 1 .. Len(r) - (k + 1)
            /\ i + 1 \in 1 .. Len(r) - k /\ k + (i + 1) = k + 1 + i
        BY <1>1, <1>2, <2>4
      <3>2. Tail(t)[i] = t[i + 1] /\ rest[i] = r[k + 1 + i] /\ t[i + 1] = r[k + (i + 1)]
        BY <1>2, <2>4, <2>5, <3>1
      <3> QED
        BY <3>1, <3>2
    <2>7. Len(Tail(t)) = Len(rest)
      BY <1>1, <1>2, <2>4, <2>5
    <2>8. Tail(t) = rest
      <3>1. PICK u : u = Tail(t)
        OBVIOUS
      <3>2. u \in Seq(Lines) /\ Len(u) = Len(rest) /\ \A i \in 1 .. Len(rest) : u[i] = rest[i]
        BY <2>5, <2>6, <2>7, <3>1
      <3>3. rest \in Seq(Lines)
        BY <2>4
      <3>4. u = rest
        BY <3>2, <3>3, SameSequence
      <3> QED
        BY <3>1, <3>4
    <2> QED
      BY <2>2, <2>3, <2>8
  <1> QED
    BY <1>3, <1>4

\* A stream is opened with the whole of a text to come.
LEMMA OpenedStream ==
    ASSUME IndexInv, ContentInv, OpenStream
    PROVE  ContentInv'
  <1>1. PICK f : f = sync.file
    OBVIOUS
  <1>2. /\ sync.pc = "read" /\ Halfway /\ sync \in Syncs /\ f \in Files
        /\ ChunksOf(f) = {} /\ rows[f] # Absent /\ rows[f] \in Texts
        /\ UNCHANGED <<chunks, rows>>
    <2>1. sync.pc = "read" /\ Halfway
      BY DEF OpenStream, Halfway
    <2> QED
      BY <1>1, <2>1, FileAtWork, TextFacts DEF OpenStream, ContentInv, WorkIsSound, outboxVars
  <1>3. PICK text \in Texts :
          /\ sync' = [sync EXCEPT !.pc = "flush", !.text = text]
          /\ misindexed' = IF text = rows[f] THEN misindexed ELSE misindexed \cup {f}
    BY <1>1 DEF OpenStream
  <1>4. sync'.pc = "flush" /\ sync'.file = f /\ sync'.text = text
    BY <1>1, <1>2, <1>3, TextFacts DEF Syncs
  <1>5. \A g : ChunksOf(g)' = ChunksOf(g)
    BY <1>2 DEF ChunksOf, Live
  <1>6. FilesAreIndexed'
    <2>1. OthersAreKept(f)
      BY <1>2, <1>3, <1>5 DEF OthersAreKept
    <2> QED
      BY <1>1, <1>2, <1>4, <2>1, FilesKept DEF Halfway
  <1>7. StandWithin(f, 1)'
    BY <1>2, <1>5 DEF StandWithin
  <1>8. ASSUME f \notin misindexed'
        PROVE  \E k \in 0 .. Len(text) : /\ HasLines(f, SubSeq(text, 1, k))'
                                         /\ text = SubSeq(text, k + 1, Len(text))
    <2>1. text \in Seq(Lines) /\ Len(text) \in Nat
      BY TextFacts
    <2>2. SubSeq(text, 1, 0) = <<>> /\ SubSeq(text, 0 + 1, Len(text)) = text
      BY <2>1
    <2>3. HasLines(f, <<>>)'
      <3>1. Cardinality(ChunksOf(f))' = 0 /\ Len(<<>>) = 0
        BY <1>2, <1>5, FS_EmptySet
      <3> QED
        BY <1>2, <1>5, <3>1 DEF HasLines
    <2>4. 0 \in 0 .. Len(text)
      BY <2>1
    <2> QED
      BY <2>2, <2>3, <2>4
  <1>9. f \notin misindexed' => rows'[f] = text
    BY <1>2, <1>3
  <1>10. WorkIsSound'
    BY <1>2, <1>4, <1>7, <1>8, <1>9 DEF WorkIsSound, Unread, StandWithin, HasLines
  <1>11. (\A c \in Live : chunks[c].at \in Nat)'
    BY <1>2 DEF ContentInv, Live
  <1> QED
    BY <1>6, <1>10, <1>11 DEF ContentInv

\* A batch of a line: as many lines as chunks, and one more.
LEMMA FlushedChunks ==
    ASSUME IndexInv, ContentInv, FlushChunks
    PROVE  ContentInv'
  <1>1. PICK f, text, r, one, zero, pc :
          /\ f = sync.file /\ text = sync.text /\ r = rows[f]
          /\ one = <<Head(text)>> /\ zero = 0 /\ pc = "vectors"
    OBVIOUS
  <1>2. /\ sync.pc = "flush" /\ Halfway /\ sync # NoSync /\ sync \in Syncs
        /\ f \in Files /\ text \in Seq(Lines) /\ text # <<>>
        /\ r \in Texts /\ r \in Seq(Lines) /\ Len(r) \in Nat /\ r # Absent
        /\ StandWithin(f, 1) /\ misindexed' = misindexed
        /\ InsertLines(one, zero, pc)
    <2>1. sync.pc = "flush" /\ Halfway /\ text # <<>>
      BY <1>1 DEF FlushChunks, Halfway
    <2>2. WorkIsSound
      BY DEF ContentInv
    <2>3. StandWithin(f, 1)
      BY <1>1, <2>1, <2>2 DEF WorkIsSound
    <2>4. InsertLines(one, zero, pc) /\ misindexed' = misindexed
      BY <1>1 DEF FlushChunks
    <2> QED
      BY <1>1, <2>1, <2>3, <2>4, FileAtWork, TextFacts
  <1>3. f \notin misindexed =>
          \E k \in 0 .. Len(r) : HasLines(f, SubSeq(r, 1, k)) /\ text = SubSeq(r, k + 1, Len(r))
    <2>1. WorkIsSound
      BY DEF ContentInv
    <2>2. Unread = text
      BY <1>1, <1>2 DEF Unread
    <2> QED
      BY <1>1, <1>2, <2>1, <2>2 DEF WorkIsSound
  <1>4. one \in Seq(Lines) /\ Len(one) = 1 /\ one[1] = Head(text)
    BY <1>1, <1>2
  <1>5. zero \in Nat /\ zero <= Len(one) /\ pc \in {"embed", "vectors"}
    BY <1>1, <1>4
  <1>6. /\ \A g : g # f => /\ ChunksOf(g)' = ChunksOf(g)
                          /\ \A c \in ChunksOf(g) : chunks'[c] = chunks[c]
        /\ (\A c \in Live : chunks[c].at \in Nat)'
        /\ \A m \in Nat : StandWithin(f, m) /\ Len(one) <= m => StandWithin(f, m)'
        /\ rows' = rows /\ rows[f] # Absent
        /\ sync'.pc = pc /\ sync'.file = f /\ sync'.text = sync.text
    BY <1>1, <1>2, <1>4, <1>5, InsertFrame
  <1>7. StandWithin(f, 1)'
    BY <1>2, <1>4, <1>6
  <1>8. ASSUME f \notin misindexed
        PROVE  \E k \in 0 .. Len(r) : /\ HasLines(f, SubSeq(r, 1, k))'
                                      /\ Tail(text) = SubSeq(r, k + 1, Len(r))
    <2>1. PICK k \in 0 .. Len(r) :
            HasLines(f, SubSeq(r, 1, k)) /\ text = SubSeq(r, k + 1, Len(r))
      BY <1>3, <1>8
    <2>2. /\ k + 1 \in 0 .. Len(r) /\ Head(text) = r[k + 1]
          /\ Tail(text) = SubSeq(r, (k + 1) + 1, Len(r))
      BY <1>2, <2>1, RestOfText
    <2>3. PICK have, want : have = SubSeq(r, 1, k) /\ want = SubSeq(r, 1, k + 1)
      OBVIOUS
    <2>4. /\ Len(have) = k /\ \A i \in 1 .. k : have[i] = r[i]
          /\ Len(want) = k + 1 /\ \A i \in 1 .. k + 1 : want[i] = r[i]
      BY <1>2, <2>2, <2>3
    <2>5. HasLines(f, have)
      BY <2>1, <2>3
    <2>6. Cardinality(ChunksOf(f)) = k
      BY <2>4, <2>5 DEF HasLines
    <2>7. Len(want) = Cardinality(ChunksOf(f)) + Len(one) - zero
      BY <1>1, <1>4, <2>1, <2>4, <2>6
    <2>8. \A i \in 1 .. Cardinality(ChunksOf(f)) : want[i] = have[i]
      BY <2>1, <2>4, <2>6
    <2>9. \A i \in 1 .. Len(one) - zero : want[Cardinality(ChunksOf(f)) + i] = one[zero + i]
      <3>1. \A i \in 1 .. Len(one) - zero : i = 1 /\ zero + i = 1
        BY <1>1, <1>4
      <3>2. want[k + 1] = one[1]
        BY <1>4, <2>1, <2>2, <2>4
      <3> QED
        BY <2>6, <3>1, <3>2
    <2>10. /\ \A c \in Live : chunks[c].at \in Nat
           /\ sync.file = f /\ StandWithin(f, zero + 1)
      BY <1>1, <1>2 DEF ContentInv
    <2>11. zero <= Len(one)
      BY <1>5
    <2>12. InsertLines(one, zero, pc) /\ one \in Seq(Lines) /\ zero \in Nat
      BY <1>2, <1>4, <1>5
    <2>13. HasLines(f, want)'
      <3>1. Continues(f, have, one, zero, want)
        BY <2>5, <2>7, <2>8, <2>9, <2>10 DEF Continues
      <3> QED
        BY <2>10, <2>11, <2>12, <3>1, InsertedLines
    <2> QED
      BY <2>2, <2>3, <2>13
  <1>9. FilesAreIndexed'
    <2>1. OthersAreKept(f)
      BY <1>2, <1>6 DEF OthersAreKept
    <2>2. Halfway' /\ sync'.file = f
      BY <1>1, <1>6 DEF Halfway
    <2> QED
      BY <1>1, <1>2, <1>6, <2>1, <2>2, FilesKept
  <1>10. WorkIsSound'
    BY <1>1, <1>2, <1>6, <1>7, <1>8 DEF WorkIsSound, Unread, StandWithin, HasLines
  <1> QED
    BY <1>6, <1>9, <1>10 DEF ContentInv

\* Its vectors and its entries, or an error: the stream goes on behind the line.
LEMMA FlushedLine ==
    ASSUME IndexInv, ContentInv, FlushVectors \/ FlushEntries
    PROVE  ContentInv'
  <1>1. PICK f, text, r : f = sync.file /\ text = sync.text /\ r = rows[f]
    OBVIOUS
  <1>2. /\ sync.pc \in {"vectors", "queue"} /\ Halfway /\ sync \in Syncs
        /\ f \in Files /\ text \in Seq(Lines) /\ text # <<>> /\ r # Absent
        /\ UNCHANGED <<chunks, rows, misindexed>>
    <2>1. sync.pc \in {"vectors", "queue"} /\ Halfway
          /\ UNCHANGED <<chunks, rows, misindexed>>
      BY DEF FlushVectors, FlushEntries, Halfway
    <2> QED
      BY <1>1, <2>1, FileAtWork, SyncFacts, TextFacts
  <1>3. PICK t : t = Tail(text)
    OBVIOUS
  <1>4. /\ sync'.file = f /\ sync'.pc \in {"queue", "flush"}
        /\ sync'.text = IF sync'.pc = "queue" THEN text ELSE t
    <2>1. t \in Seq(Lines)
      BY <1>2, <1>3
    <2>2. \/ sync' = [sync EXCEPT !.pc = "queue"]
          \/ sync' = [sync EXCEPT !.pc = "flush", !.text = t, !.fresh = {}]
      BY <1>1, <1>3 DEF FlushVectors, FlushEntries
    <2>3. CASE sync' = [sync EXCEPT !.pc = "queue"]
      BY <1>1, <1>2, <2>3 DEF Syncs
    <2>4. CASE sync' = [sync EXCEPT !.pc = "flush", !.text = t, !.fresh = {}]
      BY <1>1, <1>2, <2>1, <2>4 DEF Syncs
    <2> QED
      BY <2>2, <2>3, <2>4
  <1>5. Unread = t /\ Unread' = t
    BY <1>1, <1>2, <1>3, <1>4 DEF Unread
  <1>6. StandWithin(f, 1) /\ (f \notin misindexed =>
          \E k \in 0 .. Len(r) : HasLines(f, SubSeq(r, 1, k)) /\ t = SubSeq(r, k + 1, Len(r)))
    BY <1>1, <1>2, <1>5 DEF ContentInv, WorkIsSound
  <1>7. \A g : ChunksOf(g)' = ChunksOf(g)
    BY <1>2 DEF ChunksOf, Live
  <1>8. /\ \A u : HasLines(f, u)' <=> HasLines(f, u)
        /\ \A n : StandWithin(f, n)' <=> StandWithin(f, n)
    BY <1>2, <1>7, LinesKept
  <1>9. StandWithin(f, 1)' /\ (f \notin misindexed' =>
          \E k \in 0 .. Len(r) : HasLines(f, SubSeq(r, 1, k))' /\ t = SubSeq(r, k + 1, Len(r)))
    BY <1>2, <1>6, <1>8
  <1>10. FilesAreIndexed'
    <2>1. OthersAreKept(f)
      BY <1>2, <1>7 DEF OthersAreKept
    <2>2. Halfway' /\ sync'.file = f
      BY <1>4 DEF Halfway
    <2> QED
      BY <1>1, <1>2, <2>1, <2>2, FilesKept
  <1>11. WorkIsSound'
    BY <1>1, <1>2, <1>4, <1>5, <1>9 DEF WorkIsSound, StandWithin, HasLines
  <1>12. (\A c \in Live : chunks[c].at \in Nat)'
    BY <1>2 DEF ContentInv, Live
  <1> QED
    BY <1>10, <1>11, <1>12 DEF ContentInv

\* Nothing is left of the stream: the chunks are the lines of the whole text.
LEMMA EndedStream ==
    ASSUME IndexInv, ContentInv, EndStream
    PROVE  ContentInv'
  <1>1. PICK f, r : f = sync.file /\ r = rows[f]
    OBVIOUS
  <1>2. /\ sync.pc = "flush" /\ Halfway /\ f \in Files /\ r \in Texts /\ r # Absent
        /\ UNCHANGED <<chunks, rows, misindexed>> /\ sync'.pc = "pick"
        /\ r \in Seq(Lines) /\ Len(r) \in Nat /\ r # <<>>
    <2>1. /\ sync.pc = "flush" /\ Halfway /\ sync' = NextFile
          /\ UNCHANGED <<chunks, rows, misindexed>>
      BY DEF EndStream, Halfway, outboxVars
    <2> QED
      BY <1>1, <2>1, FileAtWork, TextFacts
  <1>3. Unread = <<>>
    BY <1>2 DEF EndStream, Unread
  <1>4. StandWithin(f, 1) /\ (f \notin misindexed =>
          \E k \in 0 .. Len(r) : HasLines(f, SubSeq(r, 1, k)) /\ <<>> = SubSeq(r, k + 1, Len(r)))
    BY <1>1, <1>2, <1>3 DEF ContentInv, WorkIsSound
  <1>5. ASSUME f \notin misindexed
        PROVE  IsIndexed(f)
    <2>1. PICK k \in 0 .. Len(r) :
            HasLines(f, SubSeq(r, 1, k)) /\ <<>> = SubSeq(r, k + 1, Len(r))
      BY <1>4, <1>5
    <2>2. PICK t : t = <<>>
      OBVIOUS
    <2>3. k = Len(r)
      BY <1>2, <2>1, <2>2, RestOfText
    <2>4. SubSeq(r, 1, Len(r)) = r
      BY <1>2
    <2>5. HasLines(f, r)
      BY <2>1, <2>3, <2>4
    <2>6. StandWithin(f, Len(r))
      <3>1. \A c \in ChunksOf(f) : chunks[c].at \in Nat /\ chunks[c].at <= 1
        BY <1>4 DEF ContentInv, StandWithin, ChunksOf
      <3>2. Len(r) >= 1
        BY <1>2
      <3> QED
        BY <1>2, <3>1, <3>2 DEF StandWithin
    <2> QED
      BY <1>1, <2>5, <2>6 DEF IsIndexed
  <1>6. \A g : ChunksOf(g)' = ChunksOf(g)
    BY <1>2 DEF ChunksOf, Live
  <1>7. /\ \A u : HasLines(f, u)' <=> HasLines(f, u)
        /\ \A n : StandWithin(f, n)' <=> StandWithin(f, n)
    BY <1>2, <1>6, LinesKept
  <1>8. f \in misindexed' \/ IsIndexed(f)'
    <2>1. f \in misindexed' \/ (HasLines(f, r)' /\ StandWithin(f, Len(r))')
      BY <1>1, <1>2, <1>5, <1>7 DEF IsIndexed
    <2> QED
      BY <1>1, <1>2, <2>1 DEF IsIndexed, HasLines, StandWithin
  <1>9. FilesAreIndexed'
    <2>1. OthersAreKept(f)
      BY <1>2, <1>6 DEF OthersAreKept
    <2> QED
      BY <1>1, <1>2, <1>8, <2>1, FilesKept
  <1>10. WorkIsSound'
    BY <1>2 DEF WorkIsSound, Halfway
  <1>11. (\A c \in Live : chunks[c].at \in Nat)'
    BY <1>2 DEF ContentInv, Live
  <1> QED
    BY <1>9, <1>10, <1>11 DEF ContentInv

------------------------------------------------------------------------------
(* The theorem.                                                             *)

LEMMA ContentInitial ==
    ASSUME Init
    PROVE  ContentInv
  <1>1. /\ Live = {} /\ \A f \in Files : rows[f] = Absent
        /\ sync.pc = "idle"
    BY DEF Init, OutboxInit, Live, NoSync
  <1>2. FilesAreIndexed
    BY <1>1 DEF FilesAreIndexed, ChunksOf
  <1>3. WorkIsSound
    BY <1>1 DEF WorkIsSound, Halfway
  <1> QED
    BY <1>1, <1>2, <1>3 DEF ContentInv

LEMMA ContentStep ==
    ASSUME IndexInv, ContentInv, [Next]_vars
    PROVE  ContentInv'
  <1>1. CASE SyncStep
    <2>1. CASE StartSync \/ StoreVectors \/ FinishSync \/ AbandonFile
               \/ \E f \in Files : StartSyncFiles(f)
      BY <2>1, RestingSteps
    <2>2. CASE \E f \in Files : RecordFile(f) \/ HashStream(f)
      BY <2>2, RecordedFile
    <2>3. CASE ReplaceChunks
      BY <2>3, ReplacedChunks
    <2>4. CASE DropStreamed \/ \E f \in Files : DeleteOrphan(f)
      BY <2>4, DroppedChunks
    <2>5. CASE InsertChunks
      BY <2>5, InsertedText
    <2>6. CASE OpenStream
      BY <2>6, OpenedStream
    <2>7. CASE FlushChunks
      BY <2>7, FlushedChunks
    <2>8. CASE FlushVectors \/ FlushEntries
      BY <2>8, FlushedLine
    <2>9. CASE EndStream
      BY <2>9, EndedStream
    <2> QED
      BY <1>1, <2>1, <2>2, <2>3, <2>4, <2>5, <2>6, <2>7, <2>8, <2>9 DEF SyncStep
  <1>2. CASE Crash
    BY <1>2, RestingSteps
  <1>3. CASE OutboxStep
    <2>1. UNCHANGED chunks
      BY <1>3 DEF OutboxStep, Work, Poll, UpsertPoints, DeletePoints, SettleBatch, Purge,
                   PurgeDone, PurgeFailed
    <2> QED
      BY <1>3, <2>1, OtherHandlers DEF OutboxStep
  <1>4. CASE ReadUnembedded \/ StoreBackfill \/ FailBackfill \/ UNCHANGED vars
    BY <1>4, OtherHandlers
       DEF ReadUnembedded, StoreBackfill, FailBackfill, vars, outboxVars
  <1> QED
    BY <1>1, <1>2, <1>3, <1>4 DEF Next

\* The chunks of a file are the lines of the text whose hash its row has, through
\* rewrites, appends, skipped files, streams, orphans and backfills, and through the
\* outbox whatever its workers do (index.rs process_raw_file, process_jsonl_streaming),
\* for any texts.  A sync of the file that stopped halfway is excepted, and an append
\* to a file whose text is not stored, which compares nothing (index.rs:934-959); the
\* claim holds again once the file is indexed anew.
THEOREM FilesAreIndexedAsRecorded == Spec => []LinesAreIndexed
  <1>1. Init => IndexInv /\ ContentInv
    BY IndexInitial, ContentInitial
  <1>2. IndexInv /\ ContentInv /\ [Next]_vars => (IndexInv /\ ContentInv)'
    BY IndexStep, ContentStep
  <1>3. ContentInv => LinesAreIndexed
    BY DEF ContentInv, FilesAreIndexed, LinesAreIndexed, IsIndexed
  <1> QED
    BY <1>1, <1>2, <1>3, PTL DEF Spec

==============================================================================
