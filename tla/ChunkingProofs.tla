---------------------------- MODULE ChunkingProofs ----------------------------
(***************************************************************************)
(* Proofs about the functions that cut texts, for inputs of any length: the    *)
(* windows of characters advance and leave nothing out, the chunks of a         *)
(* conversation divide its lines among them, or its messages in the export of     *)
(* Gemini, and the chunks of a syntax tree, whatever its nodes are, leave out no   *)
(* word but in short stretches between units, with every chunk in its place.      *)
(*                                                                          *)
(* Induction is by the least number for which a claim fails.  Where a function   *)
(* is defined by recursion, it is first shown that there is one that satisfies   *)
(* its equation.                                                             *)
(***************************************************************************)
EXTENDS Chunking, TLAPS, WellFoundedInduction, FiniteSetTheorems

------------------------------------------------------------------------------
(* Induction and recursion.                                                 *)

\* A set of numbers has a least one.
LEMMA LeastNumber ==
    ASSUME NEW S, S \subseteq Nat, S # {}
    PROVE  \E m \in S : \A k \in S : m <= k
  <1>1. PICK R : R = OpToRel(<, Nat)
    OBVIOUS
  <1>2. \A i, j \in Nat : i < j => <<i, j>> \in R
    BY <1>1 DEF OpToRel
  <1>3. IsWellFoundedOn(R, Nat)
    BY <1>1, NatLessThanWellFounded
  <1>4. PICK m \in S : \A k \in S : ~ (<<k, m>> \in R)
    BY <1>3, WFMin
  <1>5. \A k \in S : ~ (k < m)
    BY <1>2, <1>4
  <1>6. \A k \in S : m <= k
    BY <1>5
  <1> QED
    BY <1>6

\* What holds of 0, and of each number up to n if it does of the one before.
LEMMA Induction ==
    ASSUME NEW n \in Nat, NEW S, 0 \in S, \A i \in 1 .. n : i - 1 \in S => i \in S
    PROVE  0 .. n \subseteq S
  <1> DEFINE T == (0 .. n) \ S
  <1>1. ASSUME T # {}
        PROVE  FALSE
    <2>1. T \subseteq Nat
      OBVIOUS
    <2>2. PICK m \in T : \A k \in T : m <= k
      BY <1>1, <2>1, LeastNumber
    <2>3. m \in 1 .. n /\ m - 1 \in 0 .. n /\ ~ (m <= m - 1)
      BY <2>2
    <2>4. m - 1 \in S
      BY <2>2, <2>3
    <2> QED
      BY <2>2, <2>3, <2>4
  <1> QED
    BY <1>1

\* Values of which each follows from the one before.
Follows(n, a, step, g) == g[0] = a /\ \A i \in 1 .. n : g[i] = step[<<i, g[i - 1]>>]

LEMMA Iteration ==
    ASSUME NEW n \in Nat, NEW A, NEW a \in A, NEW step \in [(1 .. n) \X A -> A]
    PROVE  \E g \in [0 .. n -> A] : Follows(n, a, step, g)
  <1> DEFINE Goes(m, g) == g[0] = a /\ \A i \in 1 .. m : g[i] = step[<<i, g[i - 1]>>]
             S == {m \in 0 .. n : \E g \in [0 .. m -> A] : Goes(m, g)}
  <1>1. 0 \in S
    <2> DEFINE g == [i \in 0 .. 0 |-> a]
    <2>1. g \in [0 .. 0 -> A]
      OBVIOUS
    <2>2. g[0] = a /\ 1 .. 0 = {}
      OBVIOUS
    <2> HIDE DEF g
    <2>3. Goes(0, g)
      BY <2>2
    <2>4. 0 \in 0 .. n
      OBVIOUS
    <2> QED
      BY <2>1, <2>3, <2>4
  <1>2. ASSUME NEW m \in 1 .. n, m - 1 \in S
        PROVE  m \in S
    <2>1. PICK h \in [0 .. m - 1 -> A] : Goes(m - 1, h)
      BY <1>2
    <2>2. h[m - 1] \in A
      BY <2>1
    <2> DEFINE g == [i \in 0 .. m |-> IF i = m THEN step[<<m, h[m - 1]>>] ELSE h[i]]
    <2>3. g \in [0 .. m -> A]
      BY <2>1, <2>2
    <2>4. g[0] = a
      <3>1. 0 \in 0 .. m /\ 0 # m
        OBVIOUS
      <3>2. g[0] = h[0]
        BY <3>1
      <3>3. h[0] = a
        BY <2>1
      <3> QED
        BY <3>2, <3>3
    <2>5. ASSUME NEW i \in 1 .. m
          PROVE  g[i] = step[<<i, g[i - 1]>>]
      <3>1. g[i - 1] = h[i - 1]
        <4>1. i - 1 \in 0 .. m /\ i - 1 # m
          OBVIOUS
        <4> QED
          BY <4>1
      <3>2. CASE i = m
        <4>1. i \in 0 .. m
          OBVIOUS
        <4>2. g[i] = step[<<m, h[m - 1]>>]
          BY <3>2, <4>1
        <4> HIDE DEF g
        <4> QED
          BY <3>1, <3>2, <4>2
      <3>3. CASE i # m
        <4>1. i \in 0 .. m /\ i \in 1 .. m - 1
          BY <3>3
        <4>2. g[i] = h[i]
          BY <3>3, <4>1
        <4>3. h[i] = step[<<i, h[i - 1]>>]
          BY <2>1, <4>1
        <4> HIDE DEF g
        <4> QED
          BY <3>1, <4>2, <4>3
      <3> QED
        BY <3>2, <3>3
    <2> HIDE DEF g
    <2> QED
      BY <2>3, <2>4, <2>5
  <1>3. 0 .. n \subseteq S
    <2> HIDE DEF S
    <2> QED
      BY <1>1, <1>2, Induction
  <1>4. n \in S
    BY <1>3
  <1> QED
    BY <1>4 DEF Follows

\* A sequence behind one more element.
LEMMA InFront ==
    ASSUME NEW A, NEW x \in A, NEW q \in Seq(A)
    PROVE  /\ <<x>> \o q \in Seq(A)
           /\ Len(<<x>> \o q) = Len(q) + 1
           /\ (<<x>> \o q)[1] = x
           /\ \A k \in 2 .. Len(q) + 1 : (<<x>> \o q)[k] = q[k - 1]
  OBVIOUS

------------------------------------------------------------------------------
(* The windows of characters.                                               *)

Spans == [from : Nat, to : Nat]

\* Where the window ends that begins behind s characters, and where the next one
\* begins.
End(n, max, s) == Earlier(s + max, n)

NextStart(n, max, overlap, s) == Later(End(n, max, s) - overlap, s + 1)

\* The windows from s on, given those from further on.
WindowsFrom(n, max, overlap, w, s) ==
    IF End(n, max, s) = n THEN <<Span(s + 1, End(n, max, s) + 1)>>
    ELSE <<Span(s + 1, End(n, max, s) + 1)>> \o w[NextStart(n, max, overlap, s)]

LEMMA NextIsFurther ==
    ASSUME NEW n \in Nat, NEW max \in Nat \ {0}, NEW overlap \in Nat, NEW s \in 0 .. n - 1
    PROVE  /\ End(n, max, s) \in s + 1 .. n
           /\ End(n, max, s) # n =>
                /\ End(n, max, s) = s + max
                /\ NextStart(n, max, overlap, s) \in s + 1 .. n - 1
                /\ NextStart(n, max, overlap, s) <= End(n, max, s)
  BY DEF End, NextStart, Earlier, Later

LEMMA WindowsExist ==
    ASSUME NEW n \in Nat, NEW max \in Nat \ {0}, NEW overlap \in Nat
    PROVE  \E w : w = [s \in 0 .. n - 1 |-> WindowsFrom(n, max, overlap, w, s)]
  <1> DEFINE Goes(m, w) ==
               /\ w = [s \in 0 .. n - 1 |-> w[s]]
               /\ \A s \in n - m .. n - 1 : w[s] = WindowsFrom(n, max, overlap, w, s)
             S == {m \in 0 .. n : \E w : Goes(m, w)}
  <1>1. 0 \in S
    <2> DEFINE w == [s \in 0 .. n - 1 |-> s]
    <2>1. n - 0 .. n - 1 = {}
      OBVIOUS
    <2>2. w = [s \in 0 .. n - 1 |-> w[s]]
      OBVIOUS
    <2> HIDE DEF w
    <2>3. Goes(0, w)
      BY <2>1, <2>2
    <2>4. 0 \in 0 .. n
      OBVIOUS
    <2> QED
      BY <2>3, <2>4
  <1>2. ASSUME NEW m \in 1 .. n, m - 1 \in S
        PROVE  m \in S
    <2>1. PICK h : Goes(m - 1, h)
      BY <1>2
    <2> DEFINE a == n - m
               w == [s \in 0 .. n - 1 |->
                       IF s = a THEN WindowsFrom(n, max, overlap, h, a) ELSE h[s]]
    <2>2. w = [s \in 0 .. n - 1 |-> w[s]]
      OBVIOUS
    <2>3. ASSUME NEW s \in n - m .. n - 1
          PROVE  w[s] = WindowsFrom(n, max, overlap, w, s)
      <3>1. s \in 0 .. n - 1 /\ s >= a
        OBVIOUS
      <3>2. End(n, max, s) # n => w[NextStart(n, max, overlap, s)] = h[NextStart(n, max, overlap, s)]
        <4>1. End(n, max, s) # n => NextStart(n, max, overlap, s) \in s + 1 .. n - 1
          BY <3>1, NextIsFurther
        <4>2. \A t \in s + 1 .. n - 1 : t \in 0 .. n - 1 /\ t # a
          BY <3>1
        <4>3. \A t \in 0 .. n - 1 : t # a => w[t] = h[t]
          OBVIOUS
        <4> HIDE DEF w, a
        <4> QED
          BY <4>1, <4>2, <4>3
      <3>3. WindowsFrom(n, max, overlap, w, s) = WindowsFrom(n, max, overlap, h, s)
        <4> HIDE DEF w
        <4> QED
          BY <3>2 DEF WindowsFrom
      <3>4. CASE s = a
        BY <3>1, <3>3, <3>4
      <3>5. CASE s # a
        <4>1. w[s] = h[s]
          BY <3>1, <3>5
        <4>2. s \in n - (m - 1) .. n - 1
          BY <3>1, <3>5
        <4>3. h[s] = WindowsFrom(n, max, overlap, h, s)
          BY <2>1, <4>2
        <4> QED
          BY <3>3, <4>1, <4>3
      <3> QED
        BY <3>4, <3>5
    <2> HIDE DEF w
    <2> QED
      BY <2>2, <2>3
  <1>3. n \in S
    <2> HIDE DEF S
    <2>1. 0 .. n \subseteq S
      BY <1>1, <1>2, Induction
    <2> QED
      BY <2>1
  <1>4. PICK w : Goes(n, w)
    BY <1>3
  <1>5. \A s \in 0 .. n - 1 : w[s] = WindowsFrom(n, max, overlap, w, s)
    BY <1>4
  <1>6. w = [s \in 0 .. n - 1 |-> WindowsFrom(n, max, overlap, w, s)]
    BY <1>4, <1>5
  <1> QED
    BY <1>6

\* What the windows w from s on are.
RunsFrom(n, max, s, w) ==
    /\ w \in Seq(Spans)
    /\ Len(w) > 0
    /\ w[1] = Span(s + 1, End(n, max, s) + 1)
    /\ \A k \in 2 .. Len(w) :
          /\ w[k - 1].from < w[k].from
          /\ w[k].from <= w[k - 1].to
          /\ w[k - 1].to <= w[k].to
    /\ UNION {Positions(w[k]) : k \in 1 .. Len(w)} = s + 1 .. n

LEMMA LastWindow ==
    ASSUME NEW n \in Nat, NEW max \in Nat \ {0}, NEW s \in 0 .. n - 1, End(n, max, s) = n
    PROVE  RunsFrom(n, max, s, <<Span(s + 1, End(n, max, s) + 1)>>)
  <1> DEFINE x == Span(s + 1, End(n, max, s) + 1)
  <1>1. x \in Spans /\ x.from = s + 1 /\ x.to = n + 1
    BY DEF Span, Spans
  <1>2. Positions(x) = s + 1 .. n
    BY <1>1 DEF Positions
  <1>3. <<x>> \in Seq(Spans) /\ Len(<<x>>) = 1 /\ <<x>>[1] = x
    BY <1>1
  <1>4. 1 .. 1 = {1} /\ 2 .. 1 = {}
    OBVIOUS
  <1> HIDE DEF x
  <1>5. UNION {Positions(<<x>>[k]) : k \in 1 .. Len(<<x>>)} = s + 1 .. n
    BY <1>2, <1>3, <1>4
  <1>6. \A k \in 2 .. Len(<<x>>) : FALSE
    BY <1>3, <1>4
  <1>7. x = Span(s + 1, End(n, max, s) + 1)
    BY DEF x
  <1>8. RunsFrom(n, max, s, <<x>>)
    BY <1>3, <1>5, <1>6, <1>7 DEF RunsFrom
  <1> QED
    BY <1>7, <1>8

\* A window in front of those from a position in it on.
LEMMA WindowBefore ==
    ASSUME NEW n \in Nat, NEW max \in Nat \ {0}, NEW s \in 0 .. n - 1,
           NEW t \in s + 1 .. n - 1, t <= End(n, max, s), NEW w, RunsFrom(n, max, t, w)
    PROVE  RunsFrom(n, max, s, <<Span(s + 1, End(n, max, s) + 1)>> \o w)
  <1> DEFINE x == Span(s + 1, End(n, max, s) + 1)
             r == <<x>> \o w
  <1>1. /\ End(n, max, s) \in Nat /\ End(n, max, s) <= n
        /\ End(n, max, t) \in Nat /\ End(n, max, s) <= End(n, max, t)
    BY DEF End, Earlier
  <1>2. x \in Spans /\ x.from = s + 1 /\ x.to = End(n, max, s) + 1
    BY <1>1 DEF Span, Spans
  <1>3. Positions(x) = s + 1 .. End(n, max, s)
    BY <1>1, <1>2 DEF Positions
  <1>4. /\ w \in Seq(Spans) /\ Len(w) \in Nat /\ Len(w) > 0
        /\ w[1].from = t + 1 /\ w[1].to = End(n, max, t) + 1
    BY DEF RunsFrom, Span
  <1> HIDE DEF x
  <1>5. /\ r \in Seq(Spans) /\ Len(r) = Len(w) + 1 /\ r[1] = x
        /\ \A k \in 2 .. Len(w) + 1 : r[k] = w[k - 1]
    BY <1>2, <1>4, InFront
  <1> HIDE DEF r
  <1>6. ASSUME NEW k \in 2 .. Len(r)
        PROVE  r[k - 1].from < r[k].from /\ r[k].from <= r[k - 1].to /\ r[k - 1].to <= r[k].to
    <2>1. CASE k = 2
      <3>1. r[k] = w[1] /\ r[k - 1] = x
        BY <1>4, <1>5, <2>1
      <3>2. x.from < w[1].from
        BY <1>2, <1>4
      <3>3. w[1].from <= x.to
        BY <1>1, <1>2, <1>4
      <3>4. x.to <= w[1].to
        BY <1>1, <1>2, <1>4
      <3> QED
        BY <3>1, <3>2, <3>3, <3>4
    <2>2. CASE k # 2
      <3>1. k - 1 \in 2 .. Len(w) /\ k \in 2 .. Len(w) + 1
        BY <1>4, <1>5, <2>2
      <3>2. r[k] = w[k - 1] /\ r[k - 1] = w[k - 1 - 1]
        BY <1>4, <1>5, <3>1
      <3>3. \A j \in 2 .. Len(w) : w[j - 1].from < w[j].from /\ w[j].from <= w[j - 1].to
                                     /\ w[j - 1].to <= w[j].to
        BY DEF RunsFrom
      <3> QED
        BY <3>1, <3>2, <3>3
    <2> QED
      BY <2>1, <2>2
  <1>7. UNION {Positions(r[k]) : k \in 1 .. Len(r)} = s + 1 .. n
    <2>1. UNION {Positions(w[k]) : k \in 1 .. Len(w)} = t + 1 .. n
      BY DEF RunsFrom
    <2>2. \A k \in 1 .. Len(w) : k + 1 \in 2 .. Len(w) + 1 /\ k + 1 \in 1 .. Len(r) /\ r[k + 1] = w[k]
      BY <1>4, <1>5
    <2>3. \A k \in 1 .. Len(r) : k = 1 \/ (k - 1 \in 1 .. Len(w) /\ r[k] = w[k - 1])
      BY <1>4, <1>5
    <2>4. 1 \in 1 .. Len(r)
      BY <1>4, <1>5
    <2>5. UNION {Positions(r[k]) : k \in 1 .. Len(r)}
            = Positions(x) \cup UNION {Positions(w[k]) : k \in 1 .. Len(w)}
      <3>1. ASSUME NEW k \in 1 .. Len(r)
            PROVE  Positions(r[k]) \subseteq
                     Positions(x) \cup UNION {Positions(w[j]) : j \in 1 .. Len(w)}
        <4>1. CASE k = 1
          BY <1>5, <4>1
        <4>2. CASE k - 1 \in 1 .. Len(w) /\ r[k] = w[k - 1]
          <5>1. PICK j \in 1 .. Len(w) : r[k] = w[j]
            BY <4>2
          <5> QED
            BY <5>1
        <4> QED
          BY <2>3, <4>1, <4>2
      <3>2. ASSUME NEW j \in 1 .. Len(w)
            PROVE  Positions(w[j]) \subseteq UNION {Positions(r[k]) : k \in 1 .. Len(r)}
        <4>1. PICK k \in 1 .. Len(r) : r[k] = w[j]
          BY <2>2
        <4> QED
          BY <4>1
      <3>3. Positions(x) \subseteq UNION {Positions(r[k]) : k \in 1 .. Len(r)}
        BY <1>5, <2>4
      <3> QED
        BY <3>1, <3>2, <3>3
    <2>6. (s + 1 .. End(n, max, s)) \cup (t + 1 .. n) = s + 1 .. n
      BY <1>1
    <2> QED
      BY <1>3, <2>1, <2>5, <2>6
  <1>8. x = Span(s + 1, End(n, max, s) + 1)
    BY DEF x
  <1>9. Len(r) > 0
    BY <1>4, <1>5
  <1>10. RunsFrom(n, max, s, r)
    BY <1>5, <1>6, <1>7, <1>8, <1>9 DEF RunsFrom
  <1> QED
    BY <1>8, <1>10 DEF r

\* The windows from every position on, given that they satisfy their equation.
LEMMA WindowsRun ==
    ASSUME NEW n \in Nat \ {0}, NEW max \in Nat \ {0}, NEW overlap \in Nat, NEW w,
           \A s \in 0 .. n - 1 : w[s] = WindowsFrom(n, max, overlap, w, s)
    PROVE  \A s \in 0 .. n - 1 : RunsFrom(n, max, s, w[s])
  <1> DEFINE Bad == {s \in 0 .. n - 1 : ~ RunsFrom(n, max, s, w[s])}
             D == {n - s : s \in Bad}
  <1>1. ASSUME Bad # {}
        PROVE  FALSE
    <2>1. D \subseteq Nat /\ D # {}
      BY <1>1
    <2>2. PICK d \in D : \A k \in D : d <= k
      <3> HIDE DEF D
      <3> QED
        BY <2>1, LeastNumber
    <2>3. PICK s \in Bad : d = n - s
      BY <2>2
    <2>4. s \in 0 .. n - 1 /\ ~ RunsFrom(n, max, s, w[s])
      BY <2>3
    <2>5. \A t \in s + 1 .. n - 1 : RunsFrom(n, max, t, w[t])
      <3> SUFFICES ASSUME NEW t \in s + 1 .. n - 1, ~ RunsFrom(n, max, t, w[t])
                   PROVE  FALSE
        OBVIOUS
      <3>1. t \in Bad
        BY <2>4
      <3>2. d <= n - t
        BY <2>2, <3>1
      <3> QED
        BY <2>3, <2>4, <3>2
    <2> HIDE DEF Bad, D
    <2>6. w[s] = WindowsFrom(n, max, overlap, w, s)
      BY <2>4
    <2>7. CASE End(n, max, s) = n
      BY <2>4, <2>6, <2>7, LastWindow DEF WindowsFrom
    <2>8. CASE End(n, max, s) # n
      <3>1. PICK t : t = NextStart(n, max, overlap, s)
        OBVIOUS
      <3>2. t \in s + 1 .. n - 1 /\ t <= End(n, max, s)
        BY <2>4, <2>8, <3>1, NextIsFurther
      <3>3. RunsFrom(n, max, t, w[t])
        BY <2>5, <3>2
      <3>4. w[s] = <<Span(s + 1, End(n, max, s) + 1)>> \o w[t]
        BY <2>6, <2>8, <3>1 DEF WindowsFrom
      <3> QED
        BY <2>4, <3>2, <3>3, <3>4, WindowBefore
    <2> QED
      BY <2>7, <2>8
  <1> QED
    BY <1>1

\* Windows of at least one character advance through any text and leave nothing
\* out, whatever overlap is asked for: CharacterChunker::chunk ends.
THEOREM CharacterWindowsAdvance ==
    ASSUME NEW A, NEW text \in Seq(A), NEW max \in Nat \ {0}, NEW overlap \in Nat
    PROVE  Advance(text, CharacterWindows(text, max, overlap))
  <1> DEFINE n == Len(text)
             w == CHOOSE f : f = [s \in 0 .. n - 1 |-> WindowsFrom(n, max, overlap, f, s)]
  <1>1. n \in Nat /\ DOMAIN text = 1 .. n
    OBVIOUS
  <1>2. CharacterWindows(text, max, overlap) = IF n = 0 THEN <<>> ELSE w[0]
    BY DEF CharacterWindows, WindowsFrom, End, NextStart
  <1> HIDE DEF n
  <1>3. CASE n = 0
    <2>1. CharacterWindows(text, max, overlap) = <<>>
      BY <1>2, <1>3
    <2>2. DOMAIN <<>> = {} /\ DOMAIN text = {} /\ 2 .. Len(<<>>) = {}
      BY <1>1, <1>3
    <2> QED
      BY <2>1, <2>2 DEF Advance
  <1>4. CASE n # 0
    <2>1. w = [s \in 0 .. n - 1 |-> WindowsFrom(n, max, overlap, w, s)]
      BY <1>1, WindowsExist
    <2> HIDE DEF w
    <2>2. \A s \in 0 .. n - 1 : w[s] = WindowsFrom(n, max, overlap, w, s)
      BY <2>1
    <2>3. RunsFrom(n, max, 0, w[0])
      <3>1. n \in Nat \ {0} /\ 0 \in 0 .. n - 1
        BY <1>1, <1>4
      <3> QED
        BY <2>2, <3>1, WindowsRun
    <2>4. PICK c : c = CharacterWindows(text, max, overlap)
      OBVIOUS
    <2>5. c = w[0]
      BY <1>2, <1>4, <2>4
    <2>6. c \in Seq(Spans) /\ DOMAIN c = 1 .. Len(c)
      BY <2>3, <2>5 DEF RunsFrom
    <2>7. UNION {Positions(c[k]) : k \in DOMAIN c} = DOMAIN text
      BY <1>1, <2>3, <2>5, <2>6 DEF RunsFrom
    <2>8. Advance(text, c)
      BY <2>3, <2>5, <2>7 DEF RunsFrom, Advance
    <2> QED
      BY <2>4, <2>8
  <1> QED
    BY <1>3, <1>4

------------------------------------------------------------------------------
(* The sizes of messages.                                                   *)

\* The lines of a conversation, and those that hold messages.
Conversations == Seq(Nat \cup {NoMessage})

MessageLines(lines) == {i \in DOMAIN lines : lines[i] # NoMessage}

LEMMA SizesOfLines ==
    ASSUME NEW lines \in Conversations
    PROVE  /\ Len(lines) \in Nat /\ DOMAIN lines = 1 .. Len(lines)
           /\ \A i \in MessageLines(lines) : i \in 1 .. Len(lines) /\ lines[i] \in Nat
  BY DEF Conversations, MessageLines

\* f adds up the sizes of the messages.
AddsUp(lines, messages, f) ==
    /\ f[0] = 0
    /\ \A k \in 1 .. Len(messages) : f[k] = f[k - 1] + RoleSize + lines[messages[k]]

LEMMA SumsExist ==
    ASSUME NEW lines \in Conversations, NEW messages \in Seq(MessageLines(lines))
    PROVE  \E f \in [0 .. Len(messages) -> Nat] : AddsUp(lines, messages, f)
  <1> DEFINE n == Len(messages)
             step == [p \in (1 .. n) \X Nat |-> p[2] + RoleSize + lines[messages[p[1]]]]
  <1>1. n \in Nat /\ \A k \in 1 .. n : messages[k] \in MessageLines(lines)
    OBVIOUS
  <1>2. \A k \in 1 .. n : lines[messages[k]] \in Nat
    BY <1>1, SizesOfLines
  <1> HIDE DEF n
  <1>3. RoleSize \in Nat
    BY DEF RoleSize
  <1>4. \A p \in (1 .. n) \X Nat : p[2] + RoleSize + lines[messages[p[1]]] \in Nat
    BY <1>2, <1>3
  <1>5. step \in [(1 .. n) \X Nat -> Nat]
    BY <1>4
  <1>6. \A k \in 1 .. n, x \in Nat : step[<<k, x>>] = x + RoleSize + lines[messages[k]]
    OBVIOUS
  <1> HIDE DEF step
  <1>7. PICK f \in [0 .. n -> Nat] : f[0] = 0 /\ \A k \in 1 .. n : f[k] = step[<<k, f[k - 1]>>]
    <2>1. n \in Nat /\ 0 \in Nat
      BY <1>1
    <2>2. \E f \in [0 .. n -> Nat] : Follows(n, 0, step, f)
      BY <1>5, <2>1, Iteration
    <2> QED
      BY <2>2 DEF Follows
  <1>8. ASSUME NEW k \in 1 .. n
        PROVE  f[k] = f[k - 1] + RoleSize + lines[messages[k]]
    <2>1. f[k - 1] \in Nat
      BY <1>1, <1>7
    <2>2. f[k] = step[<<k, f[k - 1]>>]
      BY <1>7
    <2> QED
      BY <1>6, <2>1, <2>2
  <1> QED
    BY <1>7, <1>8 DEF AddsUp, n

\* There is one such function.
LEMMA SumsAgree ==
    ASSUME NEW lines, NEW messages, Len(messages) \in Nat, NEW f, NEW g,
           AddsUp(lines, messages, f), AddsUp(lines, messages, g)
    PROVE  f[Len(messages)] = g[Len(messages)]
  <1> DEFINE n == Len(messages)
             S == {k \in 0 .. n : f[k] = g[k]}
  <1>1. 0 \in S
    BY DEF AddsUp
  <1>2. \A k \in 1 .. n : k - 1 \in S => k \in S
    BY DEF AddsUp
  <1>3. 0 .. n \subseteq S
    <2> HIDE DEF S
    <2> QED
      BY <1>1, <1>2, Induction
  <1> QED
    BY <1>3

LEMMA SizeIsSum ==
    ASSUME NEW lines \in Conversations, NEW messages \in Seq(MessageLines(lines)), NEW g,
           AddsUp(lines, messages, g)
    PROVE  SizeOf(lines, messages) \in Nat /\ SizeOf(lines, messages) = g[Len(messages)]
  <1> DEFINE n == Len(messages)
             Sum(f) == [k \in 0 .. n |->
                          IF k = 0 THEN 0 ELSE f[k - 1] + RoleSize + lines[messages[k]]]
             h == CHOOSE f : f = Sum(f)
  <1>1. n \in Nat
    OBVIOUS
  <1>2. SizeOf(lines, messages) = h[n]
    BY DEF SizeOf
  <1> HIDE DEF n
  <1>3. PICK f \in [0 .. n -> Nat] : AddsUp(lines, messages, f)
    BY SumsExist DEF n
  <1>4. f = Sum(f)
    <2>1. \A k \in 0 .. n : f[k] = IF k = 0 THEN 0 ELSE f[k - 1] + RoleSize + lines[messages[k]]
      <3>1. \A k \in 0 .. n : k = 0 \/ k \in 1 .. n
        BY <1>1
      <3> QED
        BY <1>3, <3>1 DEF AddsUp, n
    <2> QED
      BY <1>3, <2>1
  <1>5. h = Sum(h)
    BY <1>4
  <1> HIDE DEF h
  <1>6. AddsUp(lines, messages, h)
    <2>1. h[0] = 0
      BY <1>1, <1>5
    <2>2. ASSUME NEW k \in 1 .. n
          PROVE  h[k] = h[k - 1] + RoleSize + lines[messages[k]]
      <3>1. k \in 0 .. n /\ k # 0
        BY <1>1
      <3> QED
        BY <1>5, <3>1
    <2> QED
      BY <2>1, <2>2 DEF AddsUp, n
  <1>7. h[n] = g[n] /\ h[n] = f[n]
    BY <1>1, <1>3, <1>6, SumsAgree DEF n
  <1>8. f[n] \in Nat
    BY <1>1, <1>3
  <1> QED
    BY <1>2, <1>7, <1>8 DEF n

\* The size of no message, and of one more.
LEMMA SizeOfNone ==
    ASSUME NEW lines \in Conversations
    PROVE  SizeOf(lines, <<>>) = 0
  <1>1. <<>> \in Seq(MessageLines(lines)) /\ Len(<<>>) = 0
    OBVIOUS
  <1>2. PICK f : AddsUp(lines, <<>>, f)
    BY <1>1, SumsExist
  <1>3. SizeOf(lines, <<>>) = f[0]
    BY <1>1, <1>2, SizeIsSum
  <1> QED
    BY <1>2, <1>3 DEF AddsUp

LEMMA SizeOfMore ==
    ASSUME NEW lines \in Conversations, NEW messages \in Seq(MessageLines(lines)),
           NEW i \in MessageLines(lines)
    PROVE  /\ SizeOf(lines, messages) \in Nat
           /\ SizeOf(lines, Append(messages, i)) = SizeOf(lines, messages) + RoleSize + lines[i]
  <1>1. PICK more : more = Append(messages, i)
    OBVIOUS
  <1>2. /\ more \in Seq(MessageLines(lines)) /\ Len(messages) \in Nat
        /\ Len(more) = Len(messages) + 1 /\ more[Len(messages) + 1] = i
        /\ \A k \in 1 .. Len(messages) : more[k] = messages[k]
    BY <1>1
  <1>3. PICK f : AddsUp(lines, more, f)
    BY <1>2, SumsExist
  <1>4. AddsUp(lines, messages, f)
    <2>1. \A k \in 1 .. Len(messages) : k \in 1 .. Len(more)
      BY <1>2
    <2> QED
      BY <1>2, <1>3, <2>1 DEF AddsUp
  <1>5. SizeOf(lines, messages) = f[Len(messages)] /\ SizeOf(lines, messages) \in Nat
    BY <1>4, SizeIsSum
  <1>6. SizeOf(lines, more) = f[Len(messages) + 1]
    BY <1>2, <1>3, SizeIsSum
  <1>7. f[Len(messages) + 1] = f[Len(messages)] + RoleSize + lines[i]
    <2>1. Len(messages) + 1 \in 1 .. Len(more) /\ Len(messages) + 1 - 1 = Len(messages)
      BY <1>2
    <2>2. f[Len(messages) + 1] = f[Len(messages) + 1 - 1] + RoleSize + lines[more[Len(messages) + 1]]
      BY <1>3, <2>1 DEF AddsUp
    <2> QED
      BY <1>2, <2>1, <2>2
  <1> QED
    BY <1>1, <1>5, <1>6, <1>7

------------------------------------------------------------------------------
(* Reading a conversation line by line.                                     *)

LEMMA MessagesOfNone ==
    ASSUME NEW lines, NEW from \in Nat, NEW to \in Nat, to < from
    PROVE  AreMessagesOf(lines, <<>>, from, to)
  BY DEF AreMessagesOf, ToSet

LEMMA MessagesWithout ==
    ASSUME NEW lines, NEW messages, NEW from \in Nat, NEW i \in Nat \ {0},
           AreMessagesOf(lines, messages, from, i - 1), lines[i] = NoMessage
    PROVE  AreMessagesOf(lines, messages, from, i)
  BY DEF AreMessagesOf

LEMMA MessagesWith ==
    ASSUME NEW lines \in Conversations, NEW messages \in Seq(MessageLines(lines)),
           NEW from \in Nat, NEW i \in MessageLines(lines), from <= i,
           AreMessagesOf(lines, messages, from, i - 1)
    PROVE  AreMessagesOf(lines, Append(messages, i), from, i)
  <1>1. PICK more : more = Append(messages, i)
    OBVIOUS
  <1>2. /\ Len(messages) \in Nat /\ Len(more) = Len(messages) + 1
        /\ DOMAIN more = 1 .. Len(messages) + 1 /\ DOMAIN messages = 1 .. Len(messages)
        /\ more[Len(messages) + 1] = i
        /\ \A k \in 1 .. Len(messages) : more[k] = messages[k]
    BY <1>1
  <1>3. i \in Nat /\ lines[i] # NoMessage
    BY SizesOfLines DEF MessageLines
  <1>4. {messages[k] : k \in 1 .. Len(messages)} = {k \in from .. i - 1 : lines[k] # NoMessage}
    BY <1>2 DEF AreMessagesOf, ToSet
  <1>5. ToSet(more) = {messages[k] : k \in 1 .. Len(messages)} \cup {i}
    <2>1. \A k \in 1 .. Len(messages) + 1 : k \in 1 .. Len(messages) \/ k = Len(messages) + 1
      BY <1>2
    <2>2. \A k \in 1 .. Len(messages) : k \in 1 .. Len(messages) + 1
      BY <1>2
    <2>3. Len(messages) + 1 \in 1 .. Len(messages) + 1
      BY <1>2
    <2> QED
      BY <1>2, <2>1, <2>2, <2>3 DEF ToSet
  <1>6. {k \in from .. i : lines[k] # NoMessage} = {k \in from .. i - 1 : lines[k] # NoMessage} \cup {i}
    BY <1>3
  <1>7. ASSUME NEW j \in DOMAIN more, NEW k \in DOMAIN more, j < k
        PROVE  more[j] < more[k]
    <2>1. j \in 1 .. Len(messages)
      BY <1>2, <1>7
    <2>2. messages[j] \in from .. i - 1
      BY <1>4, <2>1
    <2>3. CASE k \in 1 .. Len(messages)
      BY <1>2, <1>7, <2>1, <2>3 DEF AreMessagesOf
    <2>4. CASE k = Len(messages) + 1
      BY <1>2, <1>3, <2>1, <2>2, <2>4
    <2> QED
      BY <1>2, <2>3, <2>4
  <1>8. AreMessagesOf(lines, more, from, i)
    BY <1>4, <1>5, <1>6, <1>7 DEF AreMessagesOf
  <1> QED
    BY <1>1, <1>8

ClosedChunks(lines) == [messages : Seq(MessageLines(lines)), from : Nat, to : Nat]

OpenChunks(lines) == [messages : Seq(MessageLines(lines)), size : Nat, from : Nat]

States(lines) == [chunks : Seq(ClosedChunks(lines)), open : OpenChunks(lines)]

\* What a closed chunk is, as a whole and where another one follows.
WellClosed(lines, c) ==
    /\ AreMessagesOf(lines, c.messages, c.from, c.to)
    /\ Fit(lines, c.messages)

\* It holds enough to be closed before the end.
FilledUp(lines, c) == SizeOf(lines, c.messages) + Len(c.messages) > MinSize

\* The open chunk when i lines have been read.
WellOpen(lines, open, i) ==
    /\ open.from <= i + 1
    /\ AreMessagesOf(lines, open.messages, open.from, i)
    /\ Fit(lines, open.messages)
    /\ open.messages = <<>> => open.size = 0
    /\ open.messages # <<>> =>
          open.size = SizeOf(lines, open.messages) + Len(open.messages) - 1

\* The closed chunks divide the lines before the open one among them.
DivideUpTo(lines, chunks, from) ==
    /\ chunks = <<>> => from = 1
    /\ chunks # <<>> => chunks[1].from = 1 /\ chunks[Len(chunks)].to + 1 = from
    /\ \A k \in 1 .. Len(chunks) - 1 : chunks[k + 1].from = chunks[k].to + 1
    /\ \A k \in 1 .. Len(chunks) : WellClosed(lines, chunks[k])

Reading(lines, acc, i) ==
    /\ acc \in States(lines)
    /\ WellOpen(lines, acc.open, i)
    /\ DivideUpTo(lines, acc.chunks, acc.open.from)
    /\ \A k \in 1 .. Len(acc.chunks) : FilledUp(lines, acc.chunks[k])
    /\ acc.chunks # <<>> => acc.open.messages # <<>>

NothingRead == [chunks |-> <<>>, open |-> OpenChunk(1)]

LEMMA ReadingBegins ==
    ASSUME NEW lines \in Conversations
    PROVE  Reading(lines, NothingRead, 0)
  <1>1. /\ NothingRead.chunks = <<>> /\ NothingRead.open = OpenChunk(1)
        /\ OpenChunk(1).messages = <<>> /\ OpenChunk(1).size = 0 /\ OpenChunk(1).from = 1
    BY DEF NothingRead, OpenChunk
  <1>2. OpenChunk(1) \in OpenChunks(lines)
    BY DEF OpenChunk, OpenChunks
  <1>3. NothingRead \in States(lines)
    BY <1>2 DEF NothingRead, States
  <1>4. AreMessagesOf(lines, <<>>, 1, 0)
    BY MessagesOfNone
  <1>5. Len(<<>>) = 0
    OBVIOUS
  <1>6. Fit(lines, <<>>)
    BY <1>5 DEF Fit
  <1>7. WellOpen(lines, OpenChunk(1), 0)
    BY <1>1, <1>4, <1>6 DEF WellOpen
  <1>8. DivideUpTo(lines, <<>>, 1)
    BY <1>5 DEF DivideUpTo
  <1> QED
    BY <1>1, <1>3, <1>7, <1>8 DEF Reading

\* A line without a message.
LEMMA ReadBlank ==
    ASSUME NEW lines \in Conversations, NEW i \in 1 .. Len(lines), NEW acc,
           Reading(lines, acc, i - 1), lines[i] = NoMessage
    PROVE  Reading(lines, acc, i)
  <1>1. i \in Nat \ {0} /\ acc.open.from \in Nat
    BY SizesOfLines DEF Reading, States, OpenChunks
  <1>2. AreMessagesOf(lines, acc.open.messages, acc.open.from, i)
    BY <1>1, MessagesWithout DEF Reading, WellOpen
  <1>3. acc.open.from <= i + 1
    BY <1>1 DEF Reading, WellOpen
  <1> QED
    BY <1>2, <1>3 DEF Reading, WellOpen

\* A single message, and one more, in a chunk that is open.
LEMMA FirstMessage ==
    ASSUME NEW lines \in Conversations, NEW i \in MessageLines(lines), NEW from \in Nat,
           from <= i, AreMessagesOf(lines, <<>>, from, i - 1), NEW open,
           open = [messages |-> <<i>>, size |-> RoleSize + lines[i], from |-> from]
    PROVE  open \in OpenChunks(lines) /\ WellOpen(lines, open, i) /\ open.messages # <<>>
  <1>1. i \in Nat /\ lines[i] \in Nat
    BY SizesOfLines
  <1>2. <<>> \in Seq(MessageLines(lines)) /\ <<i>> = Append(<<>>, i) /\ Len(<<i>>) = 1
        /\ <<i>> \in Seq(MessageLines(lines)) /\ <<i>> # <<>>
    OBVIOUS
  <1>3. SizeOf(lines, <<i>>) = RoleSize + lines[i]
    <2>1. SizeOf(lines, Append(<<>>, i)) = SizeOf(lines, <<>>) + RoleSize + lines[i]
      BY <1>2, SizeOfMore
    <2> QED
      BY <1>1, <1>2, <2>1, SizeOfNone DEF RoleSize
  <1>4. AreMessagesOf(lines, <<i>>, from, i)
    BY <1>2, MessagesWith
  <1>5. Fit(lines, <<i>>)
    BY <1>2 DEF Fit
  <1>6. open.messages = <<i>> /\ open.size = RoleSize + lines[i] /\ open.from = from
    OBVIOUS
  <1>7. open \in OpenChunks(lines)
    BY <1>1, <1>2 DEF OpenChunks, RoleSize
  <1>8. open.size = SizeOf(lines, open.messages) + Len(open.messages) - 1
    BY <1>1, <1>2, <1>3, <1>6 DEF RoleSize
  <1>9. from <= i + 1
    BY <1>1
  <1>10. WellOpen(lines, open, i)
    BY <1>2, <1>4, <1>5, <1>6, <1>8, <1>9 DEF WellOpen
  <1> QED
    BY <1>2, <1>6, <1>7, <1>10

LEMMA NextMessage ==
    ASSUME NEW lines \in Conversations, NEW i \in MessageLines(lines),
           NEW before \in OpenChunks(lines), WellOpen(lines, before, i - 1),
           before.messages # <<>>,
           before.size + lines[i] <= TargetSize \/ before.size < MinSize,
           NEW open,
           open = [messages |-> Append(before.messages, i), from |-> before.from,
                   size |-> before.size + (RoleSize + lines[i]) + SeparatorSize]
    PROVE  open \in OpenChunks(lines) /\ WellOpen(lines, open, i) /\ open.messages # <<>>
  <1>1. i \in Nat /\ lines[i] \in Nat
    BY SizesOfLines
  <1>2. PICK m : m = before.messages
    OBVIOUS
  <1>3. PICK more : more = Append(m, i)
    OBVIOUS
  <1>4. /\ m \in Seq(MessageLines(lines)) /\ m # <<>>
        /\ before.from \in Nat /\ before.size \in Nat
    BY <1>2 DEF OpenChunks
  <1>5. /\ Len(m) \in Nat /\ Len(m) > 0 /\ more \in Seq(MessageLines(lines))
        /\ Len(more) = Len(m) + 1 /\ more[Len(more)] = i /\ more # <<>>
    BY <1>3, <1>4
  <1>6. SizeOf(lines, m) \in Nat /\ SizeOf(lines, more) = SizeOf(lines, m) + 1 + lines[i]
    BY <1>3, <1>4, SizeOfMore DEF RoleSize
  <1>7. before.size = SizeOf(lines, m) + Len(m) - 1 /\ before.from <= i
    BY <1>1, <1>2, <1>4 DEF WellOpen
  <1>8. open.messages = more /\ open.from = before.from
        /\ open.size = before.size + (1 + lines[i]) + 1
    <2>1. /\ open.messages = Append(before.messages, i) /\ open.from = before.from
          /\ open.size = before.size + (RoleSize + lines[i]) + SeparatorSize
      OBVIOUS
    <2> QED
      BY <1>2, <1>3, <2>1 DEF RoleSize, SeparatorSize
  <1>9. open.size = SizeOf(lines, more) + Len(more) - 1
    <2>1. PICK size, new, x, k, now :
             /\ size = SizeOf(lines, m) /\ new = SizeOf(lines, more) /\ x = lines[i]
             /\ k = Len(m) /\ now = Len(more)
      OBVIOUS
    <2>2. size \in Nat /\ x \in Nat /\ k \in Nat /\ new = size + 1 + x /\ now = k + 1
      BY <1>1, <1>5, <1>6, <2>1
    <2>3. open.size = size + k - 1 + (1 + x) + 1
      BY <1>7, <1>8, <2>1
    <2>4. open.size = new + now - 1
      BY <2>2, <2>3
    <2> QED
      BY <2>1, <2>4
  <1>10. AreMessagesOf(lines, more, before.from, i)
    <2>1. AreMessagesOf(lines, m, before.from, i - 1)
      BY <1>2 DEF WellOpen
    <2> QED
      BY <1>3, <1>4, <1>7, <2>1, MessagesWith
  <1>11. Fit(lines, more)
    <2>1. PICK size, new, x, k, now :
             /\ size = SizeOf(lines, m) /\ new = SizeOf(lines, more) /\ x = lines[i]
             /\ k = Len(m) /\ now = before.size
      OBVIOUS
    <2>2. /\ size \in Nat /\ x \in Nat /\ k \in Nat /\ k >= 1
          /\ new = size + 1 + x /\ now = size + k - 1
      BY <1>1, <1>5, <1>6, <1>7, <2>1
    <2>3. TargetSize \in Nat /\ MinSize \in Nat
      BY ChunkingAssumption
    <2>4. CASE before.size + lines[i] <= TargetSize
      <3>1. now + x <= TargetSize
        BY <2>1, <2>4
      <3>2. new <= TargetSize + 1 + 1
        BY <2>2, <2>3, <3>1
      <3> QED
        BY <2>1, <3>2 DEF Fit, RoleSize, SeparatorSize
    <2>5. CASE before.size < MinSize
      <3>1. now < MinSize
        BY <2>1, <2>5
      <3>2. new - x <= MinSize
        BY <2>2, <2>3, <3>1
      <3> QED
        BY <1>5, <2>1, <3>2 DEF Fit
    <2> QED
      BY <2>4, <2>5
  <1>12. open \in OpenChunks(lines)
    <2>1. before.size + (RoleSize + lines[i]) + SeparatorSize \in Nat
      BY <1>1, <1>4 DEF RoleSize, SeparatorSize
    <2> QED
      BY <1>2, <1>3, <1>4, <1>5, <2>1 DEF OpenChunks
  <1>13. WellOpen(lines, open, i)
    <2>1. before.from <= i + 1
      BY <1>1, <1>4, <1>7
    <2> QED
      BY <1>5, <1>8, <1>9, <1>10, <1>11, <2>1 DEF WellOpen
  <1> QED
    BY <1>5, <1>8, <1>12, <1>13

\* The open chunk, closed behind the others.
LEMMA ClosingDivides ==
    ASSUME NEW lines \in Conversations, NEW chunks \in Seq(ClosedChunks(lines)),
           NEW open \in OpenChunks(lines), NEW to \in Nat, NEW c,
           DivideUpTo(lines, chunks, open.from), c = Closed(open, to), WellClosed(lines, c)
    PROVE  /\ Append(chunks, c) \in Seq(ClosedChunks(lines))
           /\ Append(chunks, c) # <<>>
           /\ DivideUpTo(lines, Append(chunks, c), to + 1)
  <1>1. c \in ClosedChunks(lines) /\ c.from = open.from /\ c.to = to
    BY DEF Closed, OpenChunks, ClosedChunks
  <1>2. PICK more : more = Append(chunks, c)
    OBVIOUS
  <1>3. /\ more \in Seq(ClosedChunks(lines)) /\ more # <<>>
        /\ Len(chunks) \in Nat /\ Len(more) = Len(chunks) + 1 /\ more[Len(more)] = c
        /\ \A k \in 1 .. Len(chunks) : more[k] = chunks[k]
    BY <1>1, <1>2
  <1>4. chunks = <<>> \/ Len(chunks) > 0
    OBVIOUS
  <1>5. more[1].from = 1
    <2>1. CASE chunks = <<>>
      <3>1. more[1] = c
        BY <1>3, <2>1
      <3> QED
        BY <1>1, <2>1, <3>1 DEF DivideUpTo
    <2>2. CASE chunks # <<>>
      <3>1. more[1] = chunks[1]
        BY <1>3, <1>4, <2>2
      <3> QED
        BY <2>2, <3>1 DEF DivideUpTo
    <2> QED
      BY <2>1, <2>2
  <1>6. more[Len(more)].to + 1 = to + 1
    BY <1>1, <1>3
  <1>7. ASSUME NEW k \in 1 .. Len(more) - 1
        PROVE  more[k + 1].from = more[k].to + 1
    <2>1. k \in 1 .. Len(chunks) /\ more[k] = chunks[k]
      BY <1>3
    <2>2. CASE k = Len(chunks)
      <3>1. more[k + 1] = c /\ chunks # <<>>
        BY <1>3, <2>1, <2>2
      <3>2. chunks[Len(chunks)].to + 1 = open.from
        BY <3>1 DEF DivideUpTo
      <3> QED
        BY <1>1, <2>1, <2>2, <3>1, <3>2
    <2>3. CASE k # Len(chunks)
      <3>1. k \in 1 .. Len(chunks) - 1 /\ k + 1 \in 1 .. Len(chunks)
        BY <1>3, <2>1, <2>3
      <3>2. chunks[k + 1].from = chunks[k].to + 1
        BY <3>1 DEF DivideUpTo
      <3> QED
        BY <1>3, <2>1, <3>1, <3>2
    <2> QED
      BY <2>2, <2>3
  <1>8. ASSUME NEW k \in 1 .. Len(more)
        PROVE  WellClosed(lines, more[k])
    <2>1. CASE k \in 1 .. Len(chunks)
      <3>1. WellClosed(lines, chunks[k])
        BY <2>1 DEF DivideUpTo
      <3> QED
        BY <1>3, <2>1, <3>1
    <2>2. CASE k = Len(more)
      BY <1>3, <2>2
    <2> QED
      BY <1>3, <2>1, <2>2
  <1>9. DivideUpTo(lines, more, to + 1)
    BY <1>3, <1>5, <1>6, <1>7, <1>8 DEF DivideUpTo
  <1> QED
    BY <1>2, <1>3, <1>9

\* What the open chunk is when it is closed.
LEMMA OpenIsWellClosed ==
    ASSUME NEW lines \in Conversations, NEW open \in OpenChunks(lines), NEW i \in Nat,
           WellOpen(lines, open, i)
    PROVE  WellClosed(lines, Closed(open, i))
  <1>1. PICK c : c = Closed(open, i)
    OBVIOUS
  <1>2. c.messages = open.messages /\ c.from = open.from /\ c.to = i
    BY <1>1 DEF Closed
  <1>3. WellClosed(lines, c)
    BY <1>2 DEF WellOpen, WellClosed
  <1> QED
    BY <1>1, <1>3

LEMMA FullIsFilledUp ==
    ASSUME NEW lines \in Conversations, NEW open \in OpenChunks(lines), NEW i \in Nat,
           WellOpen(lines, open, i), open.messages # <<>>, open.size >= MinSize
    PROVE  FilledUp(lines, Closed(open, i))
  <1>1. PICK c : c = Closed(open, i)
    OBVIOUS
  <1>2. PICK m : m = open.messages
    OBVIOUS
  <1>3. c.messages = m
    BY <1>1, <1>2 DEF Closed
  <1>4. open.size = SizeOf(lines, m) + Len(m) - 1
    BY <1>2 DEF WellOpen
  <1>5. open.size \in Nat /\ MinSize \in Nat /\ Len(m) \in Nat /\ m \in Seq(MessageLines(lines))
    BY <1>2, ChunkingAssumption DEF OpenChunks
  <1>6. SizeOf(lines, m) \in Nat
    BY <1>5, SumsExist, SizeIsSum
  <1>7. SizeOf(lines, m) + Len(m) > MinSize
    BY <1>4, <1>5, <1>6
  <1>8. FilledUp(lines, c)
    BY <1>3, <1>7 DEF FilledUp
  <1> QED
    BY <1>1, <1>8

LEMMA ReadMessage ==
    ASSUME NEW lines \in Conversations, NEW i \in MessageLines(lines), NEW acc,
           Reading(lines, acc, i - 1)
    PROVE  Reading(lines, AddLine(lines, acc, i), i)
  <1>1. i \in Nat \ {0} /\ lines[i] \in Nat /\ lines[i] # NoMessage
    BY SizesOfLines DEF MessageLines
  <1>2. PICK before, chunks : before = acc.open /\ chunks = acc.chunks
    OBVIOUS
  <1>3. /\ before \in OpenChunks(lines) /\ chunks \in Seq(ClosedChunks(lines))
        /\ acc = [chunks |-> chunks, open |-> before]
        /\ WellOpen(lines, before, i - 1)
        /\ DivideUpTo(lines, chunks, before.from)
        /\ \A k \in 1 .. Len(chunks) : FilledUp(lines, chunks[k])
        /\ chunks # <<>> => before.messages # <<>>
    BY <1>2 DEF Reading, States
  <1>4. /\ before.from \in Nat /\ before.size \in Nat /\ TargetSize \in Nat /\ MinSize \in Nat
        /\ before.messages \in Seq(MessageLines(lines)) /\ before.from <= i
    BY <1>1, <1>3, ChunkingAssumption DEF OpenChunks, WellOpen
  <1> DEFINE Full == /\ before.messages # <<>>
                     /\ before.size + lines[i] > TargetSize
                     /\ before.size >= MinSize
  <1>5. CASE Full
    <2>1. PICK c : c = Closed(before, i - 1)
      OBVIOUS
    <2>2. PICK open : open = [messages |-> <<i>>, size |-> RoleSize + lines[i], from |-> i]
      OBVIOUS
    <2>3. AddLine(lines, acc, i) = [chunks |-> Append(chunks, c), open |-> open]
      BY <1>1, <1>2, <1>5, <2>1, <2>2 DEF AddLine
    <2>4. i - 1 \in Nat /\ i - 1 + 1 = i
      BY <1>1
    <2>5. WellClosed(lines, c)
      BY <1>3, <2>1, <2>4, OpenIsWellClosed
    <2>6. /\ Append(chunks, c) \in Seq(ClosedChunks(lines))
          /\ DivideUpTo(lines, Append(chunks, c), i)
      BY <1>3, <2>1, <2>4, <2>5, ClosingDivides
    <2>7. AreMessagesOf(lines, <<>>, i, i - 1)
      BY <1>1, <2>4, MessagesOfNone
    <2>8. open \in OpenChunks(lines) /\ WellOpen(lines, open, i) /\ open.messages # <<>>
      BY <1>1, <2>2, <2>7, FirstMessage
    <2>9. open.from = i
      BY <2>2
    <2>10. FilledUp(lines, c)
      BY <1>3, <1>5, <2>1, <2>4, FullIsFilledUp
    <2>11. PICK more : more = Append(chunks, c)
      OBVIOUS
    <2>12. \A k \in 1 .. Len(more) : FilledUp(lines, more[k])
      <3>1. \A k \in 1 .. Len(more) : more[k] = c \/ (k \in 1 .. Len(chunks) /\ more[k] = chunks[k])
        BY <1>3, <2>11
      <3> QED
        BY <1>3, <2>10, <3>1
    <2> QED
      BY <2>3, <2>6, <2>8, <2>9, <2>11, <2>12 DEF Reading, States
  <1>6. CASE ~ Full
    <2>1. PICK open : open =
            [messages |-> Append(before.messages, i), from |-> before.from,
             size |-> before.size + (RoleSize + lines[i])
                        + (IF before.messages = <<>> THEN 0 ELSE SeparatorSize)]
      OBVIOUS
    <2>2. AddLine(lines, acc, i) = [chunks |-> chunks, open |-> open]
      <3>1. AddLine(lines, acc, i) = [acc EXCEPT !.open = open]
        BY <1>1, <1>2, <1>6, <2>1 DEF AddLine
      <3> QED
        BY <1>3, <3>1
    <2>3. open \in OpenChunks(lines) /\ WellOpen(lines, open, i) /\ open.messages # <<>>
      <3>1. CASE before.messages = <<>>
        <4>1. before.size = 0
          BY <1>3, <3>1 DEF WellOpen
        <4>2. Append(<<>>, i) = <<i>>
          OBVIOUS
        <4>3. before.size + (RoleSize + lines[i]) + 0 = RoleSize + lines[i]
          BY <1>1, <4>1 DEF RoleSize
        <4>4. open = [messages |-> <<i>>, size |-> RoleSize + lines[i], from |-> before.from]
          BY <2>1, <3>1, <4>2, <4>3
        <4>5. AreMessagesOf(lines, <<>>, before.from, i - 1)
          BY <1>3, <3>1 DEF WellOpen
        <4> QED
          BY <1>4, <4>4, <4>5, FirstMessage
      <3>2. CASE before.messages # <<>>
        <4>1. before.size + lines[i] <= TargetSize \/ before.size < MinSize
          BY <1>1, <1>4, <1>6, <3>2
        <4>2. open = [messages |-> Append(before.messages, i), from |-> before.from,
                      size |-> before.size + (RoleSize + lines[i]) + SeparatorSize]
          BY <2>1, <3>2
        <4> QED
          BY <1>3, <3>2, <4>1, <4>2, NextMessage
      <3> QED
        BY <3>1, <3>2
    <2>4. open.from = before.from
      BY <2>1
    <2> QED
      BY <1>3, <2>2, <2>3, <2>4 DEF Reading, States
  <1> QED
    BY <1>5, <1>6

LEMMA ReadLine ==
    ASSUME NEW lines \in Conversations, NEW i \in 1 .. Len(lines), NEW acc,
           Reading(lines, acc, i - 1)
    PROVE  Reading(lines, AddLine(lines, acc, i), i)
  <1>1. CASE lines[i] = NoMessage
    <2>1. AddLine(lines, acc, i) = acc
      BY <1>1 DEF AddLine
    <2> QED
      BY <1>1, <2>1, ReadBlank
  <1>2. CASE lines[i] # NoMessage
    <2>1. i \in MessageLines(lines)
      BY <1>2, SizesOfLines DEF MessageLines
    <2> QED
      BY <2>1, ReadMessage
  <1> QED
    BY <1>1, <1>2

\* What AddLine makes of any state, so that reading is defined.
LEMMA AddLineType ==
    ASSUME NEW lines \in Conversations, NEW i \in 1 .. Len(lines), NEW acc \in States(lines)
    PROVE  AddLine(lines, acc, i) \in States(lines)
  <1>1. i \in Nat \ {0} /\ i - 1 \in Nat
    BY SizesOfLines
  <1>2. /\ acc.open \in OpenChunks(lines) /\ acc.chunks \in Seq(ClosedChunks(lines))
        /\ acc.open.messages \in Seq(MessageLines(lines))
        /\ acc.open.from \in Nat /\ acc.open.size \in Nat
    BY DEF States, OpenChunks
  <1>3. CASE lines[i] = NoMessage
    BY <1>3 DEF AddLine
  <1>4. CASE lines[i] # NoMessage
    <2>1. i \in MessageLines(lines) /\ lines[i] \in Nat
      BY <1>4, SizesOfLines DEF MessageLines
    <2>2. Closed(acc.open, i - 1) \in ClosedChunks(lines)
      BY <1>1, <1>2 DEF Closed, ClosedChunks
    <2>3. Append(acc.chunks, Closed(acc.open, i - 1)) \in Seq(ClosedChunks(lines))
      BY <1>2, <2>2
    <2>4. RoleSize + lines[i] \in Nat
      BY <2>1 DEF RoleSize
    <2>5. [messages |-> <<i>>, size |-> RoleSize + lines[i], from |-> i] \in OpenChunks(lines)
      BY <1>1, <2>1, <2>4 DEF OpenChunks
    <2>6. PICK open : open =
            [messages |-> Append(acc.open.messages, i), from |-> acc.open.from,
             size |-> acc.open.size + (RoleSize + lines[i])
                        + (IF acc.open.messages = <<>> THEN 0 ELSE SeparatorSize)]
      OBVIOUS
    <2>7. open \in OpenChunks(lines)
      <3>1. Append(acc.open.messages, i) \in Seq(MessageLines(lines))
        BY <1>2, <2>1
      <3>2. acc.open.size + (RoleSize + lines[i])
              + (IF acc.open.messages = <<>> THEN 0 ELSE SeparatorSize) \in Nat
        BY <1>2, <2>4 DEF SeparatorSize
      <3> QED
        BY <1>2, <2>6, <3>1, <3>2 DEF OpenChunks
    <2>8. \/ AddLine(lines, acc, i) =
               [chunks |-> Append(acc.chunks, Closed(acc.open, i - 1)),
                open |-> [messages |-> <<i>>, size |-> RoleSize + lines[i], from |-> i]]
          \/ AddLine(lines, acc, i) = [acc EXCEPT !.open = open]
      BY <1>4, <2>6 DEF AddLine
    <2>9. [acc EXCEPT !.open = open] \in States(lines)
      BY <2>7 DEF States
    <2>10. [chunks |-> Append(acc.chunks, Closed(acc.open, i - 1)),
            open |-> [messages |-> <<i>>, size |-> RoleSize + lines[i], from |-> i]]
              \in States(lines)
      BY <2>3, <2>5 DEF States
    <2> QED
      BY <2>8, <2>9, <2>10
  <1> QED
    BY <1>3, <1>4

\* One line after the other, given what has been read so far.
ReadOn(lines, read, i) ==
    IF i = 0 THEN NothingRead ELSE AddLine(lines, read[i - 1], i)

LEMMA ReadingExists ==
    ASSUME NEW lines \in Conversations
    PROVE  \E read : read = [i \in 0 .. Len(lines) |-> ReadOn(lines, read, i)]
  <1> DEFINE n == Len(lines)
             step == [p \in (1 .. n) \X States(lines) |-> AddLine(lines, p[2], p[1])]
  <1>1. n \in Nat
    BY SizesOfLines
  <1>2. NothingRead \in States(lines)
    BY ReadingBegins DEF Reading
  <1>3. step \in [(1 .. n) \X States(lines) -> States(lines)]
    BY AddLineType
  <1>4. \A i \in 1 .. n, acc \in States(lines) : step[<<i, acc>>] = AddLine(lines, acc, i)
    OBVIOUS
  <1> HIDE DEF n, step
  <1>5. PICK f \in [0 .. n -> States(lines)] : Follows(n, NothingRead, step, f)
    BY <1>1, <1>2, <1>3, Iteration
  <1>6. \A i \in 0 .. n : f[i] = ReadOn(lines, f, i)
    <2>1. f[0] = ReadOn(lines, f, 0)
      BY <1>5 DEF Follows, ReadOn
    <2>2. ASSUME NEW i \in 1 .. n
          PROVE  f[i] = ReadOn(lines, f, i)
      <3>1. i - 1 \in 0 .. n /\ i # 0
        BY <1>1
      <3>2. f[i - 1] \in States(lines)
        BY <1>5, <3>1
      <3>3. f[i] = step[<<i, f[i - 1]>>]
        BY <1>5 DEF Follows
      <3>4. f[i] = AddLine(lines, f[i - 1], i)
        BY <1>4, <3>2, <3>3
      <3> QED
        BY <3>1, <3>4 DEF ReadOn
    <2>3. \A i \in 0 .. n : i = 0 \/ i \in 1 .. n
      BY <1>1
    <2> QED
      BY <2>1, <2>2, <2>3
  <1>7. f = [i \in 0 .. n |-> ReadOn(lines, f, i)]
    BY <1>5, <1>6
  <1> QED
    BY <1>7 DEF n

LEMMA ReadingGoesOn ==
    ASSUME NEW lines \in Conversations, NEW read,
           read = [i \in 0 .. Len(lines) |-> ReadOn(lines, read, i)]
    PROVE  Reading(lines, read[Len(lines)], Len(lines))
  <1> DEFINE n == Len(lines)
             S == {i \in 0 .. n : Reading(lines, read[i], i)}
  <1>1. n \in Nat
    BY SizesOfLines
  <1>2. \A i \in 0 .. n : read[i] = ReadOn(lines, read, i)
    OBVIOUS
  <1>3. 0 \in S
    BY <1>1, <1>2, ReadingBegins DEF ReadOn
  <1>4. ASSUME NEW i \in 1 .. n, i - 1 \in S
        PROVE  i \in S
    <2>1. i \in 0 .. n /\ i # 0
      BY <1>1
    <2>2. read[i] = AddLine(lines, read[i - 1], i)
      BY <1>2, <2>1 DEF ReadOn
    <2>3. Reading(lines, read[i - 1], i - 1)
      BY <1>4
    <2>4. Reading(lines, AddLine(lines, read[i - 1], i), i)
      BY <2>3, ReadLine
    <2> QED
      BY <2>1, <2>2, <2>4
  <1>5. n \in S
    <2> HIDE DEF S
    <2>1. 0 .. n \subseteq S
      BY <1>1, <1>3, <1>4, Induction
    <2> QED
      BY <1>1, <2>1
  <1> QED
    BY <1>5

\* Any conversation in JSONL is stored whole and in order: its chunks divide the lines among
\* them, each holds exactly the messages of its lines, none but the last is below
\* the minimum, and several messages are together only where they fit or where the
\* chunk was too small without the last (the second branch of JsonlChunker::chunk).
THEOREM AnyConversationIsTiled ==
    ASSUME NEW lines \in Conversations
    PROVE  Tiled(lines)
  <1> DEFINE n == Len(lines)
             read == CHOOSE f : f = [i \in 0 .. n |-> ReadOn(lines, f, i)]
             acc == read[n]
  <1>1. n \in Nat /\ DOMAIN lines = 1 .. n
    BY SizesOfLines
  <1>2. ConversationChunks(lines) =
          IF acc.open.messages = <<>> THEN acc.chunks
          ELSE Append(acc.chunks, Closed(acc.open, n))
    BY DEF ConversationChunks, ReadOn, NothingRead
  <1>3. read = [i \in 0 .. n |-> ReadOn(lines, read, i)]
    BY ReadingExists
  <1> HIDE DEF read
  <1>4. Reading(lines, acc, n)
    BY <1>3, ReadingGoesOn
  <1> HIDE DEF n, acc
  <1>5. PICK found : found = ConversationChunks(lines)
    OBVIOUS
  <1>6. CASE acc.open.messages = <<>>
    <2>1. acc.chunks = <<>> /\ found = <<>> /\ Len(found) = 0
      BY <1>2, <1>4, <1>5, <1>6 DEF Reading
    <2>2. acc.open.from = 1
      BY <1>4, <2>1 DEF Reading, DivideUpTo
    <2>3. AreMessagesOf(lines, <<>>, 1, n)
      BY <1>4, <1>6, <2>2 DEF Reading, WellOpen
    <2>4. ~ \E i \in DOMAIN lines : lines[i] # NoMessage
      BY <1>1, <2>3 DEF AreMessagesOf, ToSet
    <2> QED
      BY <1>5, <2>1, <2>4 DEF Tiled
  <1>7. CASE acc.open.messages # <<>>
    <2>1. PICK chunks, open, c : chunks = acc.chunks /\ open = acc.open /\ c = Closed(open, n)
      OBVIOUS
    <2>2. found = Append(chunks, c)
      BY <1>2, <1>5, <1>7, <2>1
    <2>3. /\ open \in OpenChunks(lines) /\ chunks \in Seq(ClosedChunks(lines))
          /\ WellOpen(lines, open, n) /\ DivideUpTo(lines, chunks, open.from)
          /\ \A k \in 1 .. Len(chunks) : FilledUp(lines, chunks[k])
      BY <1>4, <2>1 DEF Reading, States
    <2>4. WellClosed(lines, c)
      BY <1>1, <2>1, <2>3, OpenIsWellClosed
    <2>5. found \in Seq(ClosedChunks(lines)) /\ found # <<>> /\ DivideUpTo(lines, found, n + 1)
      BY <1>1, <2>1, <2>2, <2>3, <2>4, ClosingDivides
    <2>6. /\ Len(found) \in Nat /\ Len(found) > 0 /\ Len(found) - 1 = Len(chunks)
          /\ \A k \in 1 .. Len(chunks) : found[k] = chunks[k]
      BY <2>2, <2>3, <2>5
    <2>7. found[1].from = 1 /\ found[Len(found)].to = Len(lines)
      <3>1. found[1].from = 1 /\ found[Len(found)].to + 1 = n + 1
        BY <2>5 DEF DivideUpTo
      <3>2. found[Len(found)] \in ClosedChunks(lines)
        BY <2>5, <2>6
      <3>3. PICK to : to = found[Len(found)].to
        OBVIOUS
      <3>4. to \in Nat /\ to + 1 = n + 1
        BY <3>1, <3>2, <3>3 DEF ClosedChunks
      <3>5. to = n
        BY <1>1, <3>4
      <3> QED
        BY <3>1, <3>3, <3>5 DEF n
    <2>8. \A k \in 1 .. Len(found) - 1 :
             /\ found[k + 1].from = found[k].to + 1
             /\ SizeOf(lines, found[k].messages) + Len(found[k].messages) > MinSize
      BY <2>3, <2>5, <2>6 DEF DivideUpTo, FilledUp
    <2>9. \A k \in 1 .. Len(found) :
             /\ AreMessagesOf(lines, found[k].messages, found[k].from, found[k].to)
             /\ Fit(lines, found[k].messages)
      BY <2>5 DEF DivideUpTo, WellClosed
    <2> QED
      BY <1>5, <2>6, <2>7, <2>8, <2>9 DEF Tiled
  <1> QED
    BY <1>6, <1>7

\* What the chunks of a conversation are: none is empty.
LEMMA ChunksDivide ==
    ASSUME NEW lines \in Conversations, NEW found, found = ConversationChunks(lines)
    PROVE  /\ found \in Seq(ClosedChunks(lines))
           /\ found # <<>> => DivideUpTo(lines, found, Len(lines) + 1)
           /\ \A k \in 1 .. Len(found) : found[k].messages # <<>>
  <1> DEFINE n == Len(lines)
             read == CHOOSE f : f = [i \in 0 .. n |-> ReadOn(lines, f, i)]
             acc == read[n]
  <1>1. n \in Nat
    BY SizesOfLines
  <1>2. found = IF acc.open.messages = <<>> THEN acc.chunks
                ELSE Append(acc.chunks, Closed(acc.open, n))
    BY DEF ConversationChunks, ReadOn, NothingRead
  <1>3. read = [i \in 0 .. n |-> ReadOn(lines, read, i)]
    BY ReadingExists
  <1> HIDE DEF read
  <1>4. Reading(lines, acc, n)
    BY <1>3, ReadingGoesOn
  <1> HIDE DEF n, acc
  <1>5. CASE acc.open.messages = <<>>
    <2>1. found = <<>>
      BY <1>2, <1>4, <1>5 DEF Reading
    <2> QED
      BY <2>1
  <1>6. CASE acc.open.messages # <<>>
    <2>1. PICK chunks, open, c : chunks = acc.chunks /\ open = acc.open /\ c = Closed(open, n)
      OBVIOUS
    <2>2. found = Append(chunks, c)
      BY <1>2, <1>6, <2>1
    <2>3. /\ open \in OpenChunks(lines) /\ chunks \in Seq(ClosedChunks(lines))
          /\ WellOpen(lines, open, n) /\ DivideUpTo(lines, chunks, open.from)
          /\ \A k \in 1 .. Len(chunks) : FilledUp(lines, chunks[k])
      BY <1>4, <2>1 DEF Reading, States
    <2>4. WellClosed(lines, c)
      BY <1>1, <2>1, <2>3, OpenIsWellClosed
    <2>5. found \in Seq(ClosedChunks(lines)) /\ DivideUpTo(lines, found, n + 1)
      BY <1>1, <2>1, <2>2, <2>3, <2>4, ClosingDivides
    <2>6. ASSUME NEW k \in 1 .. Len(chunks), chunks[k].messages = <<>>
          PROVE  FALSE
      <3>1. SizeOf(lines, <<>>) + Len(<<>>) > MinSize
        BY <2>3, <2>6 DEF FilledUp
      <3>2. SizeOf(lines, <<>>) = 0 /\ Len(<<>>) = 0 /\ MinSize \in Nat
        BY SizeOfNone, ChunkingAssumption
      <3> QED
        BY <3>1, <3>2
    <2>7. c.messages # <<>>
      BY <1>6, <2>1 DEF Closed
    <2>8. \A k \in 1 .. Len(found) : (k \in 1 .. Len(chunks) /\ found[k] = chunks[k]) \/ found[k] = c
      BY <2>2, <2>3
    <2> QED
      BY <2>5, <2>6, <2>7, <2>8 DEF n
  <1> QED
    BY <1>5, <1>6

\* Each line is in the range of a chunk.
LEMMA LinesAreDivided ==
    ASSUME NEW lines \in Conversations, NEW found \in Seq(ClosedChunks(lines)), found # <<>>,
           DivideUpTo(lines, found, Len(lines) + 1), NEW i \in 1 .. Len(lines)
    PROVE  \E k \in 1 .. Len(found) : i \in found[k].from .. found[k].to
  <1>1. /\ Len(found) \in Nat /\ Len(found) > 0 /\ Len(lines) \in Nat
        /\ \A k \in 1 .. Len(found) : found[k].from \in Nat /\ found[k].to \in Nat
    <2>1. Len(found) \in Nat /\ Len(found) > 0
      OBVIOUS
    <2>2. \A k \in 1 .. Len(found) : found[k] \in ClosedChunks(lines)
      OBVIOUS
    <2> QED
      BY <2>1, <2>2, SizesOfLines DEF ClosedChunks
  <1>2. /\ found[1].from = 1 /\ found[Len(found)].to + 1 = Len(lines) + 1
        /\ \A k \in 1 .. Len(found) - 1 : found[k + 1].from = found[k].to + 1
    BY DEF DivideUpTo
  <1> DEFINE S == {k \in 1 .. Len(found) : i <= found[k].to}
  <1>3. Len(found) \in S
    BY <1>1, <1>2
  <1>4. PICK m \in S : \A k \in S : m <= k
    <2>1. S \subseteq Nat /\ S # {}
      BY <1>1, <1>3
    <2> HIDE DEF S
    <2> QED
      BY <2>1, LeastNumber
  <1>5. CASE m = 1
    BY <1>1, <1>2, <1>4, <1>5
  <1>6. CASE m # 1
    <2>1. m - 1 \in 1 .. Len(found) - 1 /\ m - 1 \notin S
      BY <1>1, <1>4, <1>6
    <2>2. ~ (i <= found[m - 1].to) /\ found[m - 1].to \in Nat
      BY <1>1, <2>1
    <2>3. found[(m - 1) + 1].from = found[m - 1].to + 1
      BY <1>2, <2>1
    <2>4. found[m].from = found[m - 1].to + 1
      BY <1>1, <1>4, <2>3
    <2>5. found[m].from <= i
      BY <2>2, <2>4
    <2> QED
      BY <1>1, <1>4, <2>5
  <1> QED
    BY <1>5, <1>6

\* Any conversation of Gemini's is stored whole and in order, wherever in the text its
\* entries start and whatever line the text is estimated to end on
\* (try_chunk_gemini_json).
THEOREM AnyGeminiIsKeptWhole ==
    ASSUME NEW entries \in Conversations,
           NEW starts \in [DOMAIN entries -> Nat \ {0}], NEW estimate \in Nat,
           \A i, j \in DOMAIN entries : i <= j => starts[i] <= starts[j]
    PROVE  KeptWhole(entries, starts, estimate)
  <1>1. PICK cut : cut = ConversationChunks(entries)
    OBVIOUS
  <1>2. /\ cut \in Seq(ClosedChunks(entries))
        /\ cut # <<>> => DivideUpTo(entries, cut, Len(entries) + 1)
        /\ \A k \in 1 .. Len(cut) : cut[k].messages # <<>>
    BY <1>1, ChunksDivide
  <1>3. PICK n : n = Len(cut)
    OBVIOUS
  <1>4. /\ n \in Nat /\ DOMAIN entries = 1 .. Len(entries) /\ Len(entries) \in Nat
        /\ \A k \in 1 .. n : cut[k] \in ClosedChunks(entries)
    BY <1>2, <1>3, SizesOfLines
  <1>5. n > 0 => DivideUpTo(entries, cut, Len(entries) + 1)
    BY <1>2, <1>3
  <1> DEFINE From(k) == IF k = 1 THEN 1 ELSE starts[cut[k].from]
             To(k) == IF k < n THEN From(k + 1) - 1 ELSE estimate
             Of(k) == ToSet(cut[k].messages)
  <1>6. PICK found : found = GeminiChunks(entries, starts, estimate)
    OBVIOUS
  <1>7. found = [k \in 1 .. n |-> [messages |-> cut[k].messages, from |-> From(k),
                                   to |-> Later(To(k), From(k))]]
    BY <1>1, <1>3, <1>6 DEF GeminiChunks
  <1>8. ASSUME NEW k \in 1 .. n
        PROVE  /\ found[k].messages = cut[k].messages
               /\ found[k].from = From(k) /\ found[k].to = Later(To(k), From(k))
    BY <1>7
  <1>9. Len(found) = n
    BY <1>4, <1>7
  <1>10. ASSUME NEW k \in 1 .. n
         PROVE  /\ cut[k].from \in Nat /\ cut[k].to \in Nat
                /\ Of(k) = {i \in cut[k].from .. cut[k].to : entries[i] # NoMessage}
                /\ Of(k) # {} /\ Of(k) \subseteq MessageLines(entries)
    <2>1. /\ cut[k] \in ClosedChunks(entries) /\ WellClosed(entries, cut[k])
          /\ cut[k].messages # <<>>
      BY <1>2, <1>3, <1>4, <1>5 DEF DivideUpTo
    <2>2. cut[k].messages \in Seq(MessageLines(entries))
      BY <2>1 DEF ClosedChunks
    <2>3. Of(k) # {} /\ Of(k) \subseteq MessageLines(entries)
      <3>1. PICK m : m = cut[k].messages
        OBVIOUS
      <3>2. 1 \in DOMAIN m /\ \A j \in DOMAIN m : m[j] \in MessageLines(entries)
        BY <2>1, <2>2, <3>1
      <3> QED
        BY <3>1, <3>2 DEF ToSet
    <2> QED
      BY <2>1, <2>3 DEF ClosedChunks, WellClosed, AreMessagesOf
  <1>11. ASSUME NEW k \in 1 .. n - 1
         PROVE  cut[k + 1].from = cut[k].to + 1
    BY <1>3, <1>4, <1>5 DEF DivideUpTo
  <1>12. ASSUME NEW k \in 1 .. n
         PROVE  cut[k].from \in DOMAIN entries
    <2>1. PICK i : i \in Of(k)
      BY <1>10
    <2>2. i \in DOMAIN entries /\ i \in cut[k].from .. cut[k].to
      BY <1>10, <2>1 DEF MessageLines
    <2>3. cut[k].from <= Len(entries)
      BY <1>4, <1>10, <2>2
    <2>4. cut[k].from >= 1
      <3>1. CASE k = 1
        BY <1>3, <1>4, <1>5, <3>1 DEF DivideUpTo
      <3>2. CASE k # 1
        <4>1. k - 1 \in 1 .. n - 1 /\ k - 1 \in 1 .. n /\ (k - 1) + 1 = k
          BY <1>4, <3>2
        <4>2. cut[k].from = cut[k - 1].to + 1 /\ cut[k - 1].to \in Nat
          BY <1>10, <1>11, <4>1
        <4> QED
          BY <4>2
      <3> QED
        BY <3>1, <3>2
    <2> QED
      BY <1>4, <1>10, <2>3, <2>4
  <1>13. ASSUME NEW k \in 1 .. n
         PROVE  From(k) \in Nat \ {0}
    BY <1>12
  <1>14. ASSUME NEW k \in 1 .. n, NEW i \in Of(k)
         PROVE  i \in DOMAIN entries /\ starts[i] \in Nat \ {0} /\ From(k) <= starts[i]
    <2>1. i \in DOMAIN entries /\ cut[k].from <= i
      BY <1>10 DEF MessageLines
    <2> QED
      BY <1>12, <2>1
  <1>15. UNION {Of(k) : k \in 1 .. n} = {i \in DOMAIN entries : entries[i] # NoMessage}
    <2>1. ASSUME NEW i \in DOMAIN entries, entries[i] # NoMessage
          PROVE  \E k \in 1 .. n : i \in Of(k)
      <3>1. n > 0
        <4>1. Tiled(entries)
          BY AnyConversationIsTiled
        <4> QED
          BY <1>1, <1>3, <2>1, <4>1 DEF Tiled
      <3>2. PICK k \in 1 .. n : i \in cut[k].from .. cut[k].to
        BY <1>2, <1>3, <1>4, <1>5, <3>1, LinesAreDivided
      <3> QED
        BY <1>10, <2>1, <3>2
    <2>2. \A k \in 1 .. n : Of(k) \subseteq {i \in DOMAIN entries : entries[i] # NoMessage}
      BY <1>10 DEF MessageLines
    <2> QED
      BY <2>1, <2>2
  <1>16. ASSUME NEW k \in 1 .. n - 1
         PROVE  /\ \/ Later(To(k), From(k)) < From(k + 1)
                   \/ Later(To(k), From(k)) = From(k) /\ From(k) = From(k + 1)
                /\ \A i \in Of(k) :
                      /\ \/ starts[i] <= Later(To(k), From(k))
                         \/ starts[i] = From(k + 1)
                      /\ \A j \in Of(k + 1) : i < j
    <2>1. k \in 1 .. n /\ k + 1 \in 1 .. n /\ k + 1 # 1 /\ k < n
      BY <1>4
    <2>2. To(k) = From(k + 1) - 1 /\ From(k + 1) = starts[cut[k + 1].from]
      BY <2>1
    <2>3. cut[k + 1].from = cut[k].to + 1
      BY <1>11
    <2>4. \A i \in Of(k) : i \in DOMAIN entries /\ i <= cut[k].to
      BY <1>10, <1>14, <2>1
    <2>5. \A i \in Of(k) : starts[i] <= From(k + 1)
      <3> TAKE i \in Of(k)
      <3>1. i \in DOMAIN entries /\ i <= cut[k + 1].from /\ cut[k + 1].from \in DOMAIN entries
        BY <1>4, <1>10, <1>12, <2>1, <2>3, <2>4
      <3> QED
        BY <2>2, <3>1
    <2>6. From(k) <= From(k + 1)
      <3>1. PICK i : i \in Of(k)
        BY <1>10, <2>1
      <3>2. From(k) <= starts[i] /\ starts[i] <= From(k + 1) /\ starts[i] \in Nat
        BY <1>14, <2>1, <2>5, <3>1
      <3>3. From(k) \in Nat /\ From(k + 1) \in Nat
        BY <1>13, <2>1
      <3> HIDE DEF From
      <3> QED
        BY <3>2, <3>3
    <2>7. From(k) \in Nat /\ From(k + 1) \in Nat
      BY <1>13, <2>1
    <2>8. ASSUME NEW i \in Of(k), NEW j \in Of(k + 1)
          PROVE  i < j
      <3>1. i \in Nat /\ i <= cut[k].to /\ cut[k].to \in Nat
        BY <1>4, <1>10, <2>1, <2>4
      <3>2. j \in cut[k + 1].from .. cut[k + 1].to
        BY <1>10, <2>1
      <3>3. j \in Nat /\ cut[k].to + 1 <= j
        BY <1>10, <2>1, <2>3, <3>2
      <3> HIDE DEF Of
      <3> QED
        BY <3>1, <3>3
    <2>9. \A i \in Of(k) : starts[i] \in Nat
      BY <1>14, <2>1
    <2> HIDE DEF From, To, Of
    <2> QED
      BY <2>2, <2>5, <2>6, <2>7, <2>8, <2>9 DEF Later
  <1>17. \A k \in 1 .. n : From(k) <= Later(To(k), From(k))
    <2> TAKE k \in 1 .. n
    <2>1. From(k) \in Nat /\ To(k) \in Int
      <3>1. k < n => From(k + 1) \in Nat
        BY <1>4, <1>13
      <3> QED
        BY <1>13, <3>1
    <2> HIDE DEF From, To
    <2> QED
      BY <2>1 DEF Later
  <1>18. \A k \in 1 .. n - 1 : k \in 1 .. n /\ k + 1 \in 1 .. n
    BY <1>4
  <1> HIDE DEF From, To
  <1> QED
    BY <1>6, <1>8, <1>9, <1>14, <1>15, <1>16, <1>17, <1>18 DEF KeptWhole

------------------------------------------------------------------------------
(* The tokens of a span in order.                                           *)

\* A span of a text, possibly empty.
SpanOf(text, span) ==
    /\ span \in Spans
    /\ 1 <= span.from /\ span.from <= span.to /\ span.to <= Len(text) + 1

\* q lists the numbers of S in increasing order.
Lists(q, S) ==
    /\ \A j \in 1 .. Len(q) : q[j] \in S
    /\ \A j, k \in 1 .. Len(q) : j < k => q[j] < q[k]
    /\ \A i \in S : \E j \in 1 .. Len(q) : q[j] = i

LEMMA ListsNothing == Lists(<<>>, {})
  <1>1. 1 .. Len(<<>>) = {}
    OBVIOUS
  <1> QED
    BY <1>1 DEF Lists

LEMMA ListsMore ==
    ASSUME NEW q \in Seq(Nat), NEW S, Lists(q, S), NEW i \in Nat, \A j \in S : j < i
    PROVE  Lists(Append(q, i), S \cup {i})
  <1>1. PICK r : r = Append(q, i)
    OBVIOUS
  <1>2. /\ Len(q) \in Nat /\ Len(r) = Len(q) + 1 /\ r[Len(q) + 1] = i
        /\ \A k \in 1 .. Len(q) : r[k] = q[k]
    BY <1>1
  <1>3. \A k \in 1 .. Len(r) : k \in 1 .. Len(q) \/ k = Len(q) + 1
    BY <1>2
  <1>4. \A j \in 1 .. Len(q) : q[j] \in S
    BY DEF Lists
  <1>5. \A j \in 1 .. Len(r) : r[j] \in S \cup {i}
    BY <1>2, <1>3, <1>4
  <1>6. ASSUME NEW j \in 1 .. Len(r), NEW k \in 1 .. Len(r), j < k
        PROVE  r[j] < r[k]
    <2>1. j \in 1 .. Len(q)
      BY <1>2, <1>6
    <2>2. CASE k \in 1 .. Len(q)
      <3>1. q[j] < q[k]
        BY <1>6, <2>1, <2>2 DEF Lists
      <3> QED
        BY <1>2, <2>1, <2>2, <3>1
    <2>3. CASE k = Len(q) + 1
      BY <1>2, <1>4, <2>1, <2>3
    <2> QED
      BY <1>3, <2>2, <2>3
  <1>7. ASSUME NEW x \in S \cup {i}
        PROVE  \E j \in 1 .. Len(r) : r[j] = x
    <2>1. CASE x \in S
      <3>1. PICK j \in 1 .. Len(q) : q[j] = x
        BY <2>1 DEF Lists
      <3>2. j \in 1 .. Len(r) /\ r[j] = x
        BY <1>2, <3>1
      <3> QED
        BY <3>2
    <2>2. CASE x = i
      <3>1. Len(q) + 1 \in 1 .. Len(r)
        BY <1>2
      <3> QED
        BY <1>2, <2>2, <3>1
    <2> QED
      BY <2>1, <2>2
  <1>8. Lists(r, S \cup {i})
    BY <1>5, <1>6, <1>7 DEF Lists
  <1> QED
    BY <1>1, <1>8

\* One position after the other, given what has been read so far.
ReadTokens(text, span, read, i) ==
    IF i = 0 THEN <<>>
    ELSE IF i \in TokensIn(text, span) THEN Append(read[i - 1], i) ELSE read[i - 1]

LEMMA TokenReadingExists ==
    ASSUME NEW A, NEW text \in Seq(A), NEW span
    PROVE  \E read : read = [i \in 0 .. Len(text) |-> ReadTokens(text, span, read, i)]
  <1> DEFINE n == Len(text)
             step == [p \in (1 .. n) \X Seq(Nat) |->
                        IF p[1] \in TokensIn(text, span) THEN Append(p[2], p[1]) ELSE p[2]]
  <1>1. n \in Nat
    OBVIOUS
  <1>3. <<>> \in Seq(Nat)
    OBVIOUS
  <1>4. \A i \in 1 .. n, q \in Seq(Nat) : Append(q, i) \in Seq(Nat)
    BY <1>1
  <1> HIDE DEF n
  <1>5. step \in [(1 .. n) \X Seq(Nat) -> Seq(Nat)]
    BY <1>4
  <1>6. \A i \in 1 .. n, q \in Seq(Nat) :
           step[<<i, q>>] = IF i \in TokensIn(text, span) THEN Append(q, i) ELSE q
    OBVIOUS
  <1> HIDE DEF step
  <1>7. PICK f \in [0 .. n -> Seq(Nat)] : Follows(n, <<>>, step, f)
    BY <1>1, <1>3, <1>5, Iteration
  <1>8. \A i \in 0 .. n : f[i] = ReadTokens(text, span, f, i)
    <2>1. f[0] = ReadTokens(text, span, f, 0)
      BY <1>7 DEF Follows, ReadTokens
    <2>2. ASSUME NEW i \in 1 .. n
          PROVE  f[i] = ReadTokens(text, span, f, i)
      <3>1. i - 1 \in 0 .. n /\ i # 0
        BY <1>1
      <3>2. f[i - 1] \in Seq(Nat)
        BY <1>7, <3>1
      <3>3. f[i] = step[<<i, f[i - 1]>>]
        BY <1>7 DEF Follows
      <3> QED
        BY <1>6, <3>1, <3>2, <3>3 DEF ReadTokens
    <2>3. \A i \in 0 .. n : i = 0 \/ i \in 1 .. n
      BY <1>1
    <2> QED
      BY <2>1, <2>2, <2>3
  <1>9. f = [i \in 0 .. n |-> ReadTokens(text, span, f, i)]
    BY <1>7, <1>8
  <1> QED
    BY <1>9 DEF n

\* TokensInOrder is what its name says.
LEMMA TokensAreListed ==
    ASSUME NEW A, NEW text \in Seq(A), NEW span, SpanOf(text, span)
    PROVE  /\ TokensInOrder(text, span) \in Seq(Nat)
           /\ Lists(TokensInOrder(text, span), TokensIn(text, span))
  <1> DEFINE n == Len(text)
             read == CHOOSE f : f = [i \in 0 .. n |-> ReadTokens(text, span, f, i)]
             Upto(i) == {j \in TokensIn(text, span) : j <= i}
             S == {i \in 0 .. n : read[i] \in Seq(Nat) /\ Lists(read[i], Upto(i))}
  <1>1. n \in Nat
    OBVIOUS
  <1>2. TokensInOrder(text, span) = read[n]
    BY DEF TokensInOrder, ReadTokens
  <1>3. read = [i \in 0 .. n |-> ReadTokens(text, span, read, i)]
    BY TokenReadingExists
  <1>4. TokensIn(text, span) \subseteq 1 .. n
    BY <1>1 DEF TokensIn, Positions, SpanOf, Spans
  <1> HIDE DEF n, read
  <1>5. 0 \in S
    <2>1. Upto(0) = {}
      BY <1>1, <1>4
    <2>2. 0 \in 0 .. n
      BY <1>1
    <2>3. read[0] = <<>>
      BY <1>3, <2>2 DEF ReadTokens
    <2>4. <<>> \in Seq(Nat)
      OBVIOUS
    <2> QED
      BY <2>1, <2>2, <2>3, <2>4, ListsNothing
  <1>6. ASSUME NEW i \in 1 .. n, i - 1 \in S
        PROVE  i \in S
    <2>1. i \in 0 .. n /\ i # 0 /\ i \in Nat
      BY <1>1
    <2>2. read[i] = ReadTokens(text, span, read, i)
      BY <1>3, <2>1
    <2>3. read[i - 1] \in Seq(Nat) /\ Lists(read[i - 1], Upto(i - 1))
      BY <1>6
    <2>4. CASE i \in TokensIn(text, span)
      <3>1. read[i] = Append(read[i - 1], i)
        BY <2>1, <2>2, <2>4 DEF ReadTokens
      <3>2. Upto(i) = Upto(i - 1) \cup {i}
        BY <1>1, <1>4, <2>4
      <3>3. \A j \in Upto(i - 1) : j < i
        BY <1>1, <1>4
      <3>4. Lists(read[i], Upto(i))
        <4> HIDE DEF Upto
        <4> QED
          BY <2>1, <2>3, <3>1, <3>2, <3>3, ListsMore
      <3>5. read[i] \in Seq(Nat)
        BY <2>1, <2>3, <3>1
      <3> QED
        BY <2>1, <3>4, <3>5
    <2>5. CASE i \notin TokensIn(text, span)
      <3>1. read[i] = read[i - 1]
        BY <2>1, <2>2, <2>5 DEF ReadTokens
      <3>2. Upto(i) = Upto(i - 1)
        BY <1>1, <1>4, <2>5
      <3> QED
        BY <2>1, <2>3, <3>1, <3>2
    <2> QED
      BY <2>4, <2>5
  <1>7. n \in S
    <2> HIDE DEF S
    <2>1. 0 .. n \subseteq S
      BY <1>1, <1>5, <1>6, Induction
    <2> QED
      BY <1>1, <2>1
  <1>8. Upto(n) = TokensIn(text, span)
    BY <1>1, <1>4
  <1> QED
    BY <1>2, <1>7, <1>8

------------------------------------------------------------------------------
(* The windows of tokens.                                                   *)

\* The next window of tokens begins within this one.
NextTokens(n, max, overlap, s) == Later(End(n, max, s) - overlap, 0)

TokenWindowsFrom(q, n, max, overlap, w, s) ==
    IF End(n, max, s) = n THEN <<Span(q[s + 1], q[End(n, max, s)] + 1)>>
    ELSE <<Span(q[s + 1], q[End(n, max, s)] + 1)>> \o w[NextTokens(n, max, overlap, s)]

LEMMA NextTokensAreFurther ==
    ASSUME NEW n \in Nat, NEW max \in Nat \ {0}, NEW overlap \in 0 .. max - 1,
           NEW s \in 0 .. n - 1
    PROVE  /\ End(n, max, s) \in s + 1 .. n /\ End(n, max, s) <= s + max
           /\ End(n, max, s) # n =>
                /\ NextTokens(n, max, overlap, s) \in s + 1 .. n - 1
                /\ NextTokens(n, max, overlap, s) <= End(n, max, s)
  BY DEF End, NextTokens, Earlier, Later

LEMMA TokenWindowsExist ==
    ASSUME NEW q \in Seq(Nat), NEW n \in Nat, NEW max \in Nat \ {0}, NEW overlap \in 0 .. max - 1
    PROVE  \E w : w = [s \in 0 .. n - 1 |-> TokenWindowsFrom(q, n, max, overlap, w, s)]
  <1> DEFINE Goes(m, w) ==
               /\ w = [s \in 0 .. n - 1 |-> w[s]]
               /\ \A s \in n - m .. n - 1 : w[s] = TokenWindowsFrom(q, n, max, overlap, w, s)
             S == {m \in 0 .. n : \E w : Goes(m, w)}
  <1>1. 0 \in S
    <2> DEFINE w == [s \in 0 .. n - 1 |-> s]
    <2>1. n - 0 .. n - 1 = {}
      OBVIOUS
    <2>2. w = [s \in 0 .. n - 1 |-> w[s]]
      OBVIOUS
    <2> HIDE DEF w
    <2>3. Goes(0, w)
      BY <2>1, <2>2
    <2>4. 0 \in 0 .. n
      OBVIOUS
    <2> QED
      BY <2>3, <2>4
  <1>2. ASSUME NEW m \in 1 .. n, m - 1 \in S
        PROVE  m \in S
    <2>1. PICK h : Goes(m - 1, h)
      BY <1>2
    <2> DEFINE a == n - m
               w == [s \in 0 .. n - 1 |->
                       IF s = a THEN TokenWindowsFrom(q, n, max, overlap, h, a) ELSE h[s]]
    <2>2. w = [s \in 0 .. n - 1 |-> w[s]]
      OBVIOUS
    <2>3. ASSUME NEW s \in n - m .. n - 1
          PROVE  w[s] = TokenWindowsFrom(q, n, max, overlap, w, s)
      <3>1. s \in 0 .. n - 1 /\ s >= a
        OBVIOUS
      <3>2. End(n, max, s) # n =>
              w[NextTokens(n, max, overlap, s)] = h[NextTokens(n, max, overlap, s)]
        <4>1. End(n, max, s) # n => NextTokens(n, max, overlap, s) \in s + 1 .. n - 1
          BY <3>1, NextTokensAreFurther
        <4>2. \A t \in s + 1 .. n - 1 : t \in 0 .. n - 1 /\ t # a
          BY <3>1
        <4>3. \A t \in 0 .. n - 1 : t # a => w[t] = h[t]
          OBVIOUS
        <4> HIDE DEF w, a
        <4> QED
          BY <4>1, <4>2, <4>3
      <3>3. TokenWindowsFrom(q, n, max, overlap, w, s) = TokenWindowsFrom(q, n, max, overlap, h, s)
        <4> HIDE DEF w
        <4> QED
          BY <3>2 DEF TokenWindowsFrom
      <3>4. CASE s = a
        BY <3>1, <3>3, <3>4
      <3>5. CASE s # a
        <4>1. w[s] = h[s]
          BY <3>1, <3>5
        <4>2. s \in n - (m - 1) .. n - 1
          BY <3>1, <3>5
        <4>3. h[s] = TokenWindowsFrom(q, n, max, overlap, h, s)
          BY <2>1, <4>2
        <4> QED
          BY <3>3, <4>1, <4>3
      <3> QED
        BY <3>4, <3>5
    <2> HIDE DEF w
    <2> QED
      BY <2>2, <2>3
  <1>3. n \in S
    <2> HIDE DEF S
    <2>1. 0 .. n \subseteq S
      BY <1>1, <1>2, Induction
    <2> QED
      BY <2>1
  <1>4. PICK w : Goes(n, w)
    BY <1>3
  <1>5. \A s \in 0 .. n - 1 : w[s] = TokenWindowsFrom(q, n, max, overlap, w, s)
    BY <1>4
  <1>6. w = [s \in 0 .. n - 1 |-> TokenWindowsFrom(q, n, max, overlap, w, s)]
    BY <1>4, <1>5
  <1> QED
    BY <1>6

\* x is a window over some of the tokens from the a-th, up to the e-th.
WindowOver(q, n, max, x, a, e) ==
    /\ a \in 0 .. n - 1 /\ e \in a + 1 .. n /\ e <= a + max
    /\ x = Span(q[a + 1], q[e] + 1)

\* What the windows of the tokens q from the s-th on are.
TokensRunFrom(q, n, max, s, w) ==
    /\ w \in Seq(Spans)
    /\ Len(w) > 0
    /\ \A k \in 1 .. Len(w) : \E a, e \in Nat : WindowOver(q, n, max, w[k], a, e)
    /\ \A j \in s + 1 .. n : \E k \in 1 .. Len(w) : w[k].from <= q[j] /\ q[j] < w[k].to

\* A window of the tokens from the s-th on.
LEMMA OneTokenWindow ==
    ASSUME NEW n \in Nat, NEW max \in Nat \ {0}, NEW S, NEW q \in Seq(Nat), Len(q) = n,
           Lists(q, S), NEW s \in 0 .. n - 1, NEW x,
           x = Span(q[s + 1], q[End(n, max, s)] + 1)
    PROVE  /\ x \in Spans
           /\ WindowOver(q, n, max, x, s, End(n, max, s))
           /\ \A j \in s + 1 .. End(n, max, s) : x.from <= q[j] /\ q[j] < x.to
  <1>1. PICK e : e = End(n, max, s)
    OBVIOUS
  <1>2. e \in s + 1 .. n /\ e <= s + max
    BY <1>1 DEF End, Earlier
  <1>3. s + 1 \in 1 .. n /\ e \in 1 .. n
    BY <1>2
  <1>4. \A j \in 1 .. n : q[j] \in Nat
    OBVIOUS
  <1>5. x.from = q[s + 1] /\ x.to = q[e] + 1
    BY <1>1 DEF Span
  <1>6. x \in Spans
    BY <1>1, <1>3, <1>4 DEF Span, Spans
  <1>7. \A j, k \in 1 .. n : j < k => q[j] < q[k]
    BY DEF Lists
  <1>8. ASSUME NEW j \in s + 1 .. e
        PROVE  x.from <= q[j] /\ q[j] < x.to
    <2>1. j \in 1 .. n /\ q[j] \in Nat /\ q[s + 1] \in Nat /\ q[e] \in Nat
      BY <1>2, <1>3, <1>4
    <2>2. j = s + 1 \/ s + 1 < j
      BY <1>2
    <2>3. q[s + 1] <= q[j]
      BY <1>3, <1>7, <2>1, <2>2
    <2>4. j = e \/ j < e
      BY <1>2
    <2>5. q[j] <= q[e]
      BY <1>3, <1>7, <2>1, <2>4
    <2> QED
      BY <1>5, <2>1, <2>3, <2>5
  <1>9. WindowOver(q, n, max, x, s, e)
    BY <1>1, <1>2 DEF WindowOver
  <1> QED
    BY <1>1, <1>6, <1>8, <1>9

LEMMA LastTokenWindow ==
    ASSUME NEW n \in Nat, NEW max \in Nat \ {0}, NEW S, NEW q \in Seq(Nat), Len(q) = n,
           Lists(q, S), NEW s \in 0 .. n - 1, End(n, max, s) = n
    PROVE  TokensRunFrom(q, n, max, s, <<Span(q[s + 1], q[End(n, max, s)] + 1)>>)
  <1>1. PICK x : x = Span(q[s + 1], q[End(n, max, s)] + 1)
    OBVIOUS
  <1>2. /\ x \in Spans
        /\ WindowOver(q, n, max, x, s, n)
        /\ \A j \in s + 1 .. n : x.from <= q[j] /\ q[j] < x.to
    BY <1>1, OneTokenWindow
  <1>3. <<x>> \in Seq(Spans) /\ Len(<<x>>) = 1 /\ <<x>>[1] = x
    BY <1>2
  <1>4. s \in Nat /\ 1 \in 1 .. 1 /\ \A k \in 1 .. 1 : k = 1
    OBVIOUS
  <1>5. TokensRunFrom(q, n, max, s, <<x>>)
    BY <1>2, <1>3, <1>4 DEF TokensRunFrom
  <1> QED
    BY <1>1, <1>5

LEMMA TokenWindowBefore ==
    ASSUME NEW n \in Nat, NEW max \in Nat \ {0}, NEW S, NEW q \in Seq(Nat), Len(q) = n,
           Lists(q, S), NEW s \in 0 .. n - 1, NEW t \in s + 1 .. n - 1,
           t <= End(n, max, s), NEW w, TokensRunFrom(q, n, max, t, w)
    PROVE  TokensRunFrom(q, n, max, s, <<Span(q[s + 1], q[End(n, max, s)] + 1)>> \o w)
  <1>1. PICK x : x = Span(q[s + 1], q[End(n, max, s)] + 1)
    OBVIOUS
  <1>2. PICK r : r = <<x>> \o w
    OBVIOUS
  <1>3. PICK e : e = End(n, max, s)
    OBVIOUS
  <1>4. /\ x \in Spans
        /\ WindowOver(q, n, max, x, s, e)
        /\ \A j \in s + 1 .. e : x.from <= q[j] /\ q[j] < x.to
    BY <1>1, <1>3, OneTokenWindow
  <1>5. e \in Nat /\ s \in Nat /\ t <= e
    BY <1>3 DEF End, Earlier
  <1>6. w \in Seq(Spans) /\ Len(w) \in Nat /\ Len(w) > 0
    BY DEF TokensRunFrom
  <1>7. /\ r \in Seq(Spans) /\ Len(r) = Len(w) + 1 /\ r[1] = x
        /\ \A k \in 2 .. Len(w) + 1 : r[k] = w[k - 1]
    BY <1>2, <1>4, <1>6, InFront
  <1>8. ASSUME NEW k \in 1 .. Len(r)
        PROVE  \E a, b \in Nat : WindowOver(q, n, max, r[k], a, b)
    <2>1. CASE k = 1
      BY <1>4, <1>5, <1>7, <2>1
    <2>2. CASE k # 1
      <3>1. k - 1 \in 1 .. Len(w) /\ r[k] = w[k - 1]
        BY <1>6, <1>7, <2>2
      <3>2. \E a, b \in Nat : WindowOver(q, n, max, w[k - 1], a, b)
        BY <3>1 DEF TokensRunFrom
      <3> QED
        BY <3>1, <3>2
    <2> QED
      BY <2>1, <2>2
  <1>9. ASSUME NEW j \in s + 1 .. n
        PROVE  \E k \in 1 .. Len(r) : r[k].from <= q[j] /\ q[j] < r[k].to
    <2>1. CASE j <= e
      <3>1. 1 \in 1 .. Len(r) /\ j \in s + 1 .. e
        BY <1>5, <1>6, <1>7, <2>1
      <3> QED
        BY <1>4, <1>7, <3>1
    <2>2. CASE j > e
      <3>1. j \in t + 1 .. n
        BY <1>5, <2>2
      <3>2. PICK k \in 1 .. Len(w) : w[k].from <= q[j] /\ q[j] < w[k].to
        BY <3>1 DEF TokensRunFrom
      <3>3. PICK h \in 2 .. Len(w) + 1 : h - 1 = k
        BY <1>6
      <3>4. r[h] = w[k] /\ h \in 1 .. Len(r)
        <4>1. r[h] = w[h - 1]
          BY <1>7
        <4>2. h \in 1 .. Len(r)
          BY <1>6, <1>7
        <4> QED
          BY <3>3, <4>1, <4>2
      <3>5. r[h].from <= q[j] /\ q[j] < r[h].to
        BY <3>2, <3>4
      <3> QED
        BY <3>4, <3>5
    <2> QED
      BY <1>5, <2>1, <2>2
  <1>10. Len(r) > 0
    BY <1>6, <1>7
  <1>11. TokensRunFrom(q, n, max, s, r)
    BY <1>7, <1>8, <1>9, <1>10 DEF TokensRunFrom
  <1> QED
    BY <1>1, <1>2, <1>11

LEMMA TokenWindowsRun ==
    ASSUME NEW n \in Nat \ {0}, NEW max \in Nat \ {0}, NEW overlap \in 0 .. max - 1,
           NEW S, NEW q \in Seq(Nat), Len(q) = n, Lists(q, S), NEW w,
           \A s \in 0 .. n - 1 : w[s] = TokenWindowsFrom(q, n, max, overlap, w, s)
    PROVE  TokensRunFrom(q, n, max, 0, w[0])
  <1> DEFINE Bad == {s \in 0 .. n - 1 : ~ TokensRunFrom(q, n, max, s, w[s])}
             D == {n - s : s \in Bad}
  <1>1. ASSUME Bad # {}
        PROVE  FALSE
    <2>1. D \subseteq Nat /\ D # {}
      BY <1>1
    <2>2. PICK d \in D : \A k \in D : d <= k
      <3> HIDE DEF D
      <3> QED
        BY <2>1, LeastNumber
    <2>3. PICK s \in Bad : d = n - s
      BY <2>2
    <2>4. s \in 0 .. n - 1 /\ ~ TokensRunFrom(q, n, max, s, w[s])
      BY <2>3
    <2>5. \A t \in s + 1 .. n - 1 : TokensRunFrom(q, n, max, t, w[t])
      <3> SUFFICES ASSUME NEW t \in s + 1 .. n - 1, ~ TokensRunFrom(q, n, max, t, w[t])
                   PROVE  FALSE
        OBVIOUS
      <3>1. t \in Bad
        BY <2>4
      <3>2. d <= n - t
        BY <2>2, <3>1
      <3> QED
        BY <2>3, <2>4, <3>2
    <2> HIDE DEF Bad, D
    <2>6. w[s] = TokenWindowsFrom(q, n, max, overlap, w, s)
      BY <2>4
    <2>7. CASE End(n, max, s) = n
      BY <2>4, <2>6, <2>7, LastTokenWindow DEF TokenWindowsFrom
    <2>8. CASE End(n, max, s) # n
      <3>1. PICK t : t = NextTokens(n, max, overlap, s)
        OBVIOUS
      <3>2. t \in s + 1 .. n - 1 /\ t <= End(n, max, s)
        BY <2>4, <2>8, <3>1, NextTokensAreFurther
      <3>3. TokensRunFrom(q, n, max, t, w[t])
        BY <2>5, <3>2
      <3>4. w[s] = <<Span(q[s + 1], q[End(n, max, s)] + 1)>> \o w[t]
        BY <2>6, <2>8, <3>1 DEF TokenWindowsFrom
      <3> QED
        BY <2>4, <3>2, <3>3, <3>4, TokenWindowBefore
    <2> QED
      BY <2>7, <2>8
  <1>2. 0 \in 0 .. n - 1
    OBVIOUS
  <1> QED
    BY <1>1, <1>2

------------------------------------------------------------------------------
(* The pieces of a span.                                                    *)

\* A part of a span with at most so many tokens.
IsPiece(text, span, max, p) ==
    /\ p \in Spans
    /\ span.from <= p.from /\ p.from <= p.to /\ p.to <= span.to
    /\ span.from < span.to => p.from < p.to
    /\ Cardinality(TokensIn(text, p)) <= max

\* Parts of a span which leave out none of its tokens.
ArePieces(text, span, max, w) ==
    /\ w \in Seq(Spans)
    /\ \A k \in 1 .. Len(w) : IsPiece(text, span, max, w[k])
    /\ \A i \in TokensIn(text, span) : \E k \in 1 .. Len(w) : i \in Positions(w[k])

\* No more tokens are between the a-th and the e-th than these.
LEMMA TokensBetween ==
    ASSUME NEW S, NEW q \in Seq(Nat), Lists(q, S), NEW a \in Nat, NEW e \in a + 1 .. Len(q),
           NEW T, T \subseteq S, \A i \in T : q[a + 1] <= i /\ i <= q[e]
    PROVE  IsFiniteSet(T) /\ Cardinality(T) <= e - a
  <1> DEFINE f == [j \in 1 .. e - a |-> q[a + j]]
             R == {q[a + j] : j \in 1 .. e - a}
  <1>1. e - a \in Nat /\ Len(q) \in Nat /\ \A j \in 1 .. Len(q) : q[j] \in Nat
    OBVIOUS
  <1>2. f \in Surjection(1 .. e - a, R)
    BY DEF Surjection
  <1>3. IsFiniteSet(R) /\ Cardinality(R) <= e - a
    <2> HIDE DEF f, R
    <2>1. ExistsSurjection(1 .. e - a, R)
      BY <1>2 DEF ExistsSurjection
    <2>2. Cardinality(R) <= e - a
      BY <1>1, <2>1, FS_SurjCardinalityBound
    <2>3. IsFiniteSet(1 .. e - a)
      BY <1>1, FS_Interval
    <2> QED
      BY <1>2, <2>2, <2>3, FS_Surjection
  <1>4. ASSUME NEW i \in T
        PROVE  i \in R
    <2>1. PICK j \in 1 .. Len(q) : q[j] = i
      BY DEF Lists
    <2>2. a + 1 \in 1 .. Len(q) /\ e \in 1 .. Len(q)
      BY <1>1
    <2>3. q[a + 1] \in Nat /\ q[e] \in Nat /\ q[j] \in Nat
      BY <1>1, <2>2
    <2>4. ~ (q[j] < q[a + 1]) /\ ~ (q[e] < q[j])
      BY <2>1, <2>3
    <2>5. ~ (j < a + 1) /\ ~ (e < j)
      BY <2>2, <2>4 DEF Lists
    <2>6. j - a \in 1 .. e - a /\ a + (j - a) = j
      BY <1>1, <2>5
    <2>7. PICK h \in 1 .. e - a : a + h = j
      BY <2>6
    <2>8. q[a + h] = i
      BY <2>1, <2>7
    <2> QED
      BY <2>8
  <1>5. T \subseteq R
    BY <1>4
  <1> HIDE DEF R, f
  <1>6. IsFiniteSet(T) /\ Cardinality(T) <= Cardinality(R)
    BY <1>3, <1>5, FS_Subset
  <1>7. Cardinality(T) \in Nat /\ Cardinality(R) \in Nat
    BY <1>3, <1>6, FS_CardinalityType
  <1> QED
    BY <1>3, <1>6, <1>7

LEMMA WindowIsPiece ==
    ASSUME NEW A, NEW text \in Seq(A), NEW span, SpanOf(text, span), NEW max \in Nat,
           NEW q \in Seq(Nat), Lists(q, TokensIn(text, span)), NEW x,
           NEW a \in Nat, NEW e \in Nat, WindowOver(q, Len(q), max, x, a, e)
    PROVE  IsPiece(text, span, max, x)
  <1>1. /\ Len(q) \in Nat /\ e \in a + 1 .. Len(q) /\ e <= a + max
        /\ x = Span(q[a + 1], q[e] + 1)
    BY DEF WindowOver
  <1>2. a + 1 \in 1 .. Len(q) /\ e \in 1 .. Len(q)
    BY <1>1
  <1>3. q[a + 1] \in TokensIn(text, span) /\ q[e] \in TokensIn(text, span)
    BY <1>2 DEF Lists
  <1>4. PICK b, c \in Nat : b = q[a + 1] /\ c = q[e]
    BY <1>2
  <1>5. a + 1 = e \/ a + 1 < e
    BY <1>1
  <1>6. b <= c
    <2>1. CASE a + 1 = e
      BY <1>4, <2>1
    <2>2. CASE a + 1 < e
      <3>1. q[a + 1] < q[e]
        BY <1>2, <2>2 DEF Lists
      <3> QED
        BY <1>4, <3>1
    <2> QED
      BY <1>5, <2>1, <2>2
  <1>7. x.from = b /\ x.to = c + 1 /\ x \in Spans
    BY <1>1, <1>4 DEF Span, Spans
  <1>8. PICK f, t \in Nat : f = span.from /\ t = span.to
    BY DEF SpanOf, Spans
  <1>9. f <= b /\ b <= t - 1 /\ f <= c /\ c <= t - 1
    <2>1. Positions(span) = f .. t - 1
      BY <1>8 DEF Positions
    <2>2. b \in Positions(span) /\ c \in Positions(span)
      BY <1>3, <1>4 DEF TokensIn
    <2> QED
      BY <2>1, <2>2
  <1>10. Cardinality(TokensIn(text, x)) <= max
    <2>1. TokensIn(text, x) \subseteq TokensIn(text, span)
      <3>1. Positions(span) = f .. t - 1 /\ Positions(x) = b .. c + 1 - 1
        BY <1>7, <1>8 DEF Positions
      <3>2. \A i \in b .. c + 1 - 1 : i \in f .. t - 1
        BY <1>9
      <3>3. Positions(x) \subseteq Positions(span)
        BY <3>1, <3>2
      <3> QED
        BY <3>3 DEF TokensIn
    <2>2. \A i \in TokensIn(text, x) : q[a + 1] <= i /\ i <= q[e]
      BY <1>4, <1>7 DEF TokensIn, Positions
    <2>3. PICK T : T = TokensIn(text, x)
      OBVIOUS
    <2>4. IsFiniteSet(T) /\ Cardinality(T) <= e - a
      BY <1>1, <2>1, <2>2, <2>3, TokensBetween
    <2>5. Cardinality(T) \in Nat
      BY <2>4, FS_CardinalityType
    <2> QED
      BY <1>1, <2>3, <2>4, <2>5
  <1> QED
    BY <1>6, <1>7, <1>8, <1>9, <1>10 DEF IsPiece

\* Windows of tokens leave out none.
LEMMA TokenWindowsArePieces ==
    ASSUME NEW A, NEW text \in Seq(A), NEW span, SpanOf(text, span),
           NEW max \in Nat \ {0}, NEW overlap \in 0 .. max - 1
    PROVE  ArePieces(text, span, max, TokenWindows(text, span, max, overlap))
  <1> DEFINE q == TokensInOrder(text, span)
             n == Len(q)
             w == CHOOSE f : f = [s \in 0 .. n - 1 |-> TokenWindowsFrom(q, n, max, overlap, f, s)]
  <1>1. q \in Seq(Nat) /\ Lists(q, TokensIn(text, span))
    BY TokensAreListed
  <1>2. TokenWindows(text, span, max, overlap) = IF n = 0 THEN <<>> ELSE w[0]
    BY DEF TokenWindows, WindowsOver, TokenWindowsFrom, End, NextTokens
  <1>3. n \in Nat /\ n = Len(q)
    BY <1>1
  <1> HIDE DEF q, n
  <1>4. CASE n = 0
    <2>1. 1 .. n = {}
      BY <1>4
    <2>2. TokensIn(text, span) = {}
      BY <1>1, <1>3, <2>1 DEF Lists
    <2>3. <<>> \in Seq(Spans) /\ 1 .. Len(<<>>) = {}
      OBVIOUS
    <2>4. ArePieces(text, span, max, <<>>)
      BY <2>2, <2>3 DEF ArePieces
    <2> QED
      BY <1>2, <1>4, <2>4
  <1>5. CASE n # 0
    <2>1. w = [s \in 0 .. n - 1 |-> TokenWindowsFrom(q, n, max, overlap, w, s)]
      <3>1. \E f : f = [s \in 0 .. n - 1 |-> TokenWindowsFrom(q, n, max, overlap, f, s)]
        BY <1>1, <1>3, TokenWindowsExist
      <3> QED
        BY <3>1
    <2> HIDE DEF w
    <2>2. \A s \in 0 .. n - 1 : w[s] = TokenWindowsFrom(q, n, max, overlap, w, s)
      BY <2>1
    <2>3. n \in Nat \ {0}
      BY <1>3, <1>5
    <2>4. TokensRunFrom(q, n, max, 0, w[0])
      BY <1>1, <1>3, <2>2, <2>3, TokenWindowsRun
    <2>5. PICK v : v = w[0]
      OBVIOUS
    <2>6. v \in Seq(Spans)
      BY <2>4, <2>5 DEF TokensRunFrom
    <2>7. ASSUME NEW k \in 1 .. Len(v)
          PROVE  IsPiece(text, span, max, v[k])
      <3>1. PICK a, e \in Nat : WindowOver(q, n, max, v[k], a, e)
        BY <2>4, <2>5 DEF TokensRunFrom
      <3> QED
        BY <1>1, <1>3, <3>1, WindowIsPiece
    <2>8. ASSUME NEW i \in TokensIn(text, span)
          PROVE  \E k \in 1 .. Len(v) : i \in Positions(v[k])
      <3>1. PICK j \in 1 .. n : q[j] = i
        BY <1>1, <1>3 DEF Lists
      <3>2. j \in 0 + 1 .. n
        BY <3>1
      <3>3. PICK k \in 1 .. Len(v) : v[k].from <= q[j] /\ q[j] < v[k].to
        BY <2>4, <2>5, <3>2 DEF TokensRunFrom
      <3>4. v[k] \in Spans
        BY <2>6
      <3>5. q[j] \in Nat
        BY <1>1, <1>3
      <3>6. i \in Positions(v[k])
        BY <3>1, <3>3, <3>4, <3>5 DEF Positions, Spans
      <3> QED
        BY <3>6
    <2>9. ArePieces(text, span, max, v)
      BY <2>6, <2>7, <2>8 DEF ArePieces
    <2> QED
      BY <1>2, <1>5, <2>5, <2>9
  <1> QED
    BY <1>4, <1>5

LEMMA LimitsArePositive == MaxTokens \in Nat \ {0} /\ DefaultTokens \in Nat \ {0}
  BY ChunkingAssumption

LEMMA SomeTokens ==
    ASSUME NEW A, NEW text \in Seq(A), NEW span, SpanOf(text, span)
    PROVE  /\ IsFiniteSet(TokensIn(text, span))
           /\ Cardinality(TokensIn(text, span)) \in Nat
           /\ TokensIn(text, span) = {} => Cardinality(TokensIn(text, span)) = 0
  <1>1. TokensIn(text, span) \subseteq Nat /\ \A i \in TokensIn(text, span) : i <= Len(text)
    BY DEF TokensIn, Positions, SpanOf, Spans
  <1>2. Len(text) \in Nat
    OBVIOUS
  <1>3. IsFiniteSet(TokensIn(text, span))
    BY <1>1, <1>2, FS_BoundedSetOfNaturals
  <1> QED
    BY <1>3, FS_CardinalityType, FS_EmptySet

\* Whatever the number of its tokens, a span is cut into pieces within the limit.
LEMMA SpansAreCut ==
    ASSUME NEW A, NEW text \in Seq(A), NEW span, SpanOf(text, span)
    PROVE  ArePieces(text, span, MaxTokens, Pieces(text, span)) /\ Len(Pieces(text, span)) > 0
  <1>1. PICK T : T = TokensIn(text, span)
    OBVIOUS
  <1>2. MaxTokens \in Nat \ {0} /\ Overlap \in 0 .. MaxTokens - 1
    BY ChunkingAssumption, LimitsArePositive
  <1>3. Cardinality(T) \in Nat /\ (T = {} => Cardinality(T) = 0)
    BY <1>1, SomeTokens
  <1>4. CASE Cardinality(T) > MaxTokens
    <2>1. PICK w : w = TokenWindows(text, span, MaxTokens, Overlap)
      OBVIOUS
    <2>2. Pieces(text, span) = w
      BY <1>1, <1>4, <2>1 DEF Pieces
    <2>3. ArePieces(text, span, MaxTokens, w)
      BY <1>2, <2>1, TokenWindowsArePieces
    <2>4. T # {}
      BY <1>2, <1>3, <1>4
    <2>5. PICK i \in T : \E k \in 1 .. Len(w) : i \in Positions(w[k])
      BY <1>1, <2>3, <2>4 DEF ArePieces
    <2>6. Len(w) \in Nat /\ \E k \in 1 .. Len(w) : TRUE
      BY <2>3, <2>5 DEF ArePieces
    <2> QED
      BY <2>2, <2>3, <2>6
  <1>5. CASE ~ (Cardinality(T) > MaxTokens)
    <2>1. Pieces(text, span) = <<span>>
      BY <1>1, <1>5 DEF Pieces
    <2>2. <<span>> \in Seq(Spans) /\ Len(<<span>>) = 1 /\ <<span>>[1] = span
      BY DEF SpanOf
    <2>3. IsPiece(text, span, MaxTokens, span)
      <3>1. Cardinality(TokensIn(text, span)) <= MaxTokens
        BY <1>1, <1>2, <1>3, <1>5
      <3> QED
        BY <3>1 DEF IsPiece, SpanOf, Spans
    <2>4. \A i \in TokensIn(text, span) : i \in Positions(span)
      BY DEF TokensIn
    <2>5. 1 \in 1 .. 1 /\ \A k \in 1 .. 1 : k = 1
      OBVIOUS
    <2>6. ArePieces(text, span, MaxTokens, <<span>>)
      BY <2>2, <2>3, <2>4, <2>5 DEF ArePieces
    <2> QED
      BY <2>1, <2>2, <2>6
  <1> QED
    BY <1>4, <1>5

------------------------------------------------------------------------------
(* The nodes in order.                                                      *)

SyntaxNodes == {n \in [from : Nat \ {0}, to : Nat,
                       kind : {"container", "function", "declaration", "other"}] :
                   n.from < n.to}

\* What a parser may find in a text.
IsTree(text, nodes) ==
    /\ IsFiniteSet(nodes)
    /\ nodes \subseteq SyntaxNodes
    /\ \A n \in nodes : n.to <= Len(text) + 1
    /\ IsSyntax(nodes)

LEMMA NodesAreOrdered ==
    ASSUME NEW text, NEW nodes, IsTree(text, nodes), NEW m \in nodes, NEW n \in nodes, m # n
    PROVE  InOrder(m, n) \/ InOrder(n, m)
  <1>1. m.from \in Nat /\ m.to \in Nat /\ n.from \in Nat /\ n.to \in Nat
    BY DEF IsTree, SyntaxNodes
  <1>2. m.from # n.from \/ m.to # n.to
    BY DEF IsTree, IsSyntax
  <1> QED
    BY <1>1, <1>2 DEF InOrder

\* The one that comes after all the others of a set.
IsLast(x, C) == x \in C /\ \A y \in C : y = x \/ InOrder(y, x)

LEMMA OneIsLast ==
    ASSUME NEW A, NEW text \in Seq(A), NEW nodes, IsTree(text, nodes),
           NEW C \in SUBSET nodes, C # {}
    PROVE  \E x : IsLast(x, C)
  <1> DEFINE n == Len(text) + 1
             D == {n - y.from : y \in C}
  <1>1. n \in Nat /\ \A y \in C : y.from \in Nat /\ y.to \in Nat /\ y.from < y.to /\ y.to <= n
    BY DEF IsTree, SyntaxNodes
  <1> HIDE DEF n
  <1>2. D \subseteq Nat /\ D # {}
    BY <1>1
  <1>3. PICK d \in D : \A k \in D : d <= k
    <2> HIDE DEF D
    <2> QED
      BY <1>2, LeastNumber
  <1>4. PICK z \in C : d = n - z.from
    OBVIOUS
  <1>5. \A y \in C : y.from <= z.from
    <2> SUFFICES ASSUME NEW y \in C
                 PROVE  y.from <= z.from
      OBVIOUS
    <2>1. d <= n - y.from
      BY <1>3
    <2> QED
      BY <1>1, <1>4, <2>1
  <1> DEFINE E == {y.to : y \in {c \in C : c.from = z.from}}
  <1>6. E \subseteq Nat /\ E # {}
    BY <1>1
  <1>7. PICK e \in E : \A k \in E : e <= k
    <2> HIDE DEF E
    <2> QED
      BY <1>6, LeastNumber
  <1>8. PICK x \in C : x.from = z.from /\ x.to = e
    OBVIOUS
  <1>9. ASSUME NEW y \in C, y # x
        PROVE  InOrder(y, x)
    <2>1. ~ InOrder(x, y)
      <3>1. y.from <= x.from
        BY <1>5, <1>8
      <3>2. y.from = x.from => x.to <= y.to
        BY <1>7, <1>8
      <3>3. x.from \in Nat /\ x.to \in Nat /\ y.from \in Nat /\ y.to \in Nat
        BY <1>1
      <3> QED
        BY <3>1, <3>2, <3>3 DEF InOrder
    <2>2. InOrder(x, y) \/ InOrder(y, x)
      BY <1>9, NodesAreOrdered
    <2> QED
      BY <2>1, <2>2
  <1>10. IsLast(x, C)
    BY <1>9 DEF IsLast
  <1> QED
    BY <1>10

\* The nodes of a set in order, c of them.
Sorts(q, C, c) ==
    /\ q \in [1 .. c -> C]
    /\ \A y \in C : \E j \in 1 .. c : q[j] = y
    /\ \A i, j \in 1 .. c : i < j => InOrder(q[i], q[j])

LEMMA SortedWithLast ==
    ASSUME NEW C, NEW x \in C, IsLast(x, C), NEW c \in Nat \ {0}, NEW q, Sorts(q, C \ {x}, c - 1)
    PROVE  \E r : Sorts(r, C, c)
  <1> DEFINE r == [i \in 1 .. c |-> IF i = c THEN x ELSE q[i]]
  <1>1. \A i \in 1 .. c : i = c \/ i \in 1 .. c - 1
    OBVIOUS
  <1>2. \A i \in 1 .. c - 1 : q[i] \in C /\ InOrder(q[i], x)
    BY DEF Sorts, IsLast
  <1>3. /\ r[c] = x /\ c \in 1 .. c
        /\ \A i \in 1 .. c - 1 : r[i] = q[i] /\ i \in 1 .. c
    OBVIOUS
  <1>4. r \in [1 .. c -> C]
    BY <1>1, <1>2
  <1> HIDE DEF r
  <1>5. ASSUME NEW y \in C
        PROVE  \E j \in 1 .. c : r[j] = y
    <2>1. CASE y = x
      BY <1>3, <2>1
    <2>2. CASE y # x
      <3>1. PICK j \in 1 .. c - 1 : q[j] = y
        BY <2>2 DEF Sorts
      <3> QED
        BY <1>3, <3>1
    <2> QED
      BY <2>1, <2>2
  <1>6. ASSUME NEW i \in 1 .. c, NEW j \in 1 .. c, i < j
        PROVE  InOrder(r[i], r[j])
    <2>1. i \in 1 .. c - 1
      BY <1>6
    <2>2. CASE j = c
      BY <1>2, <1>3, <2>1, <2>2
    <2>3. CASE j # c
      <3>1. j \in 1 .. c - 1
        BY <1>1, <2>3
      <3>2. InOrder(q[i], q[j])
        BY <1>6, <2>1, <3>1 DEF Sorts
      <3> QED
        BY <1>3, <2>1, <3>1, <3>2
    <2> QED
      BY <2>2, <2>3
  <1>7. Sorts(r, C, c)
    BY <1>4, <1>5, <1>6 DEF Sorts
  <1> QED
    BY <1>7

LEMMA NodesAreSorted ==
    ASSUME NEW A, NEW text \in Seq(A), NEW nodes, IsTree(text, nodes), NEW C \in SUBSET nodes
    PROVE  Cardinality(C) \in Nat /\ \E q : Sorts(q, C, Cardinality(C))
  <1> DEFINE c == Cardinality(C)
             S == {i \in 0 .. c : \A B \in SUBSET nodes : Cardinality(B) = i => \E q : Sorts(q, B, i)}
  <1>1. \A B \in SUBSET nodes : IsFiniteSet(B)
    BY FS_Subset DEF IsTree
  <1>2. c \in Nat
    BY <1>1, FS_CardinalityType
  <1> HIDE DEF c
  <1>3. 0 \in S
    <2>1. ASSUME NEW B \in SUBSET nodes, Cardinality(B) = 0
          PROVE  Sorts([i \in 1 .. 0 |-> i], B, 0)
      <3>1. B = {}
        BY <1>1, <2>1, FS_EmptySet
      <3>2. 1 .. 0 = {}
        OBVIOUS
      <3> QED
        BY <3>1, <3>2 DEF Sorts
    <2>2. 0 \in 0 .. c
      BY <1>2
    <2> QED
      BY <2>1, <2>2
  <1>4. ASSUME NEW i \in 1 .. c, i - 1 \in S
        PROVE  i \in S
    <2>1. ASSUME NEW B \in SUBSET nodes, Cardinality(B) = i
          PROVE  \E q : Sorts(q, B, i)
      <3>1. IsFiniteSet(B) /\ i \in Nat \ {0}
        BY <1>1, <1>2
      <3>2. B # {}
        BY <2>1, <3>1, FS_EmptySet
      <3>3. PICK x : IsLast(x, B)
        BY <3>2, OneIsLast
      <3>4. x \in B
        BY <3>3 DEF IsLast
      <3>5. Cardinality(B \ {x}) = i - 1
        BY <2>1, <3>1, <3>4, FS_RemoveElement
      <3>6. PICK q : Sorts(q, B \ {x}, i - 1)
        BY <1>4, <3>5
      <3> QED
        BY <3>1, <3>3, <3>4, <3>6, SortedWithLast
    <2>2. i \in 0 .. c
      BY <1>2
    <2> QED
      BY <2>1, <2>2
  <1>5. c \in S
    <2> HIDE DEF S
    <2>1. 0 .. c \subseteq S
      BY <1>2, <1>3, <1>4, Induction
    <2> QED
      BY <1>2, <2>1
  <1> QED
    BY <1>2, <1>5 DEF c

\* The units in order.
InSequence(q, C) ==
    /\ q \in Seq(C)
    /\ \A y \in C : \E j \in 1 .. Len(q) : q[j] = y
    /\ \A i, j \in 1 .. Len(q) : i < j => InOrder(q[i], q[j])

LEMMA UnitsAreSorted ==
    ASSUME NEW A, NEW text \in Seq(A), NEW nodes, IsTree(text, nodes)
    PROVE  InSequence(UnitsInOrder(nodes), Units(nodes))
  <1>1. PICK C : C = Units(nodes)
    OBVIOUS
  <1>2. C \in SUBSET nodes
    BY <1>1 DEF Units
  <1>3. PICK c \in Nat : c = Cardinality(C)
    BY <1>2, NodesAreSorted
  <1>4. PICK p : Sorts(p, C, c)
    BY <1>2, <1>3, NodesAreSorted
  <1> DEFINE Fits(q) == ToSet(q) = C /\ \A i, j \in DOMAIN q : i < j => InOrder(q[i], q[j])
  <1>5. p \in [1 .. c -> C] /\ Fits(p)
    BY <1>4 DEF Sorts, ToSet
  <1>6. PICK q : q = UnitsInOrder(nodes)
    OBVIOUS
  <1>7. q = CHOOSE r \in [1 .. c -> C] : Fits(r)
    BY <1>1, <1>3, <1>6 DEF UnitsInOrder
  <1>8. q \in [1 .. c -> C] /\ Fits(q)
    <2> HIDE DEF Fits
    <2> QED
      BY <1>5, <1>7
  <1>9. q \in Seq(C) /\ Len(q) = c /\ DOMAIN q = 1 .. c
    BY <1>3, <1>8
  <1>10. InSequence(q, C)
    BY <1>8, <1>9 DEF InSequence, ToSet
  <1> QED
    BY <1>1, <1>6, <1>10

------------------------------------------------------------------------------
(* The text between the units.                                              *)

UnitSpan(u) == Span(u.from, u.to)

InUnit(units, p) == \E u \in units : p \in Positions(u)

\* A stretch of the text from one unit, or the beginning, to the next one, or the
\* end, in which there is no unit.
IsGap(text, units, g) ==
    /\ SpanOf(text, g) /\ g.from < g.to
    /\ g.from = 1 \/ InUnit(units, g.from - 1)
    /\ g.to = Len(text) + 1 \/ InUnit(units, g.to)
    /\ \A p \in Positions(g) : ~ InUnit(units, p)

\* The gaps leave out nothing that is before p but in a unit.
Reaches(units, gaps, p) ==
    \A i \in 1 .. p - 1 : InUnit(units, i) \/ \E k \in 1 .. Len(gaps) : i \in Positions(gaps[k])

\* What has been collected after i of the units.
Passing(text, units, q, acc, i) ==
    /\ acc.gaps \in Seq(Spans)
    /\ acc.start \in 1 .. Len(text) + 1
    /\ acc.start = 1 \/ InUnit(units, acc.start - 1)
    /\ \A j \in 1 .. i : q[j].to <= acc.start
    /\ \A k \in 1 .. Len(acc.gaps) : IsGap(text, units, acc.gaps[k])
    /\ Reaches(units, acc.gaps, acc.start)

LEMMA OneMoreGap ==
    ASSUME NEW text, NEW units, NEW gaps \in Seq(Spans),
           \A k \in 1 .. Len(gaps) : IsGap(text, units, gaps[k]),
           NEW s \in Nat, Reaches(units, gaps, s), NEW t \in Nat, IsGap(text, units, Span(s, t))
    PROVE  /\ Append(gaps, Span(s, t)) \in Seq(Spans)
           /\ \A k \in 1 .. Len(Append(gaps, Span(s, t))) :
                 IsGap(text, units, Append(gaps, Span(s, t))[k])
           /\ Reaches(units, Append(gaps, Span(s, t)), t)
  <1>1. PICK g : g = Span(s, t)
    OBVIOUS
  <1>2. PICK r : r = Append(gaps, g)
    OBVIOUS
  <1>3. g \in Spans /\ Positions(g) = s .. t - 1
    BY <1>1 DEF Span, Spans, Positions
  <1>4. /\ r \in Seq(Spans) /\ Len(gaps) \in Nat /\ Len(r) = Len(gaps) + 1
        /\ r[Len(gaps) + 1] = g /\ \A k \in 1 .. Len(gaps) : r[k] = gaps[k]
    BY <1>2, <1>3
  <1>5. \A k \in 1 .. Len(r) : k \in 1 .. Len(gaps) \/ k = Len(gaps) + 1
    BY <1>4
  <1>6. \A k \in 1 .. Len(r) : IsGap(text, units, r[k])
    BY <1>1, <1>4, <1>5
  <1>7. ASSUME NEW i \in 1 .. t - 1
        PROVE  InUnit(units, i) \/ \E k \in 1 .. Len(r) : i \in Positions(r[k])
    <2>1. CASE i < s
      <3>1. i \in 1 .. s - 1
        BY <2>1
      <3>2. InUnit(units, i) \/ \E k \in 1 .. Len(gaps) : i \in Positions(gaps[k])
        BY <3>1 DEF Reaches
      <3>3. \A k \in 1 .. Len(gaps) : k \in 1 .. Len(r) /\ r[k] = gaps[k]
        BY <1>4
      <3> QED
        BY <3>2, <3>3
    <2>2. CASE s <= i
      <3>1. i \in Positions(g)
        BY <1>3, <2>2
      <3>2. Len(gaps) + 1 \in 1 .. Len(r)
        BY <1>4
      <3> QED
        BY <1>4, <3>1, <3>2
    <2> QED
      BY <2>1, <2>2
  <1> QED
    BY <1>1, <1>2, <1>4, <1>6, <1>7 DEF Reaches

\* The next unit begins behind none that is still to come, and ends in the text.
LEMMA PassingOn ==
    ASSUME NEW A, NEW text \in Seq(A), NEW nodes, IsTree(text, nodes),
           NEW units \in SUBSET nodes, NEW q, InSequence(q, units),
           NEW i \in 1 .. Len(q), NEW acc, Passing(text, units, q, acc, i - 1)
    PROVE  Passing(text, units, q, AddGap(acc, q[i]), i)
  <1>1. PICK u \in units : u = q[i]
    BY DEF InSequence
  <1>2. PICK a \in Nat, b \in Nat : a = u.from /\ b = u.to
    BY DEF IsTree, SyntaxNodes
  <1>3. 1 <= a /\ a < b /\ b <= Len(text) + 1 /\ Len(text) \in Nat
    BY <1>1, <1>2 DEF IsTree, SyntaxNodes
  <1>4. PICK s \in Nat : s = acc.start
    BY DEF Passing
  <1>5. /\ 1 <= s /\ s <= Len(text) + 1 /\ (s = 1 \/ InUnit(units, s - 1))
        /\ \A j \in 1 .. i - 1 : q[j].to <= s
    BY <1>4 DEF Passing
  <1>6. PICK gaps \in Seq(Spans) : gaps = acc.gaps
    BY DEF Passing
  <1>7. (\A k \in 1 .. Len(gaps) : IsGap(text, units, gaps[k])) /\ Reaches(units, gaps, s)
    BY <1>4, <1>6 DEF Passing
  <1>8. Positions(u) = a .. b - 1
    BY <1>2 DEF Positions
  <1>9. InUnit(units, b - 1) /\ InUnit(units, a) /\ \A p \in a .. b - 1 : InUnit(units, p)
    BY <1>2, <1>3, <1>8 DEF InUnit
  <1>10. Len(q) \in Nat
    BY DEF InSequence
  <1>11. PICK new : new = AddGap(acc, u)
    OBVIOUS
  <1>12. new.start = Later(s, b)
    BY <1>2, <1>4, <1>11 DEF AddGap
  <1>13. PICK t \in Nat : t = new.start
    BY <1>12 DEF Later
  <1>14. /\ s <= t /\ b <= t /\ t \in 1 .. Len(text) + 1 /\ (t = s \/ t = b)
    BY <1>3, <1>4, <1>5, <1>12, <1>13 DEF Later
  <1>15. \A j \in 1 .. i : q[j].to <= t
    <2> SUFFICES ASSUME NEW j \in 1 .. i
                 PROVE  q[j].to <= t
      OBVIOUS
    <2>1. CASE j = i
      BY <1>1, <1>2, <1>14, <2>1
    <2>2. CASE j # i
      <3>1. j \in 1 .. i - 1 /\ j \in 1 .. Len(q)
        BY <1>10, <2>2
      <3>2. q[j] \in nodes
        BY <3>1 DEF InSequence
      <3>3. PICK d \in Nat : d = q[j].to
        BY <3>2 DEF IsTree, SyntaxNodes
      <3>4. d <= s
        BY <1>5, <3>1, <3>3
      <3> QED
        BY <1>14, <3>3, <3>4
    <2> QED
      BY <2>1, <2>2
  <1>16. t = 1 \/ InUnit(units, t - 1)
    BY <1>5, <1>9, <1>14
  <1>17. CASE a > s
    <2>1. IsGap(text, units, Span(s, a))
      <3>1. PICK g : g = Span(s, a)
        OBVIOUS
      <3>2. g.from = s /\ g.to = a /\ g \in Spans
        BY <3>1 DEF Span, Spans
      <3>3. SpanOf(text, g) /\ g.from < g.to
        BY <1>3, <1>5, <1>17, <3>2 DEF SpanOf
      <3>4. ASSUME NEW p \in Positions(g), NEW v \in units, p \in Positions(v)
            PROVE  FALSE
        <4>1. PICK j \in 1 .. Len(q) : q[j] = v
          BY DEF InSequence
        <4>2. PICK c \in Nat, d \in Nat : c = v.from /\ d = v.to
          BY DEF IsTree, SyntaxNodes
        <4>3. p \in s .. a - 1 /\ p \in c .. d - 1
          BY <3>2, <3>4, <4>2 DEF Positions
        <4>4. CASE j < i
          <5>1. j \in 1 .. i - 1
            BY <4>4
          <5>2. d <= s
            BY <1>5, <4>1, <4>2, <5>1
          <5> QED
            BY <4>3, <5>2
        <4>5. CASE j = i
          BY <1>1, <1>2, <4>1, <4>2, <4>3, <4>5
        <4>6. CASE i < j
          <5>1. InOrder(u, v)
            BY <1>1, <4>1, <4>6 DEF InSequence
          <5>2. a <= c
            BY <1>2, <4>2, <5>1 DEF InOrder
          <5> QED
            BY <4>3, <5>2
        <4> QED
          BY <1>10, <4>4, <4>5, <4>6
      <3>5. \A p \in Positions(g) : ~ InUnit(units, p)
        BY <3>4 DEF InUnit
      <3> QED
        BY <1>5, <1>9, <3>1, <3>2, <3>3, <3>5 DEF IsGap
    <2>2. PICK r : r = Append(gaps, Span(s, a))
      OBVIOUS
    <2>3. r \in Seq(Spans) /\ (\A k \in 1 .. Len(r) : IsGap(text, units, r[k])) /\ Reaches(units, r, a)
      BY <1>7, <2>1, <2>2, OneMoreGap
    <2>4. new.gaps = r
      BY <1>2, <1>4, <1>6, <1>11, <1>17, <2>2 DEF AddGap
    <2>5. t = b
      BY <1>3, <1>14, <1>17
    <2>6. Reaches(units, r, t)
      <3> SUFFICES ASSUME NEW p \in 1 .. t - 1
                   PROVE  InUnit(units, p) \/ \E k \in 1 .. Len(r) : p \in Positions(r[k])
        BY DEF Reaches
      <3>1. p \in 1 .. a - 1 \/ p \in a .. b - 1
        BY <1>3, <2>5
      <3> QED
        BY <1>9, <2>3, <3>1 DEF Reaches
    <2>7. Passing(text, units, q, new, i)
      BY <1>13, <1>14, <1>15, <1>16, <2>3, <2>4, <2>6 DEF Passing
    <2> QED
      BY <1>1, <1>11, <2>7
  <1>18. CASE ~ (a > s)
    <2>1. new.gaps = gaps
      BY <1>2, <1>4, <1>6, <1>11, <1>18 DEF AddGap
    <2>2. Reaches(units, gaps, t)
      <3> SUFFICES ASSUME NEW p \in 1 .. t - 1
                   PROVE  InUnit(units, p) \/ \E k \in 1 .. Len(gaps) : p \in Positions(gaps[k])
        BY DEF Reaches
      <3>1. p \in 1 .. s - 1 \/ p \in a .. b - 1
        BY <1>3, <1>14, <1>18
      <3> QED
        BY <1>7, <1>9, <3>1 DEF Reaches
    <2>3. Passing(text, units, q, new, i)
      BY <1>7, <1>13, <1>14, <1>15, <1>16, <2>1, <2>2 DEF Passing
    <2> QED
      BY <1>1, <1>11, <2>3
  <1> QED
    BY <1>17, <1>18

\* One unit after the other, given what has been collected so far.
PassOn(q, passed, i) ==
    IF i = 0 THEN [gaps |-> <<>>, start |-> 1] ELSE AddGap(passed[i - 1], q[i])

LEMMA PassingExists ==
    ASSUME NEW units, units \subseteq SyntaxNodes, NEW q \in Seq(units)
    PROVE  \E passed : passed = [i \in 0 .. Len(q) |-> PassOn(q, passed, i)]
  <1> DEFINE n == Len(q)
             states == [gaps : Seq(Spans), start : Nat]
             start == [gaps |-> <<>>, start |-> 1]
             step == [p \in (1 .. n) \X states |-> AddGap(p[2], q[p[1]])]
  <1>1. n \in Nat /\ \A i \in 1 .. n : q[i].from \in Nat /\ q[i].to \in Nat
    BY DEF SyntaxNodes
  <1>2. start \in states
    OBVIOUS
  <1> HIDE DEF n
  <1>3. ASSUME NEW i \in 1 .. n, NEW acc \in states
        PROVE  AddGap(acc, q[i]) \in states
    <2>1. PICK a, b \in Nat : a = q[i].from /\ b = q[i].to
      BY <1>1
    <2>2. PICK gaps \in Seq(Spans), s \in Nat : gaps = acc.gaps /\ s = acc.start
      OBVIOUS
    <2>3. Span(s, a) \in Spans
      BY DEF Span, Spans
    <2>4. Append(gaps, Span(s, a)) \in Seq(Spans)
      BY <2>3
    <2>5. Later(s, b) \in Nat
      BY DEF Later
    <2> QED
      BY <2>1, <2>2, <2>4, <2>5 DEF AddGap
  <1> HIDE DEF states, start
  <1>4. step \in [(1 .. n) \X states -> states]
    BY <1>3
  <1>5. \A i \in 1 .. n, acc \in states : step[<<i, acc>>] = AddGap(acc, q[i])
    OBVIOUS
  <1> HIDE DEF step
  <1>6. PICK f \in [0 .. n -> states] : Follows(n, start, step, f)
    BY <1>1, <1>2, <1>4, Iteration
  <1>7. \A i \in 0 .. n : f[i] = PassOn(q, f, i)
    <2>1. f[0] = PassOn(q, f, 0)
      BY <1>6 DEF Follows, PassOn, start
    <2>2. ASSUME NEW i \in 1 .. n
          PROVE  f[i] = PassOn(q, f, i)
      <3>1. i - 1 \in 0 .. n /\ i # 0
        BY <1>1
      <3>2. f[i - 1] \in states
        BY <1>6, <3>1
      <3>3. f[i] = step[<<i, f[i - 1]>>]
        BY <1>6 DEF Follows
      <3> QED
        BY <1>5, <3>1, <3>2, <3>3 DEF PassOn
    <2>3. \A i \in 0 .. n : i = 0 \/ i \in 1 .. n
      BY <1>1
    <2> QED
      BY <2>1, <2>2, <2>3
  <1>8. f = [i \in 0 .. n |-> PassOn(q, f, i)]
    BY <1>6, <1>7
  <1> QED
    BY <1>8 DEF n

\* What no unit covers is in a gap, and no gap in a unit.
AreGaps(text, units, gaps) ==
    /\ gaps \in Seq(Spans)
    /\ \A k \in 1 .. Len(gaps) : IsGap(text, units, gaps[k])
    /\ Reaches(units, gaps, Len(text) + 1)

LEMMA AllIsPassed ==
    ASSUME NEW A, NEW text \in Seq(A), NEW nodes, IsTree(text, nodes),
           NEW units \in SUBSET nodes, NEW q, InSequence(q, units),
           NEW passed, passed = [i \in 0 .. Len(q) |-> PassOn(q, passed, i)]
    PROVE  Passing(text, units, q, passed[Len(q)], Len(q))
  <1> DEFINE S == {i \in 0 .. Len(q) : Passing(text, units, q, passed[i], i)}
  <1>1. Len(q) \in Nat
    BY DEF InSequence
  <1>2. 0 \in S
    <2>1. 0 \in 0 .. Len(q)
      BY <1>1
    <2>2. passed[0] = [gaps |-> <<>>, start |-> 1]
      BY <2>1 DEF PassOn
    <2>3. passed[0].gaps = <<>> /\ passed[0].start = 1
      BY <2>2
    <2>4. <<>> \in Seq(Spans) /\ Len(<<>>) = 0 /\ 1 .. 0 = {} /\ 1 .. 1 - 1 = {}
      OBVIOUS
    <2>5. 1 \in 1 .. Len(text) + 1
      OBVIOUS
    <2>6. Passing(text, units, q, passed[0], 0)
      BY <2>3, <2>4, <2>5 DEF Passing, Reaches
    <2> QED
      BY <2>1, <2>6
  <1>3. ASSUME NEW i \in 1 .. Len(q), i - 1 \in S
        PROVE  i \in S
    <2>1. i \in 0 .. Len(q) /\ i # 0
      BY <1>1
    <2>2. passed[i] = PassOn(q, passed, i)
      BY <2>1
    <2>3. passed[i] = AddGap(passed[i - 1], q[i])
      BY <2>1, <2>2 DEF PassOn
    <2>4. Passing(text, units, q, passed[i - 1], i - 1)
      BY <1>3
    <2>5. Passing(text, units, q, AddGap(passed[i - 1], q[i]), i)
      BY <2>4, PassingOn
    <2> QED
      BY <2>1, <2>3, <2>5
  <1>4. Len(q) \in S
    <2> HIDE DEF S
    <2>1. 0 .. Len(q) \subseteq S
      BY <1>1, <1>2, <1>3, Induction
    <2> QED
      BY <1>1, <2>1
  <1> QED
    BY <1>4

LEMMA GapsAreBetween ==
    ASSUME NEW A, NEW text \in Seq(A), NEW nodes, IsTree(text, nodes)
    PROVE  AreGaps(text, Units(nodes), Gaps(text, nodes))
  <1> DEFINE q == UnitsInOrder(nodes)
             units == Units(nodes)
             passed == CHOOSE f : f = [i \in 0 .. Len(q) |-> PassOn(q, f, i)]
             acc == passed[Len(q)]
             n == Len(text)
  <1>1. InSequence(q, units)
    BY UnitsAreSorted
  <1>2. units \in SUBSET nodes
    BY DEF Units
  <1>3. Gaps(text, nodes) = IF acc.start <= n THEN Append(acc.gaps, Span(acc.start, n + 1))
                            ELSE acc.gaps
    BY DEF Gaps, PassOn
  <1> HIDE DEF q, units
  <1>4. passed = [i \in 0 .. Len(q) |-> PassOn(q, passed, i)]
    <2>1. q \in Seq(units) /\ units \subseteq SyntaxNodes
      BY <1>1, <1>2 DEF InSequence, IsTree
    <2>2. \E f : f = [i \in 0 .. Len(q) |-> PassOn(q, f, i)]
      BY <2>1, PassingExists
    <2> QED
      BY <2>2
  <1> HIDE DEF passed
  <1>5. Passing(text, units, q, acc, Len(q))
    BY <1>1, <1>2, <1>4, AllIsPassed
  <1>6. n \in Nat
    OBVIOUS
  <1> HIDE DEF acc
  <1>7. PICK s \in Nat : s = acc.start
    BY <1>5 DEF Passing
  <1>8. 1 <= s /\ s <= n + 1 /\ (s = 1 \/ InUnit(units, s - 1))
    BY <1>5, <1>7 DEF Passing
  <1>9. PICK gaps \in Seq(Spans) : gaps = acc.gaps
    BY <1>5 DEF Passing
  <1>10. /\ \A k \in 1 .. Len(gaps) : IsGap(text, units, gaps[k])
         /\ Reaches(units, gaps, s)
    BY <1>5, <1>7, <1>9 DEF Passing
  <1>11. CASE s <= n
    <2>1. IsGap(text, units, Span(s, n + 1))
      <3>1. PICK g : g = Span(s, n + 1)
        OBVIOUS
      <3>2. g.from = s /\ g.to = n + 1 /\ g \in Spans
        BY <1>6, <3>1 DEF Span, Spans
      <3>3. SpanOf(text, g) /\ g.from < g.to
        BY <1>6, <1>8, <1>11, <3>2 DEF SpanOf
      <3>4. ASSUME NEW p \in Positions(g), NEW v \in units, p \in Positions(v)
            PROVE  FALSE
        <4>1. PICK j \in 1 .. Len(q) : q[j] = v
          BY <1>1 DEF InSequence
        <4>2. v.from \in Nat /\ v.to \in Nat
          BY <1>2 DEF IsTree, SyntaxNodes
        <4>3. v.to <= s
          BY <1>5, <1>7, <4>1 DEF Passing
        <4> QED
          BY <1>6, <3>2, <3>4, <4>2, <4>3 DEF Positions
      <3>5. \A p \in Positions(g) : ~ InUnit(units, p)
        BY <3>4 DEF InUnit
      <3> QED
        BY <1>8, <3>1, <3>2, <3>3, <3>5 DEF IsGap
    <2>2. PICK r : r = Append(gaps, Span(s, n + 1))
      OBVIOUS
    <2>3. n + 1 \in Nat
      BY <1>6
    <2>4. /\ r \in Seq(Spans) /\ \A k \in 1 .. Len(r) : IsGap(text, units, r[k])
          /\ Reaches(units, r, n + 1)
      BY <1>10, <2>1, <2>2, <2>3, OneMoreGap
    <2>5. Gaps(text, nodes) = r
      BY <1>3, <1>7, <1>9, <1>11, <2>2
    <2> QED
      BY <2>4, <2>5 DEF AreGaps, units
  <1>12. CASE ~ (s <= n)
    <2>1. s = n + 1
      BY <1>6, <1>8, <1>12
    <2>2. Gaps(text, nodes) = gaps
      BY <1>3, <1>7, <1>9, <1>12
    <2> QED
      BY <1>10, <2>1, <2>2 DEF AreGaps, units
  <1> QED
    BY <1>11, <1>12

------------------------------------------------------------------------------
(* The place of a unit.                                                     *)

\* The container next to a unit is a unit itself and comes before it.
LEMMA ParentIsBefore ==
    ASSUME NEW A, NEW text \in Seq(A), NEW nodes, IsTree(text, nodes),
           NEW u \in Units(nodes), Containers(nodes, u) # {}
    PROVE  /\ ParentOf(nodes, u) \in Containers(nodes, u)
           /\ ParentOf(nodes, u) \in Units(nodes)
           /\ InOrder(ParentOf(nodes, u), u)
  <1> DEFINE C == Containers(nodes, u)
  <1>1. C \in SUBSET nodes /\ u \in nodes
    BY DEF Containers, Units
  <1>2. \A m \in C : m.kind = "container" /\ Encloses(m, u)
    BY DEF Containers
  <1>3. \A n \in nodes : n.from \in Nat /\ n.to \in Nat /\ n.from < n.to
    BY DEF IsTree, SyntaxNodes
  <1>4. \A m, n \in nodes : m # n =>
           /\ Apart(m, n) \/ Encloses(m, n) \/ Encloses(n, m)
           /\ m.from # n.from \/ m.to # n.to
    BY DEF IsTree, IsSyntax
  <1> HIDE DEF C
  <1>5. PICK x : IsLast(x, C)
    BY <1>1, OneIsLast DEF C
  <1>6. x \in C /\ \A k \in C : x = k \/ Encloses(k, x)
    <2>1. x \in C
      BY <1>5 DEF IsLast
    <2>2. ASSUME NEW k \in C, x # k
          PROVE  Encloses(k, x)
      <3>1. InOrder(k, x)
        BY <1>5, <2>2 DEF IsLast
      <3>2. k \in nodes /\ x \in nodes
        BY <1>1, <2>1
      <3>3. Encloses(k, u) /\ Encloses(x, u)
        BY <1>2, <2>1
      <3>4. Apart(k, x) \/ Encloses(k, x) \/ Encloses(x, k)
        BY <1>4, <2>2, <3>2
      <3>5. ~ Apart(k, x)
        BY <1>1, <1>3, <3>2, <3>3 DEF Apart, Encloses
      <3>6. ~ Encloses(x, k)
        BY <1>3, <3>1, <3>2 DEF InOrder, Encloses
      <3> QED
        BY <3>4, <3>5, <3>6
    <2> QED
      BY <2>1, <2>2
  <1>7. PICK m : m = ParentOf(nodes, u)
    OBVIOUS
  <1>8. m \in C /\ \A k \in C : m = k \/ Encloses(k, m)
    BY <1>6, <1>7 DEF ParentOf, C
  <1>9. m \in nodes /\ m.kind = "container" /\ Encloses(m, u)
    BY <1>1, <1>2, <1>8
  <1>10. InOrder(m, u)
    <2>1. m # u /\ m.from <= u.from /\ u.to <= m.to
      BY <1>9 DEF Encloses
    <2>2. m.from # u.from \/ m.to # u.to
      BY <1>1, <1>4, <1>9, <2>1
    <2>3. m.from \in Nat /\ m.to \in Nat /\ u.from \in Nat /\ u.to \in Nat
      BY <1>1, <1>3, <1>9
    <2> QED
      BY <2>1, <2>2, <2>3 DEF InOrder
  <1>11. m \in Units(nodes)
    <2>1. Classified(nodes, m)
      BY <1>9 DEF Classified
    <2>2. ASSUME NEW k \in nodes, Encloses(k, m), Classified(nodes, k)
          PROVE  k.kind = "container"
      <3>1. /\ k.from \in Nat /\ k.to \in Nat /\ m.from \in Nat /\ m.to \in Nat
            /\ u.from \in Nat /\ u.to \in Nat
        BY <1>1, <1>3, <1>9
      <3>2. k.from <= u.from /\ u.to <= k.to
        BY <1>9, <2>2, <3>1 DEF Encloses
      <3>3. k # u
        <4> SUFFICES ASSUME k = u
                     PROVE  FALSE
          OBVIOUS
        <4>1. m.from = u.from /\ m.to = u.to
          BY <1>9, <2>2, <3>1 DEF Encloses
        <4> QED
          BY <1>1, <1>4, <1>9, <4>1 DEF Encloses
      <3>4. Encloses(k, u)
        BY <3>2, <3>3 DEF Encloses
      <3> QED
        BY <2>2, <3>4 DEF Units
    <2> QED
      BY <1>9, <2>1, <2>2 DEF Units
  <1> QED
    BY <1>7, <1>8, <1>10, <1>11 DEF C

\* The lines of a piece are those on which it begins and ends.
LEMMA LinesOfPiece ==
    ASSUME NEW A, NEW text \in Seq(A), NEW p, SpanOf(text, p)
    PROVE  /\ LineAt(text, p.from) \in Nat /\ LineAt(text, p.to) \in Nat
           /\ LinesFrom(text, LineAt(text, p.from), p) = <<LineAt(text, p.from), LineAt(text, p.to)>>
  <1> DEFINE Breaks(s) == {i \in Positions(s) : text[i] = "newline"}
             X == Breaks(Span(1, p.from))
             Y == Breaks(p)
             Z == Breaks(Span(1, p.to))
  <1>1. PICK a \in Nat, b \in Nat : a = p.from /\ b = p.to
    BY DEF SpanOf, Spans
  <1>2. 1 <= a /\ a <= b
    BY <1>1 DEF SpanOf
  <1>3. /\ Positions(p) = a .. b - 1 /\ Positions(Span(1, a)) = 1 .. a - 1
        /\ Positions(Span(1, b)) = 1 .. b - 1
    BY <1>1 DEF Positions, Span
  <1>4. X \cup Y = Z /\ X \cap Y = {} /\ X \subseteq 1 .. a - 1 /\ Y \subseteq a .. b - 1
    BY <1>1, <1>2, <1>3
  <1>5. /\ LineAt(text, a) = Cardinality(X) + 1 /\ LineAt(text, b) = Cardinality(Z) + 1
        /\ NewlinesIn(text, p) = Cardinality(Y)
    BY <1>1 DEF LineAt, NewlinesIn
  <1> HIDE DEF X, Y, Z
  <1>6. IsFiniteSet(1 .. a - 1) /\ IsFiniteSet(a .. b - 1)
    BY FS_Interval
  <1>7. IsFiniteSet(X) /\ IsFiniteSet(Y)
    BY <1>4, <1>6, FS_Subset
  <1>8. IsFiniteSet(Z) /\ Cardinality(Z) = Cardinality(X) + Cardinality(Y) - Cardinality({})
    BY <1>4, <1>7, FS_Union
  <1>9. Cardinality({}) = 0
    BY FS_EmptySet
  <1>10. Cardinality(X) \in Nat /\ Cardinality(Y) \in Nat /\ Cardinality(Z) \in Nat
    BY <1>7, <1>8, FS_CardinalityType
  <1>11. LineAt(text, a) \in Nat /\ LineAt(text, b) \in Nat
    BY <1>5, <1>10
  <1>12. LineAt(text, a) + NewlinesIn(text, p) = LineAt(text, b)
    BY <1>5, <1>8, <1>9, <1>10
  <1> QED
    BY <1>1, <1>11, <1>12 DEF LinesFrom

LEMMA Joined ==
    ASSUME NEW A, NEW s \in Seq(A), NEW t \in Seq(A)
    PROVE  /\ s \o t \in Seq(A)
           /\ Len(s) \in Nat /\ Len(t) \in Nat /\ Len(s \o t) = Len(s) + Len(t)
           /\ \A k \in 1 .. Len(s) : (s \o t)[k] = s[k]
           /\ \A k \in 1 .. Len(t) : (s \o t)[Len(s) + k] = t[k]
  <1>1. \A k \in 1 .. Len(t) : (s \o t)[Len(s) + k] = t[k]
    <2> SUFFICES ASSUME NEW k \in 1 .. Len(t)
                 PROVE  (s \o t)[Len(s) + k] = t[k]
      OBVIOUS
    <2>1. Len(s) + k \in 1 .. Len(s) + Len(t) /\ ~ (Len(s) + k <= Len(s)) /\ Len(s) + k - Len(s) = k
      OBVIOUS
    <2> QED
      BY <2>1
  <1> QED
    BY <1>1

------------------------------------------------------------------------------
(* The chunks of the units.                                                 *)

CutChunks == [text : Spans, level : Nat, parent : Nat, lines : Nat \X Nat]

\* c is the unit u, or a piece of it.
FromUnit(text, c, u) == c.text \in ToSet(Pieces(text, UnitSpan(u)))

\* The chunk refers to one of the same unit or to one of the unit around it.
RefersBack(text, nodes, chunks, k, u) ==
    IF chunks[k].parent = 0 THEN Containers(nodes, u) = {}
    ELSE /\ chunks[k].parent \in 1 .. k - 1
         /\ \E m \in Units(nodes) :
               /\ FromUnit(text, chunks[chunks[k].parent], m)
               /\ m = u \/ (m \in Containers(nodes, u) /\ m = ParentOf(nodes, u))

\* The k-th chunk has been cut from the unit u.
IsPlaced(text, nodes, chunks, k, u) ==
    /\ FromUnit(text, chunks[k], u)
    /\ chunks[k].level = Level(nodes, u)
    /\ chunks[k].lines = <<LineAt(text, chunks[k].text.from), LineAt(text, chunks[k].text.to)>>
    /\ RefersBack(text, nodes, chunks, k, u)

\* What i of the units have become.
Placing(text, nodes, q, acc, i) ==
    /\ acc.chunks \in Seq(CutChunks)
    /\ acc.at \in [nodes -> Nat]
    /\ \A j \in 1 .. i : /\ acc.at[q[j]] \in 1 .. Len(acc.chunks)
                         /\ FromUnit(text, acc.chunks[acc.at[q[j]]], q[j])
    /\ \A k \in 1 .. Len(acc.chunks) :
          \E u \in Units(nodes) : IsPlaced(text, nodes, acc.chunks, k, u)
    /\ \A j \in 1 .. i : \A p \in ToSet(Pieces(text, UnitSpan(q[j]))) :
          \E k \in 1 .. Len(acc.chunks) : acc.chunks[k].text = p

LEMMA UnitsAreSpans ==
    ASSUME NEW A, NEW text \in Seq(A), NEW nodes, IsTree(text, nodes), NEW u \in nodes
    PROVE  /\ SpanOf(text, UnitSpan(u))
           /\ UnitSpan(u).from < UnitSpan(u).to
           /\ UnitSpan(u).from = u.from /\ UnitSpan(u).to = u.to
  <1>1. u.from \in Nat \ {0} /\ u.to \in Nat /\ u.from < u.to /\ u.to <= Len(text) + 1
    BY DEF IsTree, SyntaxNodes
  <1>2. PICK s : s = UnitSpan(u)
    OBVIOUS
  <1>3. s.from = u.from /\ s.to = u.to /\ s \in Spans
    BY <1>1, <1>2 DEF UnitSpan, Span, Spans
  <1> QED
    BY <1>1, <1>2, <1>3 DEF SpanOf

\* The pieces of a unit, each with its place: the first refers to the parent, the
\* other ones to the first.
PlacedPieces(text, nodes, u, w, parent, first) ==
    [i \in DOMAIN w |->
        [text |-> w[i], level |-> Level(nodes, u),
         parent |-> IF i = 1 THEN parent ELSE first,
         lines |-> LinesFrom(text, LineAt(text, w[i].from), w[i])]]

LEMMA PiecesArePlaced ==
    ASSUME NEW A, NEW text \in Seq(A), NEW nodes, IsTree(text, nodes), NEW u \in nodes,
           NEW w, w = Pieces(text, UnitSpan(u)), NEW parent \in Nat, NEW first \in Nat
    PROVE  /\ w \in Seq(Spans) /\ Len(w) \in Nat /\ Len(w) > 0
           /\ PlacedPieces(text, nodes, u, w, parent, first) \in Seq(CutChunks)
           /\ Len(PlacedPieces(text, nodes, u, w, parent, first)) = Len(w)
           /\ \A i \in 1 .. Len(w) :
                 LET c == PlacedPieces(text, nodes, u, w, parent, first)[i]
                 IN  /\ c.text = w[i] /\ FromUnit(text, c, u)
                     /\ c.level = Level(nodes, u)
                     /\ c.parent = IF i = 1 THEN parent ELSE first
                     /\ c.lines = <<LineAt(text, c.text.from), LineAt(text, c.text.to)>>
  <1>1. SpanOf(text, UnitSpan(u))
    BY UnitsAreSpans
  <1>2. ArePieces(text, UnitSpan(u), MaxTokens, w) /\ Len(w) > 0
    BY <1>1, SpansAreCut
  <1>3. w \in Seq(Spans) /\ Len(w) \in Nat /\ DOMAIN w = 1 .. Len(w)
    BY <1>2 DEF ArePieces
  <1>4. ASSUME NEW i \in 1 .. Len(w)
        PROVE  SpanOf(text, w[i])
    <2>1. PICK s \in Spans : s = UnitSpan(u)
      BY <1>1 DEF SpanOf
    <2>2. PICK p \in Spans : p = w[i]
      BY <1>3
    <2>3. s.from <= p.from /\ p.from <= p.to /\ p.to <= s.to
      BY <1>2, <2>1, <2>2 DEF ArePieces, IsPiece
    <2>4. 1 <= s.from /\ s.to <= Len(text) + 1
      BY <1>1, <2>1 DEF SpanOf
    <2>5. /\ s.from \in Nat /\ s.to \in Nat /\ p.from \in Nat /\ p.to \in Nat
          /\ Len(text) \in Nat
      BY DEF Spans
    <2>6. 1 <= p.from /\ p.to <= Len(text) + 1
      BY <2>3, <2>4, <2>5
    <2> QED
      BY <2>2, <2>3, <2>6 DEF SpanOf
  <1>5. PICK r : r = PlacedPieces(text, nodes, u, w, parent, first)
    OBVIOUS
  <1>6. ASSUME NEW i \in 1 .. Len(w)
        PROVE  /\ r[i] \in CutChunks
               /\ r[i].text = w[i] /\ FromUnit(text, r[i], u)
               /\ r[i].level = Level(nodes, u)
               /\ r[i].parent = IF i = 1 THEN parent ELSE first
               /\ r[i].lines = <<LineAt(text, r[i].text.from), LineAt(text, r[i].text.to)>>
    <2>1. r[i] = [text |-> w[i], level |-> Level(nodes, u),
                  parent |-> IF i = 1 THEN parent ELSE first,
                  lines |-> LinesFrom(text, LineAt(text, w[i].from), w[i])]
      BY <1>3, <1>5 DEF PlacedPieces
    <2>2. /\ r[i].text = w[i] /\ r[i].level = Level(nodes, u)
          /\ r[i].parent = IF i = 1 THEN parent ELSE first
          /\ r[i].lines = LinesFrom(text, LineAt(text, w[i].from), w[i])
      BY <2>1
    <2>3. /\ LineAt(text, w[i].from) \in Nat /\ LineAt(text, w[i].to) \in Nat
          /\ LinesFrom(text, LineAt(text, w[i].from), w[i])
               = <<LineAt(text, w[i].from), LineAt(text, w[i].to)>>
      BY <1>4, LinesOfPiece
    <2>4. w[i] \in ToSet(w)
      BY <1>3 DEF ToSet
    <2>5. FromUnit(text, r[i], u)
      BY <2>2, <2>4 DEF FromUnit
    <2>6. w[i] \in Spans /\ Level(nodes, u) \in Nat
      BY <1>3 DEF Level
    <2>7. r[i] \in CutChunks
      BY <2>1, <2>3, <2>6 DEF CutChunks
    <2> QED
      BY <2>2, <2>3, <2>5, <2>7
  <1>7. r = [i \in 1 .. Len(w) |-> r[i]]
    BY <1>3, <1>5 DEF PlacedPieces
  <1>8. r \in Seq(CutChunks) /\ Len(r) = Len(w)
    <2>1. r \in [1 .. Len(w) -> CutChunks]
      BY <1>6, <1>7
    <2> QED
      BY <1>3, <2>1
  <1> QED
    BY <1>2, <1>3, <1>5, <1>6, <1>8

\* More chunks behind those that are placed leave these in their place.
LEMMA StaysPlaced ==
    ASSUME NEW text, NEW nodes, NEW chunks \in Seq(CutChunks), NEW more,
           \A k \in 1 .. Len(chunks) : more[k] = chunks[k],
           NEW k \in 1 .. Len(chunks), NEW u, IsPlaced(text, nodes, chunks, k, u)
    PROVE  IsPlaced(text, nodes, more, k, u)
  <1>1. more[k] = chunks[k]
    OBVIOUS
  <1>2. chunks[k].parent # 0 => more[chunks[k].parent] = chunks[chunks[k].parent]
    <2> SUFFICES ASSUME chunks[k].parent # 0
                 PROVE  more[chunks[k].parent] = chunks[chunks[k].parent]
      OBVIOUS
    <2>1. PICK p : p = chunks[k].parent
      OBVIOUS
    <2>2. p \in 1 .. k - 1
      BY <2>1 DEF IsPlaced, RefersBack
    <2>3. p \in 1 .. Len(chunks)
      BY <2>2
    <2> QED
      BY <2>1, <2>3
  <1>3. RefersBack(text, nodes, more, k, u)
    <2>1. RefersBack(text, nodes, chunks, k, u)
      BY DEF IsPlaced
    <2> QED
      BY <1>1, <1>2, <2>1 DEF RefersBack
  <1> QED
    BY <1>1, <1>3 DEF IsPlaced

LEMMA PlacingOn ==
    ASSUME NEW A, NEW text \in Seq(A), NEW nodes, IsTree(text, nodes),
           NEW q, InSequence(q, Units(nodes)),
           NEW i \in 1 .. Len(q), NEW acc, Placing(text, nodes, q, acc, i - 1)
    PROVE  Placing(text, nodes, q, AddUnit(text, nodes, acc, q[i]), i)
  <1> DEFINE C == Containers(nodes, q[i])
  <1>1. PICK u \in Units(nodes) : u = q[i]
    BY DEF InSequence
  <1>2. u \in nodes /\ Len(q) \in Nat
    BY DEF Units, InSequence
  <1>3. PICK chunks \in Seq(CutChunks), at \in [nodes -> Nat] : chunks = acc.chunks /\ at = acc.at
    BY DEF Placing
  <1>4. /\ \A j \in 1 .. i - 1 : /\ at[q[j]] \in 1 .. Len(chunks)
                                 /\ FromUnit(text, chunks[at[q[j]]], q[j])
        /\ \A k \in 1 .. Len(chunks) :
              \E v \in Units(nodes) : IsPlaced(text, nodes, chunks, k, v)
        /\ \A j \in 1 .. i - 1 : \A p \in ToSet(Pieces(text, UnitSpan(q[j]))) :
              \E k \in 1 .. Len(chunks) : chunks[k].text = p
    BY <1>3 DEF Placing
  <1>5. PICK first \in Nat : first = Len(chunks) + 1
    OBVIOUS
  <1>6. PICK parent : parent = IF Containers(nodes, u) = {} THEN 0 ELSE at[ParentOf(nodes, u)]
    OBVIOUS
  <1>7. IF parent = 0 THEN Containers(nodes, u) = {}
        ELSE /\ parent \in 1 .. Len(chunks)
             /\ FromUnit(text, chunks[parent], ParentOf(nodes, u))
             /\ ParentOf(nodes, u) \in Units(nodes) /\ ParentOf(nodes, u) \in Containers(nodes, u)
    <2>1. CASE Containers(nodes, u) = {}
      BY <1>6, <2>1
    <2>2. CASE Containers(nodes, u) # {}
      <3>1. PICK m : m = ParentOf(nodes, u)
        OBVIOUS
      <3>2. m \in Containers(nodes, u) /\ m \in Units(nodes) /\ InOrder(m, u)
        BY <2>2, <3>1, ParentIsBefore
      <3>3. PICK j \in 1 .. Len(q) : q[j] = m
        BY <3>2 DEF InSequence
      <3>4. /\ m.from \in Nat /\ m.to \in Nat /\ u.from \in Nat /\ u.to \in Nat
        BY <1>2, <3>2 DEF IsTree, SyntaxNodes, Units
      <3>5. ~ InOrder(u, m)
        BY <3>2, <3>4 DEF InOrder
      <3>6. m # u
        BY <3>2, <3>4 DEF InOrder
      <3>7. ~ (i < j) /\ i # j
        BY <1>1, <3>3, <3>5, <3>6 DEF InSequence
      <3>8. j \in 1 .. i - 1
        BY <1>2, <3>7
      <3>9. parent = at[m]
        BY <1>6, <2>2, <3>1
      <3>10. parent \in 1 .. Len(chunks) /\ FromUnit(text, chunks[parent], m)
        BY <1>4, <3>3, <3>8, <3>9
      <3>11. parent # 0
        BY <3>10
      <3> QED
        BY <3>1, <3>2, <3>10, <3>11
    <2> QED
      BY <2>1, <2>2
  <1>8. parent \in Nat
    BY <1>7
  <1>9. PICK w : w = Pieces(text, UnitSpan(u))
    OBVIOUS
  <1>10. PICK placed : placed = PlacedPieces(text, nodes, u, w, parent, first)
    OBVIOUS
  <1>11. /\ w \in Seq(Spans) /\ Len(w) \in Nat /\ Len(w) > 0
         /\ placed \in Seq(CutChunks) /\ Len(placed) = Len(w)
         /\ \A k \in 1 .. Len(w) :
               /\ placed[k].text = w[k] /\ FromUnit(text, placed[k], u)
               /\ placed[k].level = Level(nodes, u)
               /\ placed[k].parent = IF k = 1 THEN parent ELSE first
               /\ placed[k].lines
                    = <<LineAt(text, placed[k].text.from), LineAt(text, placed[k].text.to)>>
    BY <1>2, <1>5, <1>8, <1>9, <1>10, PiecesArePlaced
  <1>12. PICK all : all = chunks \o placed
    OBVIOUS
  <1>13. PICK n \in Nat : n = Len(chunks)
    OBVIOUS
  <1>14. /\ all \in Seq(CutChunks) /\ Len(all) = n + Len(w)
         /\ \A k \in 1 .. n : all[k] = chunks[k]
         /\ \A k \in 1 .. Len(w) : all[n + k] = placed[k]
    <2>1. placed \in Seq(CutChunks)
      BY <1>11
    <2>2. /\ all \in Seq(CutChunks) /\ Len(all) = Len(chunks) + Len(placed)
          /\ \A k \in 1 .. Len(chunks) : all[k] = chunks[k]
          /\ \A k \in 1 .. Len(placed) : all[Len(chunks) + k] = placed[k]
      BY <1>12, <2>1, Joined
    <2>3. Len(placed) = Len(w) /\ Len(chunks) = n
      BY <1>11, <1>13
    <2> QED
      BY <2>2, <2>3
  <1>15. first = n + 1 /\ all[first] = placed[1] /\ FromUnit(text, all[first], u) /\ first \in 1 .. Len(all)
    <2>1. first = n + 1
      BY <1>5, <1>13
    <2>2. 1 \in 1 .. Len(w)
      BY <1>11
    <2>3. all[n + 1] = placed[1]
      BY <1>14, <2>2
    <2>4. first \in 1 .. Len(all)
      BY <1>11, <1>14, <2>1
    <2> QED
      BY <1>11, <2>1, <2>2, <2>3, <2>4
  <1>16. PICK new : new = AddUnit(text, nodes, acc, u)
    OBVIOUS
  <1>17. new.chunks = all /\ new.at = [at EXCEPT ![u] = first]
    BY <1>3, <1>5, <1>6, <1>9, <1>10, <1>12, <1>16 DEF AddUnit, PlacedPieces, UnitSpan
  <1>18. new.at \in [nodes -> Nat]
    BY <1>17
  <1>19. ASSUME NEW j \in 1 .. i
         PROVE  /\ new.at[q[j]] \in 1 .. Len(all)
                /\ FromUnit(text, all[new.at[q[j]]], q[j])
    <2>1. CASE j = i
      <3>1. new.at[q[j]] = first
        BY <1>1, <1>2, <1>17, <2>1
      <3> QED
        BY <1>1, <1>15, <2>1, <3>1
    <2>2. CASE j # i
      <3>1. j \in 1 .. i - 1 /\ j \in 1 .. Len(q) /\ j < i
        BY <1>2, <2>2
      <3>2. q[j] \in nodes /\ InOrder(q[j], u)
        BY <1>1, <3>1 DEF InSequence, Units
      <3>3. q[j] # u
        BY <1>2, <3>2 DEF InOrder, IsTree, SyntaxNodes
      <3>4. new.at[q[j]] = at[q[j]]
        BY <1>17, <3>2, <3>3
      <3>5. PICK a \in 1 .. n : a = at[q[j]]
        BY <1>4, <1>13, <3>1
      <3>6. a \in 1 .. Len(all) /\ all[a] = chunks[a]
        BY <1>11, <1>14, <3>5
      <3> QED
        BY <1>4, <3>1, <3>4, <3>5, <3>6
    <2> QED
      BY <2>1, <2>2
  <1>20. \A k \in 1 .. Len(all) : k \in 1 .. n \/ k - n \in 1 .. Len(w)
    BY <1>11, <1>14
  <1>21. ASSUME NEW k \in 1 .. Len(all)
         PROVE  \E v \in Units(nodes) : IsPlaced(text, nodes, all, k, v)
    <2>1. CASE k \in 1 .. n
      <3>1. PICK v \in Units(nodes) : IsPlaced(text, nodes, chunks, k, v)
        BY <1>4, <1>13, <2>1
      <3>2. IsPlaced(text, nodes, all, k, v)
        BY <1>13, <1>14, <2>1, <3>1, StaysPlaced
      <3> QED
        BY <3>2
    <2>2. CASE k - n \in 1 .. Len(w)
      <3>1. PICK h \in 1 .. Len(w) : h = k - n
        BY <2>2
      <3>2. k = n + h
        BY <3>1
      <3>3. all[k] = placed[h]
        BY <1>14, <3>2
      <3>4. RefersBack(text, nodes, all, k, u)
        <4>1. CASE h = 1
          <5>1. all[k].parent = parent
            BY <1>11, <3>3, <4>1
          <5>2. parent # 0 => parent \in 1 .. k - 1 /\ all[parent] = chunks[parent]
            BY <1>7, <1>13, <1>14, <3>2, <4>1
          <5> QED
            BY <1>7, <5>1, <5>2 DEF RefersBack
        <4>2. CASE h # 1
          <5>1. all[k].parent = first
            BY <1>11, <3>3, <4>2
          <5>2. first # 0 /\ first \in 1 .. k - 1
            BY <1>15, <3>2, <4>2
          <5> QED
            BY <1>15, <5>1, <5>2 DEF RefersBack
        <4> QED
          BY <4>1, <4>2
      <3>5. IsPlaced(text, nodes, all, k, u)
        BY <1>11, <3>1, <3>3, <3>4 DEF IsPlaced
      <3> QED
        BY <3>5
    <2> QED
      BY <1>20, <2>1, <2>2
  <1>22. ASSUME NEW j \in 1 .. i, NEW p \in ToSet(Pieces(text, UnitSpan(q[j])))
         PROVE  \E k \in 1 .. Len(all) : all[k].text = p
    <2>1. CASE j = i
      <3>1. PICK h \in 1 .. Len(w) : w[h] = p
        BY <1>1, <1>9, <1>11, <2>1 DEF ToSet
      <3>2. n + h \in 1 .. Len(all) /\ all[n + h] = placed[h]
        BY <1>11, <1>14
      <3>3. all[n + h].text = p
        BY <1>11, <3>1, <3>2
      <3> QED
        BY <3>2, <3>3
    <2>2. CASE j # i
      <3>1. j \in 1 .. i - 1
        BY <1>2, <2>2
      <3>2. PICK k \in 1 .. n : chunks[k].text = p
        BY <1>4, <1>13, <3>1
      <3>3. k \in 1 .. Len(all) /\ all[k] = chunks[k]
        BY <1>11, <1>14
      <3> QED
        BY <3>2, <3>3
    <2> QED
      BY <2>1, <2>2
  <1>23. Placing(text, nodes, q, new, i)
    BY <1>14, <1>17, <1>18, <1>19, <1>21, <1>22 DEF Placing
  <1> QED
    BY <1>1, <1>16, <1>23

\* One unit after the other, given what the ones before have become.
PlaceOn(text, nodes, q, cut, i) ==
    IF i = 0 THEN [chunks |-> <<>>, at |-> [n \in nodes |-> 0]]
    ELSE AddUnit(text, nodes, cut[i - 1], q[i])

LEMMA AddUnitType ==
    ASSUME NEW A, NEW text \in Seq(A), NEW nodes, IsTree(text, nodes), NEW u \in Units(nodes),
           NEW acc \in [chunks : Seq(CutChunks), at : [nodes -> Nat]]
    PROVE  AddUnit(text, nodes, acc, u) \in [chunks : Seq(CutChunks), at : [nodes -> Nat]]
  <1>1. u \in nodes /\ Units(nodes) \subseteq nodes
    BY DEF Units
  <1>2. PICK chunks \in Seq(CutChunks), at \in [nodes -> Nat] : chunks = acc.chunks /\ at = acc.at
    OBVIOUS
  <1>3. PICK first \in Nat : first = Len(chunks) + 1
    OBVIOUS
  <1>4. PICK parent : parent = IF Containers(nodes, u) = {} THEN 0 ELSE at[ParentOf(nodes, u)]
    OBVIOUS
  <1>5. parent \in Nat
    <2>1. CASE Containers(nodes, u) = {}
      BY <1>4, <2>1
    <2>2. CASE Containers(nodes, u) # {}
      <3>1. PICK m \in nodes : m = ParentOf(nodes, u)
        BY <1>1, <2>2, ParentIsBefore
      <3>2. parent = at[m]
        BY <1>4, <2>2, <3>1
      <3> QED
        BY <3>2
    <2> QED
      BY <2>1, <2>2
  <1>6. PICK w : w = Pieces(text, UnitSpan(u))
    OBVIOUS
  <1>7. PICK placed : placed = PlacedPieces(text, nodes, u, w, parent, first)
    OBVIOUS
  <1>8. placed \in Seq(CutChunks)
    BY <1>1, <1>3, <1>5, <1>6, <1>7, PiecesArePlaced
  <1>9. chunks \o placed \in Seq(CutChunks)
    BY <1>8, Joined
  <1>10. [at EXCEPT ![u] = first] \in [nodes -> Nat]
    OBVIOUS
  <1>11. AddUnit(text, nodes, acc, u)
           = [chunks |-> chunks \o placed, at |-> [at EXCEPT ![u] = first]]
    BY <1>2, <1>3, <1>4, <1>6, <1>7 DEF AddUnit, PlacedPieces, UnitSpan
  <1> QED
    BY <1>9, <1>10, <1>11

LEMMA PlacingExists ==
    ASSUME NEW A, NEW text \in Seq(A), NEW nodes, IsTree(text, nodes), NEW q \in Seq(Units(nodes))
    PROVE  \E cut : cut = [i \in 0 .. Len(q) |-> PlaceOn(text, nodes, q, cut, i)]
  <1> DEFINE n == Len(q)
             states == [chunks : Seq(CutChunks), at : [nodes -> Nat]]
             start == [chunks |-> <<>>, at |-> [m \in nodes |-> 0]]
             step == [p \in (1 .. n) \X states |-> AddUnit(text, nodes, p[2], q[p[1]])]
  <1>1. n \in Nat /\ \A i \in 1 .. n : q[i] \in Units(nodes)
    OBVIOUS
  <1>2. start \in states
    OBVIOUS
  <1> HIDE DEF n
  <1>3. ASSUME NEW i \in 1 .. n, NEW acc \in states
        PROVE  AddUnit(text, nodes, acc, q[i]) \in states
    BY <1>1, AddUnitType
  <1> HIDE DEF states, start
  <1>4. step \in [(1 .. n) \X states -> states]
    BY <1>3
  <1>5. \A i \in 1 .. n, acc \in states : step[<<i, acc>>] = AddUnit(text, nodes, acc, q[i])
    OBVIOUS
  <1> HIDE DEF step
  <1>6. PICK f \in [0 .. n -> states] : Follows(n, start, step, f)
    BY <1>1, <1>2, <1>4, Iteration
  <1>7. \A i \in 0 .. n : f[i] = PlaceOn(text, nodes, q, f, i)
    <2>1. f[0] = PlaceOn(text, nodes, q, f, 0)
      BY <1>6 DEF Follows, PlaceOn, start
    <2>2. ASSUME NEW i \in 1 .. n
          PROVE  f[i] = PlaceOn(text, nodes, q, f, i)
      <3>1. i - 1 \in 0 .. n /\ i # 0
        BY <1>1
      <3>2. f[i - 1] \in states
        BY <1>6, <3>1
      <3>3. f[i] = step[<<i, f[i - 1]>>]
        BY <1>6 DEF Follows
      <3> QED
        BY <1>5, <3>1, <3>2, <3>3 DEF PlaceOn
    <2>3. \A i \in 0 .. n : i = 0 \/ i \in 1 .. n
      BY <1>1
    <2> QED
      BY <2>1, <2>2, <2>3
  <1>8. f = [i \in 0 .. n |-> PlaceOn(text, nodes, q, f, i)]
    BY <1>6, <1>7
  <1> QED
    BY <1>8 DEF n

\* The chunks of the units: each is placed, and each piece of a unit is there.
ArePlaced(text, nodes, chunks) ==
    /\ chunks \in Seq(CutChunks)
    /\ \A k \in 1 .. Len(chunks) : \E u \in Units(nodes) : IsPlaced(text, nodes, chunks, k, u)
    /\ \A u \in Units(nodes) : \A p \in ToSet(Pieces(text, UnitSpan(u))) :
          \E k \in 1 .. Len(chunks) : chunks[k].text = p

LEMMA UnitsArePlaced ==
    ASSUME NEW A, NEW text \in Seq(A), NEW nodes, IsTree(text, nodes)
    PROVE  ArePlaced(text, nodes, UnitChunks(text, nodes))
  <1> DEFINE q == UnitsInOrder(nodes)
             n == Len(q)
             cut == CHOOSE f : f = [i \in 0 .. n |-> PlaceOn(text, nodes, q, f, i)]
             S == {i \in 0 .. n : Placing(text, nodes, q, cut[i], i)}
  <1>1. InSequence(q, Units(nodes))
    BY UnitsAreSorted
  <1>2. UnitChunks(text, nodes) = cut[n].chunks
    BY DEF UnitChunks, PlaceOn
  <1> HIDE DEF q
  <1>3. cut = [i \in 0 .. n |-> PlaceOn(text, nodes, q, cut, i)]
    <2>1. q \in Seq(Units(nodes))
      BY <1>1 DEF InSequence
    <2>2. \E f : f = [i \in 0 .. n |-> PlaceOn(text, nodes, q, f, i)]
      BY <2>1, PlacingExists
    <2> QED
      BY <2>2
  <1>4. n \in Nat
    BY <1>1 DEF InSequence
  <1> HIDE DEF cut
  <1>5. 0 \in S
    <2>1. 0 \in 0 .. n
      BY <1>4
    <2>2. cut[0] = [chunks |-> <<>>, at |-> [m \in nodes |-> 0]]
      BY <1>3, <2>1 DEF PlaceOn
    <2>3. cut[0].chunks = <<>> /\ cut[0].at = [m \in nodes |-> 0]
      BY <2>2
    <2>4. <<>> \in Seq(CutChunks) /\ Len(<<>>) = 0 /\ 1 .. 0 = {}
      OBVIOUS
    <2>5. [m \in nodes |-> 0] \in [nodes -> Nat]
      OBVIOUS
    <2>6. Placing(text, nodes, q, cut[0], 0)
      BY <2>3, <2>4, <2>5 DEF Placing
    <2> QED
      BY <2>1, <2>6
  <1>6. ASSUME NEW i \in 1 .. n, i - 1 \in S
        PROVE  i \in S
    <2>1. i \in 0 .. n /\ i # 0
      BY <1>4
    <2>2. cut[i] = PlaceOn(text, nodes, q, cut, i)
      BY <1>3, <2>1
    <2>3. cut[i] = AddUnit(text, nodes, cut[i - 1], q[i])
      BY <2>1, <2>2 DEF PlaceOn
    <2>4. Placing(text, nodes, q, cut[i - 1], i - 1)
      BY <1>6
    <2>5. Placing(text, nodes, q, AddUnit(text, nodes, cut[i - 1], q[i]), i)
      BY <1>1, <2>4, PlacingOn
    <2> QED
      BY <2>1, <2>3, <2>5
  <1>7. Placing(text, nodes, q, cut[n], n)
    <2>1. n \in S
      <3> HIDE DEF S
      <3>1. 0 .. n \subseteq S
        BY <1>4, <1>5, <1>6, Induction
      <3> QED
        BY <1>4, <3>1
    <2> QED
      BY <2>1
  <1>8. PICK acc : acc = cut[n]
    OBVIOUS
  <1>9. ASSUME NEW u \in Units(nodes), NEW p \in ToSet(Pieces(text, UnitSpan(u)))
        PROVE  \E k \in 1 .. Len(acc.chunks) : acc.chunks[k].text = p
    <2>1. PICK j \in 1 .. n : q[j] = u
      BY <1>1 DEF InSequence
    <2> QED
      BY <1>7, <1>8, <2>1 DEF Placing
  <1>10. ArePlaced(text, nodes, acc.chunks)
    BY <1>7, <1>8, <1>9 DEF Placing, ArePlaced
  <1> QED
    BY <1>2, <1>8, <1>10

------------------------------------------------------------------------------
(* The chunks of the gaps.                                                  *)

\* A set of numbers that are not too large has a greatest one.
LEMMA GreatestNumber ==
    ASSUME NEW n \in Nat, NEW S, S \subseteq 0 .. n, S # {}
    PROVE  \E m \in S : \A k \in S : m >= k
  <1> DEFINE D == {n - k : k \in S}
  <1>1. D \subseteq Nat /\ D # {}
    <2>1. \A k \in S : n - k \in Nat
      <3> SUFFICES ASSUME NEW k \in S
                   PROVE  n - k \in Nat
        OBVIOUS
      <3>1. k \in 0 .. n
        OBVIOUS
      <3> QED
        BY <3>1
    <2> QED
      BY <2>1
  <1>2. PICK d \in D : \A k \in D : d <= k
    <2> HIDE DEF D
    <2> QED
      BY <1>1, LeastNumber
  <1>3. PICK m \in S : d = n - m
    OBVIOUS
  <1>4. ASSUME NEW k \in S
        PROVE  m >= k
    <2>1. d <= n - k
      BY <1>2
    <2> QED
      BY <1>3, <2>1
  <1> QED
    BY <1>4

\* Trimming a gap takes away no token.
LEMMA TrimmedKeepsTokens ==
    ASSUME NEW A, NEW text \in Seq(A), NEW g, SpanOf(text, g), TokensIn(text, g) # {}
    PROVE  LET t == Trimmed(text, g)
           IN  /\ SpanOf(text, t)
               /\ g.from <= t.from /\ t.from < t.to /\ t.to <= g.to
               /\ TokensIn(text, t) = TokensIn(text, g)
  <1>1. PICK T : T = TokensIn(text, g)
    OBVIOUS
  <1>2. PICK f, e \in Nat : f = g.from /\ e = g.to
    BY DEF SpanOf, Spans
  <1>3. 1 <= f /\ f <= e /\ e <= Len(text) + 1 /\ Len(text) \in Nat
    BY <1>2 DEF SpanOf
  <1>4. T = {i \in f .. e - 1 : text[i] = "word"}
    BY <1>1, <1>2 DEF TokensIn, Positions
  <1>5. T \subseteq Nat /\ T \subseteq 0 .. e /\ T # {}
    BY <1>1, <1>4
  <1>6. \E m \in T : \A k \in T : m <= k
    BY <1>5, LeastNumber
  <1>7. \E m \in T : \A k \in T : m >= k
    BY <1>5, GreatestNumber
  <1>8. PICK a : a = CHOOSE i \in T : \A k \in T : i <= k
    OBVIOUS
  <1>9. PICK b : b = CHOOSE i \in T : \A k \in T : i >= k
    OBVIOUS
  <1>10. a \in T /\ (\A k \in T : a <= k) /\ b \in T /\ \A k \in T : b >= k
    BY <1>6, <1>7, <1>8, <1>9
  <1>11. PICK t : t = Trimmed(text, g)
    OBVIOUS
  <1>12. t = Span(a, b + 1)
    BY <1>1, <1>5, <1>8, <1>9, <1>11 DEF Trimmed
  <1>13. a \in f .. e - 1 /\ b \in f .. e - 1 /\ a <= b
    BY <1>4, <1>10
  <1>14. t.from = a /\ t.to = b + 1 /\ t \in Spans
    BY <1>12, <1>13 DEF Span, Spans
  <1>15. TokensIn(text, t) = T
    <2>1. Positions(t) = a .. b
      <3>1. PICK c \in Nat, d \in Nat : c = t.from /\ d = t.to
        BY <1>14 DEF Spans
      <3>2. c = a /\ d = b + 1
        BY <1>14, <3>1
      <3>3. c .. d - 1 = a .. b
        BY <1>13, <3>1, <3>2
      <3> QED
        BY <3>1, <3>3 DEF Positions
    <2>2. ASSUME NEW i \in T
          PROVE  i \in a .. b
      <3>1. i \in Nat /\ a \in Nat /\ b \in Nat
        BY <1>5, <1>10
      <3>2. a <= i /\ b >= i
        BY <1>10
      <3> QED
        BY <3>1, <3>2
    <2>3. \A i \in a .. b : i \in f .. e - 1
      BY <1>13
    <2>4. TokensIn(text, t) = {i \in a .. b : text[i] = "word"}
      BY <2>1 DEF TokensIn
    <2>5. T \subseteq TokensIn(text, t)
      BY <1>4, <2>2, <2>4
    <2>6. TokensIn(text, t) \subseteq T
      BY <1>4, <2>3, <2>4
    <2> QED
      BY <2>5, <2>6
  <1>16. SpanOf(text, t)
    BY <1>3, <1>13, <1>14 DEF SpanOf
  <1>17. g.from <= t.from /\ t.from < t.to /\ t.to <= g.to
    BY <1>2, <1>13, <1>14
  <1> QED
    BY <1>1, <1>11, <1>15, <1>16, <1>17

LEMMA LinesType ==
    ASSUME NEW text, NEW span \in Spans, NEW line \in Nat
    PROVE  NewlinesIn(text, span) \in Nat /\ LinesFrom(text, line, span) \in Nat \X Nat
  <1> DEFINE X == {i \in Positions(span) : text[i] = "newline"}
  <1>1. IsFiniteSet(Positions(span))
    BY FS_Interval DEF Positions, Spans
  <1>2. IsFiniteSet(X)
    BY <1>1, FS_Subset
  <1>3. NewlinesIn(text, span) \in Nat
    BY <1>2, FS_CardinalityType DEF NewlinesIn
  <1> QED
    BY <1>3 DEF LinesFrom

\* A chunk of the text between the units.
IsBetween(text, units, c) ==
    /\ c \in CutChunks
    /\ c.text.from < c.text.to
    /\ \A p \in Positions(c.text) : p \in 1 .. Len(text) /\ ~ InUnit(units, p)
    /\ Cardinality(TokensIn(text, c.text)) <= MaxTokens
    /\ c.level = 1 /\ c.parent = 0

\* Only a short stretch of words is left out.
IsKept(text, g, chunks) ==
    \/ \A i \in TokensIn(text, g) : \E k \in 1 .. Len(chunks) : i \in Positions(chunks[k].text)
    \/ \A j, k \in TokensIn(text, g) : k - j < MinGap

LEMMA GapIsCut ==
    ASSUME NEW A, NEW text \in Seq(A), NEW units, NEW g, IsGap(text, units, g)
    PROVE  /\ GapChunks(text, g) \in Seq(CutChunks)
           /\ \A k \in 1 .. Len(GapChunks(text, g)) : IsBetween(text, units, GapChunks(text, g)[k])
           /\ IsKept(text, g, GapChunks(text, g))
  <1>1. PICK r : r = GapChunks(text, g)
    OBVIOUS
  <1>2. PICK t : t = Trimmed(text, g)
    OBVIOUS
  <1>3. PICK f, e \in Nat : f = g.from /\ e = g.to
    BY DEF IsGap, SpanOf, Spans
  <1>4. SpanOf(text, g) /\ 1 <= f /\ f <= e /\ e <= Len(text) + 1 /\ Len(text) \in Nat
    BY <1>3 DEF IsGap, SpanOf
  <1>5. MinGap \in Nat
    BY ChunkingAssumption
  <1>6. CASE TokensIn(text, g) = {}
    <2>1. t = Span(f, f)
      BY <1>2, <1>3, <1>6 DEF Trimmed
    <2>2. t.from = f /\ t.to = f
      BY <2>1 DEF Span
    <2>3. t.to - t.from <= MinGap
      BY <1>3, <1>5, <2>2
    <2>4. r = <<>>
      BY <1>1, <1>2, <2>3 DEF GapChunks
    <2>5. <<>> \in Seq(CutChunks) /\ Len(<<>>) = 0 /\ 1 .. 0 = {}
      OBVIOUS
    <2>6. IsKept(text, g, r)
      BY <1>6 DEF IsKept
    <2> QED
      BY <1>1, <2>4, <2>5, <2>6
  <1>7. CASE TokensIn(text, g) # {}
    <2>1. /\ SpanOf(text, t) /\ g.from <= t.from /\ t.from < t.to /\ t.to <= g.to
          /\ TokensIn(text, t) = TokensIn(text, g)
      BY <1>2, <1>4, <1>7, TrimmedKeepsTokens
    <2>2. PICK a, b \in Nat : a = t.from /\ b = t.to
      BY <2>1 DEF SpanOf, Spans
    <2>3. f <= a /\ a < b /\ b <= e
      BY <1>3, <2>1, <2>2
    <2>4. CASE b - a <= MinGap
      <3>1. r = <<>>
        BY <1>1, <1>2, <2>2, <2>4 DEF GapChunks
      <3>2. \A j \in TokensIn(text, t) : j \in a .. b - 1
        BY <2>2 DEF TokensIn, Positions
      <3>3. \A j, k \in a .. b - 1 : k - j < MinGap
        BY <1>5, <2>3, <2>4
      <3>4. IsKept(text, g, r)
        BY <2>1, <3>2, <3>3 DEF IsKept
      <3>5. <<>> \in Seq(CutChunks) /\ Len(<<>>) = 0 /\ 1 .. 0 = {}
        OBVIOUS
      <3> QED
        BY <1>1, <3>1, <3>4, <3>5
    <2>5. CASE ~ (b - a <= MinGap)
      <3>1. PICK w : w = Pieces(text, t)
        OBVIOUS
      <3>2. ArePieces(text, t, MaxTokens, w)
        BY <2>1, <3>1, SpansAreCut
      <3>3. w \in Seq(Spans) /\ Len(w) \in Nat /\ DOMAIN w = 1 .. Len(w)
        BY <3>2 DEF ArePieces
      <3> DEFINE first == LineAt(text, g.from)
                 Of(p) == IF p = t THEN LinesFrom(text, first, g)
                          ELSE LinesFrom(text, first + NewlinesIn(text, Span(t.from, p.from)), p)
      <3>4. r = [k \in DOMAIN w |-> [text |-> w[k], level |-> 1, parent |-> 0, lines |-> Of(w[k])]]
        BY <1>1, <1>2, <2>2, <2>5, <3>1 DEF GapChunks
      <3>5. ASSUME NEW p \in Spans
            PROVE  Of(p) \in Nat \X Nat
        <4>1. Span(1, f) \in Spans /\ Span(a, p.from) \in Spans /\ g \in Spans
          BY <1>4, <2>2 DEF Span, Spans, SpanOf
        <4>2. NewlinesIn(text, Span(1, f)) \in Nat /\ NewlinesIn(text, Span(a, p.from)) \in Nat
          <5>1. 0 \in Nat
            OBVIOUS
          <5> QED
            BY <4>1, <5>1, LinesType
        <4>3. first \in Nat
          BY <1>3, <4>2 DEF LineAt
        <4>4. first + NewlinesIn(text, Span(t.from, p.from)) \in Nat
          BY <2>2, <4>2, <4>3
        <4> HIDE DEF first
        <4> QED
          BY <4>1, <4>3, <4>4, LinesType
      <3> HIDE DEF Of, first
      <3>6. ASSUME NEW k \in 1 .. Len(w)
            PROVE  IsBetween(text, units, r[k]) /\ r[k].text = w[k]
        <4>1. r[k] = [text |-> w[k], level |-> 1, parent |-> 0, lines |-> Of(w[k])]
          BY <3>3, <3>4
        <4>2. r[k].text = w[k] /\ r[k].level = 1 /\ r[k].parent = 0
          BY <4>1
        <4>3. w[k] \in Spans
          BY <3>3
        <4>4. r[k] \in CutChunks
          BY <3>5, <4>1, <4>3 DEF CutChunks
        <4>5. PICK c, d \in Nat : c = w[k].from /\ d = w[k].to
          BY <4>3 DEF Spans
        <4>6. a <= c /\ c < d /\ d <= b /\ Cardinality(TokensIn(text, w[k])) <= MaxTokens
          BY <2>2, <2>3, <3>2, <4>5 DEF ArePieces, IsPiece
        <4>7. ASSUME NEW p \in Positions(w[k])
              PROVE  p \in 1 .. Len(text) /\ ~ InUnit(units, p)
          <5>1. p \in c .. d - 1
            BY <4>5 DEF Positions
          <5>2. p \in f .. e - 1 /\ p \in 1 .. Len(text)
            BY <1>4, <2>3, <4>6, <5>1
          <5>3. p \in Positions(g)
            BY <1>3, <5>2 DEF Positions
          <5> QED
            BY <5>2, <5>3 DEF IsGap
        <4> QED
          BY <4>2, <4>4, <4>5, <4>6, <4>7 DEF IsBetween
      <3>7. r \in Seq(CutChunks) /\ Len(r) = Len(w)
        <4>1. r \in [1 .. Len(w) -> CutChunks]
          BY <3>3, <3>4, <3>6 DEF IsBetween
        <4> QED
          BY <3>3, <4>1
      <3>8. IsKept(text, g, r)
        <4>1. ASSUME NEW i \in TokensIn(text, g)
              PROVE  \E k \in 1 .. Len(r) : i \in Positions(r[k].text)
          <5>1. PICK k \in 1 .. Len(w) : i \in Positions(w[k])
            BY <2>1, <3>2 DEF ArePieces
          <5> QED
            BY <3>6, <3>7, <5>1
        <4> QED
          BY <4>1 DEF IsKept
      <3> QED
        BY <1>1, <3>6, <3>7, <3>8
    <2> QED
      BY <2>4, <2>5
  <1> QED
    BY <1>6, <1>7

\* One gap after the other, given the chunks of the ones before.
GapOn(text, gaps, cut, i) ==
    IF i = 0 THEN <<>> ELSE cut[i - 1] \o GapChunks(text, gaps[i])

LEMMA GapCuttingExists ==
    ASSUME NEW A, NEW text \in Seq(A), NEW units, NEW gaps, AreGaps(text, units, gaps)
    PROVE  \E cut : cut = [i \in 0 .. Len(gaps) |-> GapOn(text, gaps, cut, i)]
  <1> DEFINE n == Len(gaps)
             states == Seq(CutChunks)
             step == [p \in (1 .. n) \X states |-> p[2] \o GapChunks(text, gaps[p[1]])]
  <1>1. n \in Nat /\ \A i \in 1 .. n : GapChunks(text, gaps[i]) \in Seq(CutChunks)
    BY GapIsCut DEF AreGaps
  <1>2. <<>> \in states
    OBVIOUS
  <1> HIDE DEF n
  <1>3. ASSUME NEW i \in 1 .. n, NEW s \in states
        PROVE  s \o GapChunks(text, gaps[i]) \in states
    BY <1>1, Joined
  <1> HIDE DEF states
  <1>4. step \in [(1 .. n) \X states -> states]
    BY <1>3
  <1>5. \A i \in 1 .. n, s \in states : step[<<i, s>>] = s \o GapChunks(text, gaps[i])
    OBVIOUS
  <1> HIDE DEF step
  <1>6. PICK f \in [0 .. n -> states] : Follows(n, <<>>, step, f)
    BY <1>1, <1>2, <1>4, Iteration
  <1>7. \A i \in 0 .. n : f[i] = GapOn(text, gaps, f, i)
    <2>1. f[0] = GapOn(text, gaps, f, 0)
      BY <1>6 DEF Follows, GapOn
    <2>2. ASSUME NEW i \in 1 .. n
          PROVE  f[i] = GapOn(text, gaps, f, i)
      <3>1. i - 1 \in 0 .. n /\ i # 0
        BY <1>1
      <3>2. f[i - 1] \in states
        BY <1>6, <3>1
      <3>3. f[i] = step[<<i, f[i - 1]>>]
        BY <1>6 DEF Follows
      <3> QED
        BY <1>5, <3>1, <3>2, <3>3 DEF GapOn
    <2>3. \A i \in 0 .. n : i = 0 \/ i \in 1 .. n
      BY <1>1
    <2> QED
      BY <2>1, <2>2, <2>3
  <1>8. f = [i \in 0 .. n |-> GapOn(text, gaps, f, i)]
    BY <1>6, <1>7
  <1> QED
    BY <1>8 DEF n

\* The chunks of i of the gaps.
AreBetween(text, units, gaps, chunks, i) ==
    /\ chunks \in Seq(CutChunks)
    /\ \A k \in 1 .. Len(chunks) : IsBetween(text, units, chunks[k])
    /\ \A j \in 1 .. i : IsKept(text, gaps[j], chunks)

LEMMA GapsAreCut ==
    ASSUME NEW A, NEW text \in Seq(A), NEW units, NEW gaps, AreGaps(text, units, gaps)
    PROVE  AreBetween(text, units, gaps, AllGapChunks(text, gaps), Len(gaps))
  <1> DEFINE n == Len(gaps)
             cut == CHOOSE f : f = [i \in 0 .. n |-> GapOn(text, gaps, f, i)]
             S == {i \in 0 .. n : AreBetween(text, units, gaps, cut[i], i)}
  <1>1. AllGapChunks(text, gaps) = cut[n]
    BY DEF AllGapChunks, GapOn
  <1>2. cut = [i \in 0 .. n |-> GapOn(text, gaps, cut, i)]
    <2>1. \E f : f = [i \in 0 .. n |-> GapOn(text, gaps, f, i)]
      BY GapCuttingExists
    <2> QED
      BY <2>1
  <1>3. n \in Nat
    BY DEF AreGaps
  <1> HIDE DEF cut
  <1>4. 0 \in S
    <2>1. 0 \in 0 .. n
      BY <1>3
    <2>2. cut[0] = <<>>
      BY <1>2, <2>1 DEF GapOn
    <2>3. <<>> \in Seq(CutChunks) /\ Len(<<>>) = 0 /\ 1 .. 0 = {}
      OBVIOUS
    <2>4. AreBetween(text, units, gaps, cut[0], 0)
      BY <2>2, <2>3 DEF AreBetween
    <2> QED
      BY <2>1, <2>4
  <1>5. ASSUME NEW i \in 1 .. n, i - 1 \in S
        PROVE  i \in S
    <2>1. i \in 0 .. n /\ i # 0
      BY <1>3
    <2>2. PICK s : s = cut[i - 1]
      OBVIOUS
    <2>3. PICK t : t = GapChunks(text, gaps[i])
      OBVIOUS
    <2>4. cut[i] = s \o t
      BY <1>2, <2>1, <2>2, <2>3 DEF GapOn
    <2>5. AreBetween(text, units, gaps, s, i - 1)
      BY <1>5, <2>2
    <2>6. IsGap(text, units, gaps[i])
      BY DEF AreGaps
    <2>7. /\ t \in Seq(CutChunks) /\ IsKept(text, gaps[i], t)
          /\ \A k \in 1 .. Len(t) : IsBetween(text, units, t[k])
      BY <2>3, <2>6, GapIsCut
    <2>8. s \in Seq(CutChunks)
      BY <2>5 DEF AreBetween
    <2>9. PICK r : r = s \o t
      OBVIOUS
    <2>10. /\ r \in Seq(CutChunks) /\ Len(s) \in Nat /\ Len(t) \in Nat /\ Len(r) = Len(s) + Len(t)
           /\ \A k \in 1 .. Len(s) : r[k] = s[k]
           /\ \A k \in 1 .. Len(t) : r[Len(s) + k] = t[k]
      BY <2>7, <2>8, <2>9, Joined
    <2>11. ASSUME NEW k \in 1 .. Len(r)
           PROVE  IsBetween(text, units, r[k])
      <3>1. CASE k \in 1 .. Len(s)
        BY <2>5, <2>10, <3>1 DEF AreBetween
      <3>2. CASE k \notin 1 .. Len(s)
        <4>1. PICK h \in 1 .. Len(t) : k = Len(s) + h
          <5>1. k - Len(s) \in 1 .. Len(t) /\ k = Len(s) + (k - Len(s))
            BY <2>10, <3>2
          <5> QED
            BY <5>1
        <4> QED
          BY <2>7, <2>10, <4>1
      <3> QED
        BY <3>1, <3>2
    <2>12. ASSUME NEW j \in 1 .. i
           PROVE  IsKept(text, gaps[j], r)
      <3>1. CASE j = i
        <4>1. \A k \in 1 .. Len(t) : Len(s) + k \in 1 .. Len(r) /\ r[Len(s) + k] = t[k]
          BY <2>10
        <4>2. ASSUME NEW p, NEW k \in 1 .. Len(t), p \in Positions(t[k].text)
              PROVE  \E h \in 1 .. Len(r) : p \in Positions(r[h].text)
          <5>1. PICK h \in 1 .. Len(r) : r[h] = t[k]
            BY <4>1
          <5> QED
            BY <4>2, <5>1
        <4> QED
          BY <2>7, <3>1, <4>2 DEF IsKept
      <3>2. CASE j # i
        <4>1. j \in 1 .. i - 1
          BY <1>3, <3>2
        <4>2. IsKept(text, gaps[j], s)
          BY <2>5, <4>1 DEF AreBetween
        <4>3. \A k \in 1 .. Len(s) : k \in 1 .. Len(r) /\ r[k] = s[k]
          BY <2>10
        <4> QED
          BY <4>2, <4>3 DEF IsKept
      <3> QED
        BY <3>1, <3>2
    <2>13. AreBetween(text, units, gaps, r, i)
      BY <2>10, <2>11, <2>12 DEF AreBetween
    <2> QED
      BY <2>1, <2>4, <2>9, <2>13
  <1>6. n \in S
    <2> HIDE DEF S
    <2>1. 0 .. n \subseteq S
      BY <1>3, <1>4, <1>5, Induction
    <2> QED
      BY <1>3, <2>1
  <1> QED
    BY <1>1, <1>6

------------------------------------------------------------------------------
(* The chunks of a text.                                                    *)

\* Without units: windows, each a chunk of its own.
AreWindows(text, found) ==
    \E w \in Seq(Spans) :
        /\ ArePieces(text, Whole(text), DefaultTokens, w)
        /\ found \in Seq(CutChunks) /\ Len(found) = Len(w)
        /\ \A k \in 1 .. Len(w) :
              found[k].text = w[k] /\ found[k].level = 2 /\ found[k].parent = 0

\* Otherwise the chunks of the units, behind them those of the gaps.
AreUnitsAndGaps(text, nodes, found) ==
    \E chunks, gaps, between :
        /\ found = chunks \o between
        /\ ArePlaced(text, nodes, chunks)
        /\ AreGaps(text, Units(nodes), gaps)
        /\ AreBetween(text, Units(nodes), gaps, between, Len(gaps))

LEMMA WholeIsSpan ==
    ASSUME NEW A, NEW text \in Seq(A)
    PROVE  /\ SpanOf(text, Whole(text)) /\ Whole(text).from = 1
           /\ Whole(text).to = Len(text) + 1 /\ Positions(Whole(text)) = 1 .. Len(text)
  <1>1. PICK n \in Nat : n = Len(text)
    OBVIOUS
  <1>2. PICK s : s = Whole(text)
    OBVIOUS
  <1>3. s.from = 1 /\ s.to = n + 1 /\ s \in Spans
    BY <1>1, <1>2 DEF Whole, Span, Spans
  <1>4. Positions(s) = 1 .. n
    <2>1. n + 1 - 1 = n
      OBVIOUS
    <2> QED
      BY <1>3, <2>1 DEF Positions
  <1> QED
    BY <1>1, <1>2, <1>3, <1>4 DEF SpanOf

LEMMA SemanticChunksAre ==
    ASSUME NEW A, NEW text \in Seq(A), NEW nodes, IsTree(text, nodes)
    PROVE  /\ Units(nodes) = {} => AreWindows(text, SemanticChunks(text, nodes))
           /\ Units(nodes) # {} => AreUnitsAndGaps(text, nodes, SemanticChunks(text, nodes))
  <1>1. PICK chunks : chunks = UnitChunks(text, nodes)
    OBVIOUS
  <1>2. ArePlaced(text, nodes, chunks)
    BY <1>1, UnitsArePlaced
  <1>3. chunks \in Seq(CutChunks) /\ Len(chunks) \in Nat
    BY <1>2 DEF ArePlaced
  <1>4. ASSUME Units(nodes) = {}
        PROVE  AreWindows(text, SemanticChunks(text, nodes))
    <2>1. \A k \in 1 .. Len(chunks) : FALSE
      BY <1>2, <1>4 DEF ArePlaced
    <2>2. Len(chunks) = 0
      BY <1>3, <2>1
    <2>3. chunks = <<>>
      BY <1>3, <2>2
    <2>4. PICK w : w = TokenWindows(text, Whole(text), DefaultTokens, DefaultOverlap)
      OBVIOUS
    <2>5. DefaultTokens \in Nat \ {0} /\ DefaultOverlap \in 0 .. DefaultTokens - 1
      BY ChunkingAssumption, LimitsArePositive
    <2>6. SpanOf(text, Whole(text))
      BY WholeIsSpan
    <2>7. ArePieces(text, Whole(text), DefaultTokens, w)
      BY <2>4, <2>5, <2>6, TokenWindowsArePieces
    <2>8. w \in Seq(Spans) /\ Len(w) \in Nat /\ DOMAIN w = 1 .. Len(w)
      BY <2>7 DEF ArePieces
    <2>9. PICK r : r = SemanticChunks(text, nodes)
      OBVIOUS
    <2>10. r = [k \in 1 .. Len(w) |->
                  [text |-> w[k], level |-> 2, parent |-> 0,
                   lines |-> LinesFrom(text, LineAt(text, w[k].from), w[k])]]
      BY <1>1, <2>3, <2>4, <2>8, <2>9 DEF SemanticChunks
    <2>11. ASSUME NEW k \in 1 .. Len(w)
           PROVE  /\ r[k] \in CutChunks
                  /\ r[k].text = w[k] /\ r[k].level = 2 /\ r[k].parent = 0
      <3>1. w[k] \in Spans
        BY <2>8
      <3>2. Span(1, w[k].from) \in Spans
        BY <3>1 DEF Span, Spans
      <3>3. NewlinesIn(text, Span(1, w[k].from)) \in Nat
        <4>1. 0 \in Nat
          OBVIOUS
        <4> QED
          BY <3>2, <4>1, LinesType
      <3>4. LineAt(text, w[k].from) \in Nat
        BY <3>3 DEF LineAt
      <3>5. LinesFrom(text, LineAt(text, w[k].from), w[k]) \in Nat \X Nat
        BY <3>1, <3>4, LinesType
      <3>6. r[k] = [text |-> w[k], level |-> 2, parent |-> 0,
                    lines |-> LinesFrom(text, LineAt(text, w[k].from), w[k])]
        BY <2>10
      <3>7. r[k].text = w[k] /\ r[k].level = 2 /\ r[k].parent = 0
        BY <3>6
      <3> QED
        BY <3>1, <3>5, <3>6, <3>7 DEF CutChunks
    <2>12. r \in Seq(CutChunks) /\ Len(r) = Len(w)
      <3>1. r \in [1 .. Len(w) -> CutChunks]
        BY <2>10, <2>11
      <3> QED
        BY <2>8, <3>1
    <2>13. AreWindows(text, r)
      BY <2>7, <2>8, <2>11, <2>12 DEF AreWindows
    <2> QED
      BY <2>9, <2>13
  <1>5. ASSUME Units(nodes) # {}
        PROVE  AreUnitsAndGaps(text, nodes, SemanticChunks(text, nodes))
    <2>1. PICK u : u \in Units(nodes)
      BY <1>5
    <2>2. PICK w : w = Pieces(text, UnitSpan(u))
      OBVIOUS
    <2>3. SpanOf(text, UnitSpan(u))
      BY <2>1, UnitsAreSpans DEF Units
    <2>4. w \in Seq(Spans) /\ Len(w) > 0
      BY <2>2, <2>3, SpansAreCut DEF ArePieces
    <2>5. 1 \in DOMAIN w
      BY <2>4
    <2>6. w[1] \in ToSet(w)
      BY <2>5 DEF ToSet
    <2>7. PICK k \in 1 .. Len(chunks) : chunks[k].text = w[1]
      BY <1>2, <2>1, <2>2, <2>6 DEF ArePlaced
    <2>8. chunks # <<>>
      BY <1>3, <2>7
    <2>9. PICK gaps : gaps = Gaps(text, nodes)
      OBVIOUS
    <2>10. AreGaps(text, Units(nodes), gaps)
      BY <2>9, GapsAreBetween
    <2>11. PICK between : between = AllGapChunks(text, gaps)
      OBVIOUS
    <2>12. AreBetween(text, Units(nodes), gaps, between, Len(gaps))
      BY <2>10, <2>11, GapsAreCut
    <2>13. SemanticChunks(text, nodes) = chunks \o between
      BY <1>1, <2>8, <2>9, <2>11 DEF SemanticChunks
    <2> QED
      BY <1>2, <2>10, <2>12, <2>13 DEF AreUnitsAndGaps
  <1> QED
    BY <1>4, <1>5

\* Behind the chunks of the units there are only those of the gaps.
LEMMA UnitsThenGaps ==
    ASSUME NEW text, NEW nodes, NEW found, NEW chunks, NEW gaps, NEW between,
           found = chunks \o between, ArePlaced(text, nodes, chunks),
           AreBetween(text, Units(nodes), gaps, between, Len(gaps))
    PROVE  /\ found \in Seq(CutChunks)
           /\ \A k \in 1 .. Len(chunks) : k \in 1 .. Len(found) /\ found[k] = chunks[k]
           /\ \A k \in 1 .. Len(between) :
                 \E h \in 1 .. Len(found) : found[h] = between[k]
           /\ \A k \in 1 .. Len(found) :
                 \/ \E u \in Units(nodes) : IsPlaced(text, nodes, found, k, u)
                 \/ IsBetween(text, Units(nodes), found[k])
  <1>1. chunks \in Seq(CutChunks) /\ between \in Seq(CutChunks)
    BY DEF ArePlaced, AreBetween
  <1>2. /\ found \in Seq(CutChunks) /\ Len(chunks) \in Nat /\ Len(between) \in Nat
        /\ Len(found) = Len(chunks) + Len(between)
        /\ \A k \in 1 .. Len(chunks) : found[k] = chunks[k]
        /\ \A k \in 1 .. Len(between) : found[Len(chunks) + k] = between[k]
    BY <1>1, Joined
  <1>3. \A k \in 1 .. Len(chunks) : k \in 1 .. Len(found)
    BY <1>2
  <1>4. \A k \in 1 .. Len(between) : Len(chunks) + k \in 1 .. Len(found)
    BY <1>2
  <1>5. ASSUME NEW k \in 1 .. Len(found)
        PROVE  \/ \E u \in Units(nodes) : IsPlaced(text, nodes, found, k, u)
               \/ IsBetween(text, Units(nodes), found[k])
    <2>1. CASE k \in 1 .. Len(chunks)
      <3>1. PICK u \in Units(nodes) : IsPlaced(text, nodes, chunks, k, u)
        BY <2>1 DEF ArePlaced
      <3>2. IsPlaced(text, nodes, found, k, u)
        BY <1>1, <1>2, <2>1, <3>1, StaysPlaced
      <3> QED
        BY <3>2
    <2>2. CASE k \notin 1 .. Len(chunks)
      <3>1. PICK h \in 1 .. Len(between) : k = Len(chunks) + h
        <4>1. k - Len(chunks) \in 1 .. Len(between) /\ k = Len(chunks) + (k - Len(chunks))
          BY <1>2, <2>2
        <4> QED
          BY <4>1
      <3>2. found[k] = between[h]
        BY <1>2, <3>1
      <3> QED
        BY <3>2 DEF AreBetween
    <2> QED
      BY <2>1, <2>2
  <1>6. \A k \in 1 .. Len(between) : \E h \in 1 .. Len(found) : found[h] = between[k]
    BY <1>2, <1>4
  <1> QED
    BY <1>2, <1>3, <1>5, <1>6

\* A token that no chunk has taken is in a gap of which too little is left.
LEMMA WhatIsLeftOut ==
    ASSUME NEW A, NEW text \in Seq(A), NEW nodes, IsTree(text, nodes),
           NEW found, AreUnitsAndGaps(text, nodes, found), NEW i \in TokensIn(text, Whole(text)),
           \A k \in 1 .. Len(found) : i \notin Positions(found[k].text)
    PROVE  /\ ~ InUnit(Units(nodes), i)
           /\ \E g : /\ IsGap(text, Units(nodes), g) /\ i \in Positions(g)
                     /\ \A j, k \in TokensIn(text, g) : k - j < MinGap
  <1>1. PICK units : units = Units(nodes)
    OBVIOUS
  <1>2. PICK chunks, gaps, between :
           /\ found = chunks \o between
           /\ ArePlaced(text, nodes, chunks)
           /\ AreGaps(text, units, gaps)
           /\ AreBetween(text, units, gaps, between, Len(gaps))
    BY <1>1 DEF AreUnitsAndGaps
  <1>3. /\ \A k \in 1 .. Len(chunks) : k \in 1 .. Len(found) /\ found[k] = chunks[k]
        /\ \A k \in 1 .. Len(between) : \E h \in 1 .. Len(found) : found[h] = between[k]
    <2>1. AreBetween(text, Units(nodes), gaps, between, Len(gaps))
      BY <1>1, <1>2
    <2> QED
      BY <1>2, <2>1, UnitsThenGaps
  <1>4. i \in 1 .. Len(text) /\ text[i] = "word"
    BY WholeIsSpan DEF TokensIn
  <1>5. \A u \in units : i \notin Positions(u)
    <2> SUFFICES ASSUME NEW u \in units, i \in Positions(u)
                 PROVE  FALSE
      OBVIOUS
    <2>1. PICK s : s = UnitSpan(u)
      OBVIOUS
    <2>2. u \in nodes
      BY <1>1 DEF Units
    <2>3. SpanOf(text, s) /\ s.from = u.from /\ s.to = u.to
      BY <2>1, <2>2, UnitsAreSpans
    <2>4. i \in TokensIn(text, s)
      BY <1>4, <2>3 DEF TokensIn, Positions
    <2>5. PICK w : w = Pieces(text, s)
      OBVIOUS
    <2>6. ArePieces(text, s, MaxTokens, w)
      BY <2>3, <2>5, SpansAreCut
    <2>7. PICK h \in 1 .. Len(w) : i \in Positions(w[h])
      BY <2>4, <2>6 DEF ArePieces
    <2>8. w[h] \in ToSet(w)
      BY <2>6, <2>7 DEF ToSet, ArePieces
    <2>9. PICK k \in 1 .. Len(chunks) : chunks[k].text = w[h]
      BY <1>1, <1>2, <2>1, <2>5, <2>8 DEF ArePlaced
    <2> QED
      BY <1>3, <2>7, <2>9
  <1>6. ~ InUnit(units, i)
    BY <1>5 DEF InUnit
  <1>7. i \in 1 .. Len(text) + 1 - 1
    BY <1>4
  <1>8. PICK g : (\E k \in 1 .. Len(gaps) : g = gaps[k]) /\ i \in Positions(g)
    BY <1>2, <1>6, <1>7 DEF AreGaps, Reaches
  <1>9. PICK k \in 1 .. Len(gaps) : g = gaps[k]
    BY <1>8
  <1>10. IsGap(text, units, g) /\ IsKept(text, g, between)
    BY <1>2, <1>9 DEF AreGaps, AreBetween
  <1>11. i \in TokensIn(text, g)
    BY <1>4, <1>8 DEF TokensIn
  <1>12. ~ \E h \in 1 .. Len(between) : i \in Positions(between[h].text)
    <2> SUFFICES ASSUME NEW h \in 1 .. Len(between), i \in Positions(between[h].text)
                 PROVE  FALSE
      OBVIOUS
    <2>1. PICK l \in 1 .. Len(found) : found[l] = between[h]
      BY <1>3
    <2> QED
      BY <2>1
  <1>13. \A j, l \in TokensIn(text, g) : l - j < MinGap
    BY <1>10, <1>11, <1>12 DEF IsKept
  <1> QED
    BY <1>1, <1>6, <1>8, <1>10, <1>13

\* From a gap one does not get into another without crossing a unit.
LEMMA AroundIsInGap ==
    ASSUME NEW A, NEW text \in Seq(A), NEW units, NEW g, IsGap(text, units, g),
           NEW i \in Positions(g), NEW j \in 1 .. Len(text),
           \A p \in Earlier(i, j) .. Later(i, j) : ~ InUnit(units, p)
    PROVE  j \in Positions(g)
  <1>1. PICK f, e \in Nat : f = g.from /\ e = g.to
    BY DEF IsGap, SpanOf, Spans
  <1>2. Positions(g) = f .. e - 1 /\ (f = 1 \/ InUnit(units, f - 1)) /\ (e = Len(text) + 1 \/ InUnit(units, e))
    BY <1>1 DEF IsGap, Positions
  <1>3. i \in f .. e - 1 /\ j \in Nat /\ Len(text) \in Nat /\ 1 <= j /\ j <= Len(text)
    BY <1>2
  <1>4. CASE j < f
    <2>1. f - 1 \in j .. i /\ Earlier(i, j) = j /\ Later(i, j) = i
      BY <1>3, <1>4 DEF Earlier, Later
    <2>2. ~ InUnit(units, f - 1)
      BY <2>1
    <2> QED
      BY <1>2, <1>3, <1>4, <2>2
  <1>5. CASE j >= e
    <2>1. e \in i .. j /\ Earlier(i, j) = i /\ Later(i, j) = j
      BY <1>3, <1>5 DEF Earlier, Later
    <2>2. ~ InUnit(units, e)
      BY <2>1
    <2> QED
      BY <1>2, <1>3, <1>5, <2>2
  <1>6. CASE f <= j /\ j < e
    BY <1>2, <1>3, <1>6
  <1> QED
    BY <1>1, <1>3, <1>4, <1>5, <1>6

\* Whatever nodes a parser finds in a text, each word is in a chunk, or in a short
\* stretch between units; and what is not cut from a unit lies outside of all of
\* them (SemanticChunker::chunk).
THEOREM AnyTextIsCovered ==
    ASSUME NEW A, NEW text \in Seq(A), NEW nodes, IsTree(text, nodes)
    PROVE  Covered(text, nodes)
  <1> DEFINE units == Units(nodes)
             words == TokensIn(text, Whole(text))
             outside == DOMAIN text \ UNION {Positions(u) : u \in units}
             Around(i) == {j \in words : Earlier(i, j) .. Later(i, j) \subseteq outside}
             found == SemanticChunks(text, nodes)
             covered == UNION {Positions(found[k].text) : k \in DOMAIN found}
  <1>1. SemanticChunks(text, nodes) = found
    OBVIOUS
  <1>7. Covered(text, nodes) <=>
          /\ \A i \in words \ covered :
                /\ units # {} /\ i \in outside
                /\ \A j, k \in Around(i) : k - j < MinGap
          /\ units # {} => \A k \in DOMAIN found :
                \/ Positions(found[k].text) \subseteq outside
                \/ CutFrom(text, units, found[k]) # {}
    BY DEF Covered
  <1> HIDE DEF found
  <1>2. DOMAIN text = 1 .. Len(text)
    OBVIOUS
  <1>3. \A p : p \in outside <=> p \in 1 .. Len(text) /\ ~ InUnit(units, p)
    BY <1>2 DEF InUnit
  <1>4. \A i \in words : i \in 1 .. Len(text)
    BY WholeIsSpan DEF TokensIn
  <1>5. CASE units = {}
    <2>1. AreWindows(text, found)
      BY <1>1, <1>5, SemanticChunksAre
    <2>2. PICK w \in Seq(Spans) :
             /\ ArePieces(text, Whole(text), DefaultTokens, w)
             /\ found \in Seq(CutChunks) /\ Len(found) = Len(w)
             /\ \A k \in 1 .. Len(w) : found[k].text = w[k]
      BY <2>1 DEF AreWindows
    <2>3. DOMAIN found = 1 .. Len(w)
      BY <2>2
    <2>4. ASSUME NEW i \in words
          PROVE  i \in covered
      <3>1. PICK k \in 1 .. Len(w) : i \in Positions(w[k])
        BY <2>2 DEF ArePieces
      <3> QED
        BY <2>2, <2>3, <3>1
    <2> HIDE DEF words, outside, Around, covered
    <2>5. words \ covered = {}
      BY <2>4
    <2> QED
      BY <1>5, <1>7, <2>5
  <1>6. CASE units # {}
    <2>1. AreUnitsAndGaps(text, nodes, found)
      BY <1>1, <1>6, SemanticChunksAre
    <2>2. PICK chunks, gaps, between :
             /\ found = chunks \o between
             /\ ArePlaced(text, nodes, chunks)
             /\ AreBetween(text, units, gaps, between, Len(gaps))
      BY <2>1 DEF AreUnitsAndGaps
    <2>3. /\ found \in Seq(CutChunks)
          /\ \A k \in 1 .. Len(found) :
                \/ \E u \in units : IsPlaced(text, nodes, found, k, u)
                \/ IsBetween(text, units, found[k])
      BY <2>2, UnitsThenGaps
    <2>4. DOMAIN found = 1 .. Len(found)
      BY <2>3
    <2>5. ASSUME NEW i \in words \ covered
          PROVE  i \in outside /\ \A j, k \in Around(i) : k - j < MinGap
      <3>1. \A k \in 1 .. Len(found) : i \notin Positions(found[k].text)
        BY <2>4
      <3>2. i \in words
        OBVIOUS
      <3>3. ~ InUnit(units, i)
        BY <2>1, <3>1, <3>2, WhatIsLeftOut
      <3>4. PICK g : /\ IsGap(text, units, g) /\ i \in Positions(g)
                     /\ \A j, k \in TokensIn(text, g) : k - j < MinGap
        BY <2>1, <3>1, <3>2, WhatIsLeftOut
      <3>5. ASSUME NEW j \in Around(i)
            PROVE  j \in TokensIn(text, g)
        <4>1. j \in words /\ Earlier(i, j) .. Later(i, j) \subseteq outside
          OBVIOUS
        <4>2. j \in 1 .. Len(text) /\ text[j] = "word"
          BY <1>4, <4>1 DEF TokensIn
        <4>3. \A p \in Earlier(i, j) .. Later(i, j) : ~ InUnit(units, p)
          BY <1>3, <4>1
        <4>4. j \in Positions(g)
          BY <3>4, <4>2, <4>3, AroundIsInGap
        <4> QED
          BY <4>2, <4>4 DEF TokensIn
      <3>6. i \in outside
        BY <1>3, <1>4, <3>2, <3>3
      <3> HIDE DEF Around
      <3> QED
        BY <3>4, <3>5, <3>6
    <2>6. ASSUME NEW k \in DOMAIN found
          PROVE  \/ Positions(found[k].text) \subseteq outside
                 \/ CutFrom(text, units, found[k]) # {}
      <3>1. CASE \E u \in units : IsPlaced(text, nodes, found, k, u)
        <4>1. PICK u \in units : FromUnit(text, found[k], u)
          BY <3>1 DEF IsPlaced
        <4>2. u \in CutFrom(text, units, found[k])
          BY <4>1 DEF FromUnit, CutFrom, UnitSpan
        <4> QED
          BY <4>2
      <3>2. CASE IsBetween(text, units, found[k])
        BY <1>3, <3>2 DEF IsBetween
      <3> QED
        BY <2>3, <2>4, <3>1, <3>2
    <2> HIDE DEF words, outside, Around, covered
    <2> QED
      BY <1>6, <1>7, <2>5, <2>6
  <1> QED
    BY <1>5, <1>6

\* A chunk of a unit is a part of it within the limit.
LEMMA PieceOfUnit ==
    ASSUME NEW A, NEW text \in Seq(A), NEW nodes, IsTree(text, nodes), NEW u \in Units(nodes),
           NEW c, FromUnit(text, c, u)
    PROVE  /\ IsPiece(text, UnitSpan(u), MaxTokens, c.text)
           /\ InUnit(Units(nodes), c.text.from) /\ c.text.from \in Positions(c.text)
  <1>1. u \in nodes
    BY DEF Units
  <1>2. PICK s \in Spans : s = UnitSpan(u)
    BY <1>1, UnitsAreSpans DEF SpanOf
  <1>3. SpanOf(text, s) /\ s.from < s.to /\ s.from = u.from /\ s.to = u.to
    BY <1>1, <1>2, UnitsAreSpans
  <1>4. PICK w : w = Pieces(text, s)
    OBVIOUS
  <1>5. ArePieces(text, s, MaxTokens, w)
    BY <1>3, <1>4, SpansAreCut
  <1>6. PICK h \in 1 .. Len(w) : w[h] = c.text
    BY <1>2, <1>4, <1>5 DEF FromUnit, ToSet, ArePieces
  <1>7. PICK p \in Spans : p = c.text
    BY <1>5, <1>6 DEF ArePieces
  <1>8. IsPiece(text, s, MaxTokens, p)
    BY <1>5, <1>6, <1>7 DEF ArePieces
  <1>9. s.from <= p.from /\ p.from < p.to /\ p.to <= s.to
    BY <1>3, <1>8 DEF IsPiece
  <1>10. s.from \in Nat /\ s.to \in Nat /\ p.from \in Nat /\ p.to \in Nat
    BY DEF Spans
  <1>11. p.from \in Positions(p) /\ p.from \in Positions(u)
    BY <1>3, <1>9, <1>10 DEF Positions
  <1> QED
    BY <1>2, <1>7, <1>8, <1>11 DEF InUnit

\* The kept chunks are the first ones.
LEMMA KeptAreFirst ==
    ASSUME NEW found \in Seq(CutChunks)
    PROVE  \A k \in DOMAIN Kept(found) :
              /\ k \in 1 .. Len(found) /\ Kept(found)[k] = found[k]
              /\ \A j \in 1 .. k : Kept(found)[j] = found[j]
  <1>1. PICK n \in Nat : n = Earlier(MaxChunks, Len(found))
    BY ChunkingAssumption DEF Earlier
  <1>2. n <= Len(found) /\ Len(found) \in Nat
    BY <1>1, ChunkingAssumption DEF Earlier
  <1>3. PICK r : r = SubSeq(found, 1, n)
    OBVIOUS
  <1>4. Kept(found) = r
    BY <1>1, <1>3 DEF Kept
  <1>5. DOMAIN r = 1 .. n /\ \A k \in 1 .. n : r[k] = found[k]
    BY <1>2, <1>3
  <1>6. \A k \in 1 .. n : k \in 1 .. Len(found) /\ \A j \in 1 .. k : j \in 1 .. n
    BY <1>2
  <1> QED
    BY <1>4, <1>5, <1>6

\* What InPlace says of the k-th chunk.
HasPlace(text, nodes, found, k) ==
    LET units == Units(nodes)
        Of(j) == CutFrom(text, units, found[j])
        c == found[k]
    IN  /\ Cardinality(TokensIn(text, c.text))
             <= IF units = {} THEN DefaultTokens ELSE MaxTokens
        /\ c.parent # 0 =>
             /\ c.parent < k
             /\ \E n \in Of(k), m \in Of(c.parent) :
                   m = n \/ (m \in Containers(nodes, n) /\ m = ParentOf(nodes, n))
        /\ c.level = 2 /\ units # {} => c.parent # 0
        /\ Of(k) # {} => c.lines =
             <<LineAt(text, c.text.from), LineAt(text, c.text.to)>>

LEMMA WindowHasPlace ==
    ASSUME NEW text, NEW nodes, Units(nodes) = {}, NEW found, AreWindows(text, found),
           NEW k \in 1 .. Len(found)
    PROVE  HasPlace(text, nodes, found, k)
  <1>1. PICK w \in Seq(Spans) :
           /\ ArePieces(text, Whole(text), DefaultTokens, w) /\ Len(found) = Len(w)
           /\ \A j \in 1 .. Len(w) : found[j].text = w[j] /\ found[j].parent = 0
    BY DEF AreWindows
  <1>2. Cardinality(TokensIn(text, found[k].text)) <= DefaultTokens
    BY <1>1 DEF ArePieces, IsPiece
  <1>3. found[k].parent = 0
    BY <1>1
  <1>4. CutFrom(text, Units(nodes), found[k]) = {}
    BY DEF CutFrom
  <1> QED
    BY <1>2, <1>3, <1>4 DEF HasPlace

LEMMA PlacedHasPlace ==
    ASSUME NEW A, NEW text \in Seq(A), NEW nodes, IsTree(text, nodes),
           NEW found \in Seq(CutChunks), NEW k \in 1 .. Len(found),
           NEW u \in Units(nodes), IsPlaced(text, nodes, found, k, u)
    PROVE  HasPlace(text, nodes, found, k)
  <1>1. PICK c \in CutChunks : c = found[k]
    OBVIOUS
  <1>2. FromUnit(text, c, u) /\ c.level = Level(nodes, u) /\ RefersBack(text, nodes, found, k, u)
    BY <1>1 DEF IsPlaced
  <1>3. c.lines = <<LineAt(text, c.text.from), LineAt(text, c.text.to)>>
    BY <1>1 DEF IsPlaced
  <1>4. Cardinality(TokensIn(text, c.text)) <= MaxTokens
    BY <1>2, PieceOfUnit DEF IsPiece
  <1>5. u \in CutFrom(text, Units(nodes), found[k])
    BY <1>1, <1>2 DEF FromUnit, CutFrom, UnitSpan
  <1>6. ASSUME c.parent # 0
        PROVE  /\ c.parent < k
               /\ \E n \in CutFrom(text, Units(nodes), found[k]),
                     m \in CutFrom(text, Units(nodes), found[c.parent]) :
                     m = n \/ (m \in Containers(nodes, n) /\ m = ParentOf(nodes, n))
    <2>1. c.parent \in 1 .. k - 1
      BY <1>1, <1>2, <1>6 DEF RefersBack
    <2>2. PICK m \in Units(nodes) :
             /\ FromUnit(text, found[c.parent], m)
             /\ m = u \/ (m \in Containers(nodes, u) /\ m = ParentOf(nodes, u))
      BY <1>1, <1>2, <1>6 DEF RefersBack
    <2>3. m \in CutFrom(text, Units(nodes), found[c.parent])
      BY <2>2 DEF FromUnit, CutFrom, UnitSpan
    <2>4. c.parent < k
      BY <2>1
    <2> QED
      BY <1>5, <2>2, <2>3, <2>4
  <1>7. c.level = 2 => c.parent # 0
    BY <1>1, <1>2 DEF Level, RefersBack
  <1>8. Units(nodes) # {}
    OBVIOUS
  <1> QED
    BY <1>1, <1>3, <1>4, <1>6, <1>7, <1>8 DEF HasPlace

LEMMA BetweenHasPlace ==
    ASSUME NEW A, NEW text \in Seq(A), NEW nodes, IsTree(text, nodes), Units(nodes) # {},
           NEW found, NEW k, IsBetween(text, Units(nodes), found[k])
    PROVE  HasPlace(text, nodes, found, k)
  <1>1. PICK c : c = found[k]
    OBVIOUS
  <1>2. /\ \A p \in Positions(c.text) : ~ InUnit(Units(nodes), p)
        /\ Cardinality(TokensIn(text, c.text)) <= MaxTokens
        /\ c.level = 1 /\ c.parent = 0
    BY <1>1 DEF IsBetween
  <1>3. CutFrom(text, Units(nodes), c) = {}
    <2> SUFFICES ASSUME NEW u \in Units(nodes), FromUnit(text, c, u)
                 PROVE  FALSE
      BY DEF CutFrom, FromUnit, UnitSpan
    <2>1. InUnit(Units(nodes), c.text.from) /\ c.text.from \in Positions(c.text)
      BY PieceOfUnit
    <2> QED
      BY <1>2, <2>1
  <1> QED
    BY <1>1, <1>2, <1>3 DEF HasPlace

\* Whatever nodes a parser finds, each kept chunk is within the limit, its parent is
\* kept and comes before it, and its lines are right (SemanticChunker::chunk,
\* chunk_limits::enforce).
THEOREM AnyChunksKeepTheirPlace ==
    ASSUME NEW A, NEW text \in Seq(A), NEW nodes, IsTree(text, nodes)
    PROVE  InPlace(text, nodes)
  <1>1. PICK all : all = SemanticChunks(text, nodes)
    OBVIOUS
  <1>2. all \in Seq(CutChunks) /\ \A k \in 1 .. Len(all) : HasPlace(text, nodes, all, k)
    <2>1. CASE Units(nodes) = {}
      <3>1. AreWindows(text, all)
        BY <1>1, <2>1, SemanticChunksAre
      <3>2. all \in Seq(CutChunks)
        BY <3>1 DEF AreWindows
      <3> QED
        BY <2>1, <3>1, <3>2, WindowHasPlace
    <2>2. CASE Units(nodes) # {}
      <3>1. AreUnitsAndGaps(text, nodes, all)
        BY <1>1, <2>2, SemanticChunksAre
      <3>2. PICK chunks, gaps, between :
               /\ all = chunks \o between
               /\ ArePlaced(text, nodes, chunks)
               /\ AreBetween(text, Units(nodes), gaps, between, Len(gaps))
        BY <3>1 DEF AreUnitsAndGaps
      <3>3. /\ all \in Seq(CutChunks)
            /\ \A k \in 1 .. Len(all) :
                  \/ \E u \in Units(nodes) : IsPlaced(text, nodes, all, k, u)
                  \/ IsBetween(text, Units(nodes), all[k])
        BY <3>2, UnitsThenGaps
      <3>4. ASSUME NEW k \in 1 .. Len(all)
            PROVE  HasPlace(text, nodes, all, k)
        BY <2>2, <3>3, PlacedHasPlace, BetweenHasPlace
      <3> QED
        BY <3>3, <3>4
    <2> QED
      BY <2>1, <2>2
  <1> DEFINE found == Kept(SemanticChunks(text, nodes))
  <1>3. InPlace(text, nodes) <=> \A k \in DOMAIN found : HasPlace(text, nodes, found, k)
    BY DEF InPlace, HasPlace
  <1>4. found = Kept(all)
    BY <1>1
  <1> HIDE DEF found
  <1>5. ASSUME NEW k \in DOMAIN found
        PROVE  HasPlace(text, nodes, found, k)
    <2>1. k \in 1 .. Len(all) /\ found[k] = all[k] /\ \A j \in 1 .. k : found[j] = all[j]
      BY <1>2, <1>4, KeptAreFirst
    <2>2. HasPlace(text, nodes, all, k)
      BY <1>2, <2>1
    <2>3. PICK p : p = all[k].parent
      OBVIOUS
    <2>4. p \in Nat
      <3>1. all \in Seq(CutChunks) /\ k \in 1 .. Len(all)
        BY <1>2, <2>1
      <3>2. all[k] \in CutChunks
        BY <3>1
      <3> QED
        BY <2>3, <3>2 DEF CutChunks
    <2>5. p # 0 => p < k
      BY <2>2, <2>3 DEF HasPlace
    <2>6. p # 0 => found[p] = all[p]
      BY <2>1, <2>4, <2>5
    <2> QED
      BY <2>1, <2>2, <2>3, <2>6 DEF HasPlace
  <1> QED
    BY <1>3, <1>5

------------------------------------------------------------------------------
(* What is true of every document and every conversation that is cut.        *)

InputsOK == document \in Seq(Characters) /\ dialogue \in Conversations

LEMMA InputsAreTexts == CutSpec => []InputsOK
  <1>1. CutInit => InputsOK
    BY InputsAssumption DEF CutInit, InputsOK, Conversations
  <1>2. InputsOK /\ [CutNext]_cutVars => InputsOK'
    <2> SUFFICES ASSUME InputsOK, [CutNext]_cutVars
                 PROVE  InputsOK'
      OBVIOUS
    <2>1. ASSUME NEW m \in Nodes, FindNode(m)
          PROVE  InputsOK'
      BY <2>1 DEF FindNode, InputsOK
    <2>2. ASSUME NEW size \in Sizes, WriteLine(size)
          PROVE  InputsOK'
      BY <2>2, InputsAssumption DEF WriteLine, InputsOK, Conversations
    <2>3. CASE UNCHANGED cutVars
      BY <2>3 DEF cutVars, InputsOK
    <2> QED
      BY <2>1, <2>2, <2>3 DEF CutNext
  <1> QED
    BY <1>1, <1>2, PTL DEF CutSpec

\* Every conversation that is written in JSONL is stored whole, with the lines its
\* chunks have (the second branch of JsonlChunker::chunk).
THEOREM EveryConversationIsTiled == CutSpec => []ConversationsAreTiled
  <1>1. InputsOK => ConversationsAreTiled
    BY AnyConversationIsTiled DEF InputsOK, ConversationsAreTiled
  <1> QED
    BY <1>1, InputsAreTexts, PTL

\* Every conversation that Gemini writes is stored whole (try_chunk_gemini_json).
THEOREM EveryGeminiIsKeptWhole == CutSpec => []GeminiIsKeptWhole
  <1>1. InputsOK => GeminiIsKeptWhole
    <2> SUFFICES ASSUME InputsOK, NEW spread \in 0 .. 2, NEW estimate \in 0 .. 2
                 PROVE  KeptWhole(dialogue, [i \in DOMAIN dialogue |-> 1 + spread * i],
                                  estimate)
      BY DEF GeminiIsKeptWhole
    <2>1. dialogue \in Conversations /\ DOMAIN dialogue \subseteq Nat
      BY SizesOfLines DEF InputsOK
    <2> DEFINE starts == [i \in DOMAIN dialogue |-> 1 + spread * i]
    <2>2. spread = 0 \/ spread = 1 \/ spread = 2
      OBVIOUS
    <2>3. \A i \in DOMAIN dialogue : 1 + spread * i \in Nat \ {0}
      BY <2>1, <2>2
    <2>4. \A i, j \in DOMAIN dialogue : i <= j => 1 + spread * i <= 1 + spread * j
      BY <2>1, <2>2
    <2>5. /\ starts \in [DOMAIN dialogue -> Nat \ {0}]
          /\ \A i, j \in DOMAIN dialogue : i <= j => starts[i] <= starts[j]
      BY <2>3, <2>4
    <2> QED
      BY <2>1, <2>5, AnyGeminiIsKeptWhole
  <1> QED
    BY <1>1, InputsAreTexts, PTL

\* The windows of every document advance (CharacterChunker::chunk).
THEOREM EveryWindowAdvances == CutSpec => []WindowsAdvance
  <1>1. InputsOK => WindowsAdvance
    <2> SUFFICES ASSUME InputsOK, NEW max \in 1 .. 3, NEW overlap \in 0 .. 3
                 PROVE  Advance(document, CharacterWindows(document, max, overlap))
      BY DEF WindowsAdvance
    <2>1. document \in Seq(Characters) /\ max \in Nat \ {0} /\ overlap \in Nat
      BY DEF InputsOK
    <2> QED
      BY <2>1, CharacterWindowsAdvance
  <1> QED
    BY <1>1, InputsAreTexts, PTL

------------------------------------------------------------------------------
(* The trees of the documents that are cut.                                 *)

TreesOK == InputsOK /\ IsTree(document, tree)

LEMMA TreesAreSyntax == CutSpec => []TreesOK
  <1>1. CutInit => TreesOK
    <2> SUFFICES ASSUME CutInit
                 PROVE  TreesOK
      OBVIOUS
    <2>1. document \in Seq(Characters) /\ dialogue = <<>> /\ tree = {}
      BY InputsAssumption DEF CutInit
    <2>2. InputsOK
      BY <2>1 DEF InputsOK, Conversations
    <2>3. IsTree(document, tree)
      BY <2>1, FS_EmptySet DEF IsTree, IsSyntax
    <2> QED
      BY <2>2, <2>3 DEF TreesOK
  <1>2. TreesOK /\ InputsOK' /\ [CutNext]_cutVars => TreesOK'
    <2> SUFFICES ASSUME TreesOK, InputsOK', [CutNext]_cutVars
                 PROVE  IsTree(document, tree)'
      BY DEF TreesOK
    <2>1. ASSUME NEW n \in Nodes, FindNode(n)
          PROVE  IsTree(document, tree)'
      <3>1. /\ n.to <= Len(document) + 1 /\ IsSyntax(tree \cup {n})
            /\ tree' = tree \cup {n} /\ document' = document
        BY <2>1 DEF FindNode
      <3>2. n \in SyntaxNodes
        BY InputsAssumption DEF SyntaxNodes
      <3>3. /\ IsFiniteSet(tree) /\ tree \subseteq SyntaxNodes
            /\ \A m \in tree : m.to <= Len(document) + 1
        BY DEF TreesOK, IsTree
      <3>4. IsFiniteSet(tree \cup {n})
        BY <3>3, FS_AddElement
      <3>5. IsTree(document, tree \cup {n})
        BY <3>1, <3>2, <3>3, <3>4 DEF IsTree
      <3> QED
        BY <3>1, <3>5 DEF IsTree
    <2>2. ASSUME NEW size \in Sizes, WriteLine(size)
          PROVE  IsTree(document, tree)'
      BY <2>2 DEF WriteLine, TreesOK, IsTree
    <2>3. CASE UNCHANGED cutVars
      BY <2>3 DEF cutVars, TreesOK, IsTree
    <2> QED
      BY <2>1, <2>2, <2>3 DEF CutNext
  <1> QED
    BY <1>1, <1>2, InputsAreTexts, PTL DEF CutSpec

\* SemanticChunker::chunk leaves out no word but in short stretches between units,
\* whatever tree the parser builds.
THEOREM EveryTextIsCovered == CutSpec => []TextIsCovered
  <1>1. TreesOK => TextIsCovered
    BY AnyTextIsCovered DEF TreesOK, InputsOK, TextIsCovered
  <1> QED
    BY <1>1, TreesAreSyntax, PTL

\* Every chunk that is kept has its place in the hierarchy of its document.
THEOREM EveryChunkKeepsItsPlace == CutSpec => []ChunksKeepTheirPlace
  <1>1. TreesOK => ChunksKeepTheirPlace
    BY AnyChunksKeepTheirPlace DEF TreesOK, InputsOK, ChunksKeepTheirPlace
  <1> QED
    BY <1>1, TreesAreSyntax, PTL

===============================================================================
