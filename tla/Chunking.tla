------------------------------ MODULE Chunking ------------------------------
(***************************************************************************)
(* What becomes of a document before it is embedded: the token windows, the   *)
(* chunks that follow the syntax tree, the text between them, the chunks of    *)
(* a conversation, and the limit per file (api/src/services/chunker/,          *)
(* api/src/services/index/chunk_limits.rs).                                   *)
(*                                                                          *)
(* A document is a sequence of characters of one byte; each word character is   *)
(* a token, which is what a tokenizer with exact offsets makes of separate      *)
(* words.  A span runs from its first position to the one after its last.       *)
(***************************************************************************)
EXTENDS Integers, FiniteSets, Sequences, SequencesExt

CONSTANTS
    MaxTokens,      \* the limit of the language
    Overlap,        \* tokens two windows share
    DefaultTokens,  \* the same where no unit is found: TokenChunker::default
    DefaultOverlap,
    MinGap,         \* text between units up to this length is left out
    TargetSize,     \* size a chunk of a conversation should have
    MinSize,        \* size below which such a chunk is not closed
    MaxChunks,      \* chunks of one file that are kept
    Documents,      \* the texts a file may have ...
    Nodes,          \* ... the nodes a parser may find in it ...
    Sizes,          \* ... and the messages a line of a conversation may hold
    MaxNodes,       \* bound: nodes of a tree
    MaxLines        \* bound: lines of a conversation

ASSUME ChunkingAssumption ==
    /\ MaxTokens \in Nat /\ Overlap \in 0 .. MaxTokens - 1
    /\ DefaultTokens \in Nat /\ DefaultOverlap \in 0 .. DefaultTokens - 1
    /\ MinGap \in Nat /\ TargetSize \in Nat /\ MaxChunks \in Nat \ {0}
    /\ MinSize \in 0 .. TargetSize \div 2
    /\ MaxNodes \in Nat /\ MaxLines \in Nat

VARIABLES
    document, \* the document at hand; empty if the file is a conversation
    tree,     \* what the parser found in the document
    dialogue  \* the conversation: lines of JSONL, or entries of Gemini's array

cutVars == <<document, tree, dialogue>>

Characters == {"word", "blank", "newline"}

Span(a, b) == [from |-> a, to |-> b]

Whole(text) == Span(1, Len(text) + 1)

Positions(span) == span.from .. span.to - 1

NewlinesIn(text, span) == Cardinality({i \in Positions(span) : text[i] = "newline"})

\* The line of a position, and the lines of a chunk that starts on a given one.
LineAt(text, p) == NewlinesIn(text, Span(1, p)) + 1

LinesFrom(text, line, span) == <<line, line + NewlinesIn(text, span)>>

TokensIn(text, span) == {i \in Positions(span) : text[i] = "word"}

\* The same in order.
TokensInOrder(text, span) ==
    LET read[i \in 0 .. Len(text)] ==
            IF i = 0 THEN <<>>
            ELSE IF i \in TokensIn(text, span) THEN Append(read[i - 1], i) ELSE read[i - 1]
    IN  read[Len(text)]

Earlier(a, b) == IF a < b THEN a ELSE b
Later(a, b) == IF a < b THEN b ELSE a

------------------------------------------------------------------------------
(* Windows.                                                                 *)

\* Windows of max tokens, each with overlap tokens of the one before; text that
\* is no token belongs to no window at its ends.
WindowsOver(tokens, max, overlap) ==
    LET n == Len(tokens)
        windows[t \in 0 .. n - 1] ==
            LET e == Earlier(t + max, n)
                window == Span(tokens[t + 1], tokens[e] + 1)
            IN  IF e = n THEN <<window>>
                ELSE <<window>> \o windows[Later(e - overlap, 0)]
    IN  IF n = 0 THEN <<>> ELSE windows[0]

\* TokenChunker::chunk.
TokenWindows(text, span, max, overlap) ==
    WindowsOver(TokensInOrder(text, span), max, overlap)

\* CharacterChunker::chunk: an overlap that would not let it advance is ignored.
CharacterWindows(text, max, overlap) ==
    LET n == Len(text)
        windows[s \in 0 .. n - 1] ==
            LET e == Earlier(s + max, n)
            IN  IF e = n THEN <<Span(s + 1, e + 1)>>
                ELSE <<Span(s + 1, e + 1)>> \o windows[Later(e - overlap, s + 1)]
    IN  IF n = 0 THEN <<>> ELSE windows[0]

------------------------------------------------------------------------------
(* Syntax trees: spans with a kind, of which any two are nested or apart.    *)

Encloses(m, n) == m # n /\ m.from <= n.from /\ n.to <= m.to

Apart(m, n) == m.to <= n.from \/ n.to <= m.from

IsSyntax(nodes) ==
    \A m, n \in nodes : m # n =>
        /\ Apart(m, n) \/ Encloses(m, n) \/ Encloses(n, m)
        /\ <<m.from, m.to>> # <<n.from, n.to>>

\* Classes, modules and types, which are searched for nested units.
Containers(nodes, n) == {m \in nodes : m.kind = "container" /\ Encloses(m, n)}

\* classify_node: imports, constants and the like count at the top level only.
Classified(nodes, n) ==
    \/ n.kind \in {"container", "function"}
    \/ n.kind = "declaration" /\ Containers(nodes, n) = {}

\* extract_units_recursive: a unit that is no container is not searched.
Units(nodes) ==
    {n \in nodes : /\ Classified(nodes, n)
                   /\ \A m \in nodes : Encloses(m, n) /\ Classified(nodes, m)
                                          => m.kind = "container"}

InOrder(m, n) == m.from < n.from \/ (m.from = n.from /\ m.to > n.to)

UnitsInOrder(nodes) ==
    CHOOSE q \in [1 .. Cardinality(Units(nodes)) -> Units(nodes)] :
        /\ ToSet(q) = Units(nodes)
        /\ \A i, j \in DOMAIN q : i < j => InOrder(q[i], q[j])

ParentOf(nodes, n) ==
    CHOOSE m \in Containers(nodes, n) : \A k \in Containers(nodes, n) : m = k \/ Encloses(k, m)

Level(nodes, n) ==
    IF n.kind = "function" /\ Containers(nodes, n) # {} THEN 2 ELSE 1

------------------------------------------------------------------------------
(* The chunks of a document.                                                *)

\* The pieces of a span: itself, or windows over it if it has too many tokens.
Pieces(text, span) ==
    IF Cardinality(TokensIn(text, span)) > MaxTokens
    THEN TokenWindows(text, span, MaxTokens, Overlap)
    ELSE <<span>>

\* Mutant: the index of the unit is taken for that of its chunk.
AddUnitByIndex(text, nodes, acc, u) ==
    LET span == Span(u.from, u.to)
        pieces == Pieces(text, span)
        first == Len(acc.chunks) + 1
        parent == IF Containers(nodes, u) = {} THEN 0
                  ELSE acc.at[ParentOf(nodes, u)]
        placed == [i \in DOMAIN pieces |->
                    [text |-> pieces[i], level |-> Level(nodes, u),
                     parent |-> IF i = 1 THEN parent ELSE first,
                     lines |-> LinesFrom(text, LineAt(text, pieces[i].from), pieces[i])]]
    IN  [chunks |-> acc.chunks \o placed,
         at |-> [acc.at EXCEPT ![u] =
                   Cardinality({m \in DOMAIN acc.at : acc.at[m] # 0}) + 1]]

\* One unit: its first chunk refers to the first chunk of its parent, the other
\* ones to its first.  Its windows are counted in lines from those of the unit.
AddUnit(text, nodes, acc, u) ==
    LET span == Span(u.from, u.to)
        pieces == Pieces(text, span)
        first == Len(acc.chunks) + 1
        parent == IF Containers(nodes, u) = {} THEN 0
                  ELSE acc.at[ParentOf(nodes, u)]
        placed == [i \in DOMAIN pieces |->
                    [text |-> pieces[i], level |-> Level(nodes, u),
                     parent |-> IF i = 1 THEN parent ELSE first,
                     lines |-> LinesFrom(text, LineAt(text, pieces[i].from), pieces[i])]]
    IN  [chunks |-> acc.chunks \o placed, at |-> [acc.at EXCEPT ![u] = first]]

\* One unit after the other.
UnitChunks(text, nodes) ==
    LET units == UnitsInOrder(nodes)
        cut[i \in 0 .. Len(units)] ==
            IF i = 0 THEN [chunks |-> <<>>, at |-> [n \in nodes |-> 0]]
            ELSE AddUnit(text, nodes, cut[i - 1], units[i])
    IN  cut[Len(units)].chunks

\* Mutant: the gap begins where the last unit ends, whatever encloses it.
AddGapAfterLast(acc, u) ==
    [gaps |-> IF u.from > acc.start THEN Append(acc.gaps, Span(acc.start, u.from))
              ELSE acc.gaps,
     start |-> u.to]

AddGap(acc, u) ==
    [gaps |-> IF u.from > acc.start THEN Append(acc.gaps, Span(acc.start, u.from))
              ELSE acc.gaps,
     start |-> Later(acc.start, u.to)]

\* What no unit covers, in order.
Gaps(text, nodes) ==
    LET units == UnitsInOrder(nodes)
        passed[i \in 0 .. Len(units)] ==
            IF i = 0 THEN [gaps |-> <<>>, start |-> 1]
            ELSE AddGap(passed[i - 1], units[i])
        acc == passed[Len(units)]
    IN  IF acc.start <= Len(text)
        THEN Append(acc.gaps, Span(acc.start, Len(text) + 1))
        ELSE acc.gaps

Trimmed(text, span) ==
    LET words == TokensIn(text, span)
    IN  IF words = {} THEN Span(span.from, span.from)
        ELSE Span(CHOOSE i \in words : \A k \in words : i <= k,
                  (CHOOSE i \in words : \A k \in words : i >= k) + 1)

\* The lines of a gap's chunk are those of the untrimmed gap, and those of its
\* windows are counted from the first of them.
GapChunks(text, gap) ==
    LET span == Trimmed(text, gap)
        pieces == Pieces(text, span)
        first == LineAt(text, gap.from)
        LinesOfPiece(p) ==
            IF p = span THEN LinesFrom(text, first, gap)
            ELSE LinesFrom(text, first + NewlinesIn(text, Span(span.from, p.from)), p)
    IN  IF span.to - span.from <= MinGap THEN <<>>
        ELSE [i \in DOMAIN pieces |->
                [text |-> pieces[i], level |-> 1, parent |-> 0,
                 lines |-> LinesOfPiece(pieces[i])]]

\* One gap after the other.
AllGapChunks(text, gaps) ==
    LET cut[i \in 0 .. Len(gaps)] ==
            IF i = 0 THEN <<>> ELSE cut[i - 1] \o GapChunks(text, gaps[i])
    IN  cut[Len(gaps)]

\* SemanticChunker::chunk: units, then gaps; windows where there is no unit.
SemanticChunks(text, nodes) ==
    LET windows == TokenWindows(text, Whole(text), DefaultTokens, DefaultOverlap)
    IN  IF UnitChunks(text, nodes) = <<>>
        THEN [i \in DOMAIN windows |->
                [text |-> windows[i], level |-> 2, parent |-> 0,
                 lines |-> LinesFrom(text, LineAt(text, windows[i].from), windows[i])]]
        ELSE UnitChunks(text, nodes) \o AllGapChunks(text, Gaps(text, nodes))

\* chunk_limits::enforce: the first ones are kept.
Kept(found) == SubSeq(found, 1, Earlier(MaxChunks, Len(found)))

------------------------------------------------------------------------------
(* Conversations: a sequence of lines of JSONL, or of entries of the array that  *)
(* Gemini writes, each the size of the message in it, or NoMessage.  A message    *)
(* is stored behind its role and between separators.                            *)

NoMessage == -1
RoleSize == 1
SeparatorSize == 1

OpenChunk(from) == [messages |-> <<>>, size |-> 0, from |-> from]

Closed(chunk, to) == [messages |-> chunk.messages, from |-> chunk.from, to |-> to]

\* Mutant: the line that did not fit ends the chunk it does not belong to.
AddLineLate(lines, acc, i) ==
    LET open == acc.open
        full == /\ open.messages # <<>>
                /\ open.size + lines[i] > TargetSize
                /\ open.size >= MinSize
        size == RoleSize + lines[i]
    IN  IF lines[i] = NoMessage THEN acc
        ELSE IF full
        THEN [chunks |-> Append(acc.chunks, Closed(open, i)),
              open |-> [messages |-> <<i>>, size |-> size, from |-> i]]
        ELSE [acc EXCEPT !.open =
                [messages |-> Append(open.messages, i), from |-> open.from,
                 size |-> open.size + size
                            + (IF open.messages = <<>> THEN 0 ELSE SeparatorSize)]]

\* One line: a message that would exceed the target begins a new chunk, unless
\* the open one is below the minimum.
AddLine(lines, acc, i) ==
    LET open == acc.open
        full == /\ open.messages # <<>>
                /\ open.size + lines[i] > TargetSize
                /\ open.size >= MinSize
        size == RoleSize + lines[i]
    IN  IF lines[i] = NoMessage THEN acc
        ELSE IF full
        THEN [chunks |-> Append(acc.chunks, Closed(open, i - 1)),
              open |-> [messages |-> <<i>>, size |-> size, from |-> i]]
        ELSE [acc EXCEPT !.open =
                [messages |-> Append(open.messages, i), from |-> open.from,
                 size |-> open.size + size
                            + (IF open.messages = <<>> THEN 0 ELSE SeparatorSize)]]

\* JsonlChunker::chunk, where the text is no conversation of Gemini's: one line after
\* the other, and what is open in the end.
ConversationChunks(lines) ==
    LET read[i \in 0 .. Len(lines)] ==
            IF i = 0 THEN [chunks |-> <<>>, open |-> OpenChunk(1)]
            ELSE AddLine(lines, read[i - 1], i)
        acc == read[Len(lines)]
    IN  IF acc.open.messages = <<>> THEN acc.chunks
        ELSE Append(acc.chunks, Closed(acc.open, Len(lines)))

\* Mutant: a chunk ends on the line before the next, whatever line it starts on.
GeminiChunksUncapped(entries, starts, estimate) ==
    LET found == ConversationChunks(entries)
        n == Len(found)
        From(k) == IF k = 1 THEN 1 ELSE starts[found[k].from]
        To(k) == IF k < n THEN From(k + 1) - 1 ELSE estimate
    IN  [k \in 1 .. n |->
            [messages |-> found[k].messages, from |-> From(k), to |-> To(k)]]

\* try_chunk_gemini_json, the first branch of JsonlChunker::chunk: the same loop over
\* the entries of one array.  Only the line an entry starts on is known, and the last
\* line of the text is an estimate from its length.  Where there is no message the
\* text is read as JSONL.
GeminiChunks(entries, starts, estimate) ==
    LET found == ConversationChunks(entries)
        n == Len(found)
        From(k) == IF k = 1 THEN 1 ELSE starts[found[k].from]
        To(k) == IF k < n THEN From(k + 1) - 1 ELSE estimate
    IN  [k \in 1 .. n |->
            [messages |-> found[k].messages, from |-> From(k), to |-> Later(To(k), From(k))]]

------------------------------------------------------------------------------
(* The files that are cut: a document, in which the parser finds one node after  *)
(* the other, or a conversation, which grows by lines.                          *)

\* No node is empty.
ASSUME InputsAssumption ==
    /\ Documents \subseteq Seq(Characters)
    /\ Nodes \subseteq {n \in [from : Nat \ {0}, to : Nat,
                              kind : {"container", "function", "declaration", "other"}] :
                           n.from < n.to}
    /\ Sizes \subseteq Nat \cup {NoMessage}

CutInit == document \in Documents /\ tree = {} /\ dialogue = <<>>

\* The tree may be any: what the grammar of a language makes of a text is its own.
FindNode(n) ==
    /\ n.to <= Len(document) + 1 /\ n \notin tree
    /\ Cardinality(tree) < MaxNodes
    /\ IsSyntax(tree \cup {n})
    /\ tree' = tree \cup {n}
    /\ UNCHANGED <<document, dialogue>>

WriteLine(size) ==
    /\ document = <<>>
    /\ Len(dialogue) < MaxLines
    /\ dialogue' = Append(dialogue, size)
    /\ UNCHANGED <<document, tree>>

CutNext == (\E n \in Nodes : FindNode(n)) \/ (\E size \in Sizes : WriteLine(size))

CutSpec == CutInit /\ [][CutNext]_cutVars

------------------------------------------------------------------------------
(* Properties.                                                              *)

\* The units a chunk is, or is a piece of.
CutFrom(text, units, c) ==
    {u \in units : c.text \in ToSet(Pieces(text, Span(u.from, u.to)))}

\* Every word is in a chunk, except where it stands in a short stretch between
\* units, and what is not cut from a unit lies outside of all of them.
Covered(text, nodes) ==
    LET found == SemanticChunks(text, nodes)
        units == Units(nodes)
        words == TokensIn(text, Whole(text))
        covered == UNION {Positions(found[k].text) : k \in DOMAIN found}
        outside == DOMAIN text \ UNION {Positions(u) : u \in units}
        Around(i) == {j \in words : Earlier(i, j) .. Later(i, j) \subseteq outside}
    IN  /\ \A i \in words \ covered :
              /\ units # {} /\ i \in outside
              /\ \A j, k \in Around(i) : k - j < MinGap
        /\ units # {} => \A k \in DOMAIN found :
              \/ Positions(found[k].text) \subseteq outside
              \/ CutFrom(text, units, found[k]) # {}

\* SemanticChunker::chunk leaves out no word but in short stretches between units,
\* and cuts nothing from across the edge of a unit, whatever tree the parser builds.
\* Nested units and units that touch are what its gap collector has to get right.
\* That is of the chunks it answers with: chunk_limits::enforce drops those beyond
\* the limit per file, and a container's chunk repeats the text of its methods, as
\* windows do what they share.
TextIsCovered == Covered(document, tree)

\* A parent is kept with its child and comes before it, it is a piece of the unit
\* itself or the beginning of the unit around it, and a method has one.
InPlace(text, nodes) ==
    LET found == Kept(SemanticChunks(text, nodes))
        units == Units(nodes)
        Of(k) == CutFrom(text, units, found[k])
    IN  \A k \in DOMAIN found :
          LET c == found[k]
          IN  /\ Cardinality(TokensIn(text, c.text))
                   <= IF units = {} THEN DefaultTokens ELSE MaxTokens
              /\ c.parent # 0 =>
                   /\ c.parent < k
                   /\ \E n \in Of(k), m \in Of(c.parent) :
                         m = n \/ (m \in Containers(nodes, n) /\ m = ParentOf(nodes, n))
              /\ c.level = 2 /\ units # {} => c.parent # 0
              /\ Of(k) # {} => c.lines =
                   <<LineAt(text, c.text.from), LineAt(text, c.text.to)>>

\* The hierarchy that is stored (parent_chunk_id) survives splitting and the
\* limit per file (SemanticChunker::chunk, chunk_limits::enforce); no kept chunk
\* exceeds the limit it was cut with, and the lines of a unit's chunk are those
\* its text is on.
ChunksKeepTheirPlace == InPlace(document, tree)

\* What messages take up without the separators between them.
SizeOf(lines, messages) ==
    LET sum[k \in 0 .. Len(messages)] ==
            IF k = 0 THEN 0 ELSE sum[k - 1] + RoleSize + lines[messages[k]]
    IN  sum[Len(messages)]

\* The messages of the lines from the one to the other, in order.
AreMessagesOf(lines, messages, from, to) ==
    /\ ToSet(messages) = {i \in from .. to : lines[i] # NoMessage}
    /\ \A j, k \in DOMAIN messages : j < k => messages[j] < messages[k]

\* Several messages are together because they fit, or were too few without the last.
Fit(lines, messages) ==
    Len(messages) > 1 =>
        \/ SizeOf(lines, messages) <= TargetSize + RoleSize + SeparatorSize
        \/ SizeOf(lines, messages) - lines[messages[Len(messages)]] <= MinSize

\* The chunks divide the lines among them, and each holds the messages of exactly
\* its lines: not fewer than fill the minimum, not more than fit into the target.
Tiled(lines) ==
    LET found == ConversationChunks(lines)
        n == Len(found)
    IN  /\ (\E i \in DOMAIN lines : lines[i] # NoMessage) =>
              n > 0 /\ found[1].from = 1 /\ found[n].to = Len(lines)
        /\ \A k \in 1 .. n - 1 :
              /\ found[k + 1].from = found[k].to + 1
              /\ SizeOf(lines, found[k].messages) + Len(found[k].messages) > MinSize
        /\ \A k \in 1 .. n :
              /\ AreMessagesOf(lines, found[k].messages, found[k].from, found[k].to)
              /\ Fit(lines, found[k].messages)

\* A conversation in JSONL is stored whole and in order, with the lines a hit is shown
\* with (the second branch of JsonlChunker::chunk).
ConversationsAreTiled == Tiled(dialogue)

\* Each message is in one chunk, in order, and not before the line the chunk starts
\* on; chunks overlap in no more than the line both start on; and a chunk that is not
\* the last reaches to where its messages start, or to the line before the next one
\* on which they do.
KeptWhole(entries, starts, estimate) ==
    LET found == GeminiChunks(entries, starts, estimate)
        n == Len(found)
        Of(k) == ToSet(found[k].messages)
    IN  /\ UNION {Of(k) : k \in 1 .. n} = {i \in DOMAIN entries : entries[i] # NoMessage}
        /\ \A k \in 1 .. n : /\ found[k].from <= found[k].to
                            /\ \A i \in Of(k) : found[k].from <= starts[i]
        /\ \A k \in 1 .. n - 1 :
              /\ \/ found[k].to < found[k + 1].from
                 \/ found[k].to = found[k].from /\ found[k].to = found[k + 1].from
              /\ \A i \in Of(k) :
                    /\ starts[i] <= found[k].to \/ starts[i] = found[k + 1].from
                    /\ \A j \in Of(k + 1) : i < j

\* A conversation of Gemini's is stored whole and in order, whether its array is on
\* one line, has a line for each entry or more, and whatever line its end is estimated
\* to be (try_chunk_gemini_json).  The last line of the last chunk means nothing.
GeminiIsKeptWhole ==
    \A spread \in 0 .. 2, estimate \in 0 .. 2 :
        KeptWhole(dialogue, [i \in DOMAIN dialogue |-> 1 + spread * i], estimate)

Advance(text, windows) ==
    /\ \A k \in 2 .. Len(windows) :
          /\ windows[k - 1].from < windows[k].from
          /\ windows[k].from <= windows[k - 1].to
          /\ windows[k - 1].to <= windows[k].to
    /\ UNION {Positions(windows[k]) : k \in DOMAIN windows} = DOMAIN text

\* However small the windows and large the overlap, the windows of a text advance
\* and leave nothing out (the guard against an endless loop in CharacterChunker).
WindowsAdvance ==
    \A max \in 1 .. 3, overlap \in 0 .. 3 :
        Advance(document, CharacterWindows(document, max, overlap))
=============================================================================
