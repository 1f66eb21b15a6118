------------------------------ MODULE MCIndexing ------------------------------
(* The legacy index with the functions that cut its texts, on small inputs.  The *)
(* two share no state: one moves only while the other has not moved yet, which   *)
(* reaches every state of either.                                              *)
EXTENDS MCLegacyIndex, Chunking

\* A conversation, words alone, words on lines of their own, and a document with
\* blanks at its ends.
MCDocuments ==
    LET w == "word"  b == "blank"  l == "newline"
    IN  {<<>>, <<w, w, w, w, w, w, w, w>>, <<w, l, w, l, w, l, w, w>>,
         <<b, w, w, l, l, w, b, l>>}

\* Nodes with boundaries at every other character.
MCNodes ==
    {n \in [from : {1, 3, 5, 7}, to : {3, 5, 7, 9},
            kind : {"container", "function", "declaration", "other"}] : n.from < n.to}

MCSizes == {NoMessage, 0, 1, 3, 6}

MCInit == Init /\ CutInit
IndexStep == CutInit /\ document = <<>> /\ Next /\ UNCHANGED cutVars
CutStep == Init /\ CutNext /\ UNCHANGED vars
MCSpec == MCInit /\ [][IndexStep \/ CutStep]_<<vars, cutVars>>
==============================================================================
