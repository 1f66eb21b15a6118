--------------------------- MODULE MCSearchService ---------------------------
(* A finite instance of the search service for TLC.                         *)
EXTENDS SearchService

FewPermits == [b \in Services |-> IF b = "qdrant" THEN 2 ELSE 1]
==============================================================================
