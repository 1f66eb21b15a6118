------------------------------- MODULE MCPacks -------------------------------
(* Finite instances of the pack store and of its files for TLC.             *)
(*                                                                          *)
(* The two specifications share no state: PackStore takes its files as whole,  *)
(* PackFiles shows why it may.  A behaviour of the instance is one of either,   *)
(* chosen at the start, so that the run explores each and not their product.   *)
EXTENDS PackStore, PackFiles, TLC

CONSTANTS p1, p2, p3, b1, b2, b3, c1, c2, f1, f2, n1, n2, n3

\* The specification that moves; the other stays as it was at the start.
VARIABLE part

StoreMoves == part = "store" /\ Next /\ UNCHANGED <<part, filesVars>>

FilesMove == part = "files" /\ FilesNext /\ UNCHANGED <<part, vars>>

MCPacksInit == Init /\ FilesInit /\ part \in {"store", "files"}

MCPacksSpec ==
    /\ MCPacksInit
    /\ [][StoreMoves \/ FilesMove]_<<part, vars, filesVars>>
    /\ Fairness
==============================================================================
