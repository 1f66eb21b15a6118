----------------------------- MODULE MCPackStore -----------------------------
(* Finite instances of the pack store for TLC.                              *)
EXTENDS PackStore, TLC

CONSTANTS p1, p2, p3, b1, b2, b3, c1, c2
==============================================================================
