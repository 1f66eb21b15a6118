---------------------------- MODULE PackDirectory ----------------------------
(***************************************************************************)
(* What the rest of the store may take for granted of a directory of pack    *)
(* files: a file appears and disappears as a whole, one that the catalogue     *)
(* records stays, and one whose removal is accounted for does not come back,    *)
(* whenever the machine stops.                                                *)
(***************************************************************************)
CONSTANT Packs

VARIABLES
    file,      \* "none" or "whole", for each pack
    status,    \* content_pack.status
    receipts   \* packs with a removal receipt

Init ==
    /\ file = [p \in Packs |-> "none"]
    /\ status = [p \in Packs |-> "absent"]
    /\ receipts = {}

Appear(p) ==
    /\ status[p] = "absent"
    /\ file' = [file EXCEPT ![p] = "whole"]
    /\ UNCHANGED <<status, receipts>>

Record(p) ==
    /\ status[p] = "absent" /\ file[p] = "whole"
    /\ status' = [status EXCEPT ![p] = "published"]
    /\ UNCHANGED <<file, receipts>>

PermitRemoval(p) ==
    /\ status[p] = "published"
    /\ status' = [status EXCEPT ![p] = "reclaimed"]
    /\ UNCHANGED <<file, receipts>>

Vanish(p) ==
    /\ status[p] = "reclaimed"
    /\ file' = [file EXCEPT ![p] = "none"]
    /\ UNCHANGED <<status, receipts>>

Account(p) ==
    /\ status[p] = "reclaimed" /\ file[p] = "none"
    /\ receipts' = receipts \cup {p}
    /\ UNCHANGED <<file, status>>

\* The power fails: what is neither recorded nor accounted for may be undone.
LosePower ==
    /\ file' \in [Packs -> {"none", "whole"}]
    /\ \A p \in Packs : status[p] = "published" \/ p \in receipts => file'[p] = file[p]
    /\ UNCHANGED <<status, receipts>>

Next ==
    \/ \E p \in Packs : Appear(p) \/ Record(p) \/ PermitRemoval(p) \/ Vanish(p) \/ Account(p)
    \/ LosePower

DirectorySpec == Init /\ [][Next]_<<file, status, receipts>>
==============================================================================
