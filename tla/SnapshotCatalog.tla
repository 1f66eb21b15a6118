--------------------------- MODULE SnapshotCatalog ---------------------------
(***************************************************************************)
(* What storage v2 promises its readers: a source is a history of immutable   *)
(* snapshots numbered in increasing order, each appended above all earlier    *)
(* ones, and a pointer that names one of them.  Pointers of several sources   *)
(* move together or not at all.  Nothing removes or alters a snapshot.        *)
(***************************************************************************)
EXTENDS Naturals

CONSTANTS
    Sources,
    Versions,   \* what a snapshot is a set of
    MaxSeq      \* bound on snapshot numbers

Numbers == 1 .. MaxSeq
None == 0

VARIABLES
    history,    \* history[s][n] is snapshot n of source s, where it exists
    current     \* the snapshot readers of each source see, or None

catalogVars == <<history, current>>

CatalogInit ==
    /\ history = [s \in Sources |-> [n \in {} |-> {}]]
    /\ current = [s \in Sources |-> None]

Append(s, n, V) ==
    /\ \A k \in DOMAIN history[s] : k < n
    /\ history' = [history EXCEPT ![s] =
                     [k \in DOMAIN @ \cup {n} |-> IF k = n THEN V ELSE @[k]]]
    /\ UNCHANGED current

Switch ==
    /\ \A s \in Sources : \/ current'[s] = current[s]
                          \/ current'[s] \in DOMAIN history[s]
    /\ current' \in [Sources -> Numbers \cup {None}]
    /\ UNCHANGED history

\* Snapshots may hold any set of versions, so the step says which one it was.
CatalogNext ==
    \/ \E s \in Sources, n \in Numbers :
          n \in DOMAIN history'[s] /\ Append(s, n, history'[s][n])
    \/ Switch

CatalogSpec == CatalogInit /\ [][CatalogNext]_catalogVars
==============================================================================
