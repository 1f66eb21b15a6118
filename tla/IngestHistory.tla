----------------------------- MODULE IngestHistory -----------------------------
(***************************************************************************)
(* The ingest protocol with a history of the disk, to say how old the content *)
(* is that a pointer moves to.  The disk is observed before the transaction    *)
(* that moves the pointer, by sessions (commit_active_source) and by operators *)
(* (activation-set.py) who know nothing of each other.                       *)
(***************************************************************************)
EXTENDS IngestProtocol

VARIABLE seen  \* what each disk has held since the source's pointer was set

historyVars == <<vars, seen>>

HistoryInit ==
    /\ Init
    /\ seen = [s \in Sources |-> {disk[s]}]

HistoryNext ==
    /\ Next
    /\ seen' = [s \in Sources |->
                  {disk'[s]} \cup (IF pointer'[s] = pointer[s] THEN seen[s] ELSE {})]

HistorySpec == HistoryInit /\ [][HistoryNext]_historyVars

HistoryFairSpec == HistorySpec /\ Fairness

\* What a pointer moves to is never older than what it replaces: a source is not
\* taken back to content that had already left its disk when the replaced generation
\* became active, although the observation, the build and the activation are separate
\* transactions of requests and plans that overtake one another
\* (storage_v2_activate_regular_ingest, storage_v2_activate_candidate_set: the pointer
\* that was observed is compared once more).
PublishesNothingOlder ==
    [][\A s \in Sources : pointer'[s] # pointer[s]
          => {v[1] : v \in Visible(s, pointer'[s])} \in seen[s]]_historyVars
==============================================================================
