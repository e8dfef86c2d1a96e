---------------------------- MODULE ResultLedger ----------------------------
(* What an official run promises of its results, however often its process   *)
(* is killed and started again: a result that is saved stays, a result that  *)
(* is published was saved and stays published, and a run is only called      *)
(* complete when every task has its result published.                        *)
CONSTANTS
    Tasks,
    Null

VARIABLES
    saved,      \* the result of each task, or Null
    published,  \* the results that are published
    status      \* "open", "complete" or "paused"

ledger == <<saved, published, status>>

Entries == {[index |-> i, res |-> saved[i]] : i \in {j \in Tasks : saved[j] # Null}}

Init ==
    /\ saved = [i \in Tasks |-> Null]
    /\ published = {}
    /\ status = "open"

Save(i, r) ==
    /\ saved[i] = Null
    /\ r # Null
    /\ saved' = [saved EXCEPT ![i] = r]
    /\ UNCHANGED <<published, status>>

Publish ==
    /\ published \subseteq published'
    /\ published' \subseteq Entries
    /\ UNCHANGED <<saved, status>>

Conclude ==
    /\ status' \in {"open", "complete", "paused"}
    /\ status' = "complete" =>
          /\ \A i \in Tasks : saved[i] # Null
          /\ published = Entries
    /\ UNCHANGED <<saved, published>>

Next ==
    \/ \E i \in Tasks : saved'[i] # Null /\ Save(i, saved'[i])
    \/ Publish
    \/ Conclude

Spec == Init /\ [][Next]_ledger
=============================================================================
