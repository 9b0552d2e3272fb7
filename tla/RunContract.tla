---------------------------- MODULE RunContract ----------------------------
(***************************************************************************)
(* What orchestrator.Run promises the command that called it, without its  *)
(* goroutines and its channel: work finishes, a finished unit is counted   *)
(* at most once, a failed one may be blamed, and Run returns only when     *)
(* every unit whose reporting is reliable has been accounted for.  After   *)
(* that nothing changes.                                                   *)
(***************************************************************************)
EXTENDS Naturals

CONSTANTS Units, Reliable

VARIABLES outcome, tally, errs, returned
vars == <<outcome, tally, errs, returned>>

Init ==
    /\ outcome = [u \in Units |-> "pending"]
    /\ tally = [u \in Units |-> 0]
    /\ errs = [u \in Units |-> 0]
    /\ returned = FALSE

\* Some pending units finish.
Finish ==
    /\ ~returned
    /\ outcome' \in [Units -> {"pending", "ok", "failed"}]
    /\ \A u \in Units : outcome[u] \in {"pending", outcome'[u]}
    /\ UNCHANGED <<tally, errs, returned>>

Count(u) ==
    /\ ~returned
    /\ outcome[u] # "pending" /\ tally[u] = 0
    /\ tally' = [tally EXCEPT ![u] = 1]
    /\ UNCHANGED <<outcome, errs, returned>>

Blame(u) ==
    /\ ~returned
    /\ outcome[u] = "failed"
    /\ errs' = [errs EXCEPT ![u] = @ + 1]
    /\ UNCHANGED <<outcome, tally, returned>>

Settled(u) == /\ outcome[u] = "ok" => tally[u] = 1
              /\ outcome[u] = "failed" => errs[u] >= 1

Return ==
    /\ ~returned
    /\ \A u \in Reliable : Settled(u)
    /\ returned' = TRUE
    /\ UNCHANGED <<outcome, tally, errs>>

Next == \/ Finish
        \/ \E u \in Units : Count(u) \/ Blame(u)
        \/ Return

Spec == Init /\ [][Next]_vars
=============================================================================
