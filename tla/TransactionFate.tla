--------------------------- MODULE TransactionFate ---------------------------
(***************************************************************************)
(* What the coordinator promises about a signed transaction: the chain     *)
(* decides its fate once and for all, the attempt is tracked meanwhile,    *)
(* and it ends as final or released only after the chain has decided so.   *)
(* Coordinator relies on this; Settlement shows that reconcileAttempt      *)
(* keeps it.                                                               *)
(***************************************************************************)
EXTENDS AttemptStates

VARIABLES state, fate

Init == state = "signed" /\ fate = "open"

\* The transaction is buried in the chain, or can never be mined any more.
Decides ==
    /\ fate = "open"
    /\ fate' \in {"final", "dead"}
    /\ UNCHANGED state

Tracks ==
    /\ state \in PostSigned
    /\ state' \in PostSigned \ {"signed"}
    /\ UNCHANGED fate

Settles ==
    /\ state \in PostSigned
    /\ \/ fate = "final" /\ state' = "final"
       \/ fate = "dead" /\ state' = "released"
    /\ UNCHANGED fate

Next == Decides \/ Tracks \/ Settles

Spec == Init /\ [][Next]_<<state, fate>>
=============================================================================
