---------------------------- MODULE AttemptStates ----------------------------
(***************************************************************************)
(* The states of a transaction attempt and the transitions the store       *)
(* accepts (internal/storage/sqlite/attempts.go).                          *)
(***************************************************************************)

Unsigned   == {"planning", "reserved"}
SignStates == {"reserved", "signing", "signing_unknown"}
PostSigned == {"signed", "broadcast", "mined", "orphaned",
               "expired_pending_reconciliation"}
Terminal   == {"cancelled", "failed_unsigned", "released", "final"}
Live       == {"planning"} \cup SignStates \cup PostSigned
Holding    == SignStates \cup PostSigned   \* states in which notes are reserved
States     == {"none"} \cup Live \cup Terminal

terminalAttemptState(s) == s \in Terminal
recoverableState(s)     == s \in Live

allowedAttemptTransition(current, next) ==
    \/ current = next
    \/ /\ ~terminalAttemptState(current)
       /\ \/ current = "planning" /\ next \in {"reserved", "failed_unsigned"}
          \/ current = "reserved" /\ next \in {"signing", "failed_unsigned"}
          \/ /\ current = "signing"
             /\ next \in {"reserved", "signing_unknown", "signed", "failed_unsigned"}
          \/ current = "signing_unknown" /\ next \in {"signing", "signed"}
          \/ /\ current \in PostSigned
             /\ next \in (PostSigned \ {"signed"}) \cup {"final", "released"}

safeReservationReleaseTransition(current, next) ==
    \/ next = "failed_unsigned" /\ current \in {"planning", "reserved", "signing"}
    \/ next \in {"final", "released"} /\ current \in PostSigned \cup {next}
=============================================================================
