----------------------------- MODULE NoteLedger -----------------------------
(***************************************************************************)
(* What the coordinator promises about notes, without workers, queues,     *)
(* signers or rows: an attempt takes all its notes in one step, from       *)
(* nobody, keeps exactly those, and gives all of them back in one step,    *)
(* after which it never takes a note again.  A lost database forgets every *)
(* reservation, and with it every attempt that held one.                   *)
(* Coordinator is shown to implement this.                                 *)
(***************************************************************************)
CONSTANTS Attempts, Notes, Nobody

VARIABLES
    owner, \* the attempt that holds a note, or Nobody
    phase  \* of an attempt: before, while or after it holds notes

Init ==
    /\ owner = [n \in Notes |-> Nobody]
    /\ phase = [a \in Attempts |-> "open"]

Reserve(a) ==
    /\ phase[a] = "open"
    /\ \E notes \in (SUBSET Notes) \ {{}} :
          /\ \A n \in notes : owner[n] = Nobody
          /\ owner' = [n \in Notes |-> IF n \in notes THEN a ELSE owner[n]]
    /\ phase' = [phase EXCEPT ![a] = "holding"]

Settle(a) ==
    /\ phase[a] = "holding"
    /\ owner' = [n \in Notes |-> IF owner[n] = a THEN Nobody ELSE owner[n]]
    /\ phase' = [phase EXCEPT ![a] = "closed"]

Abandon(a) ==
    /\ phase[a] = "open"
    /\ phase' = [phase EXCEPT ![a] = "closed"]
    /\ UNCHANGED owner

Forget ==
    /\ owner' = [n \in Notes |-> Nobody]
    /\ \E forgotten \in SUBSET Attempts :
          /\ \A a \in Attempts : phase[a] = "holding" => a \in forgotten
          /\ phase' = [a \in Attempts |-> IF a \in forgotten THEN "closed" ELSE phase[a]]

Next == Forget \/ \E a \in Attempts : Reserve(a) \/ Settle(a) \/ Abandon(a)

Spec == Init /\ [][Next]_<<owner, phase>>
=============================================================================
