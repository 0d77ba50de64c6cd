--------------------------- MODULE MCCoordinator ----------------------------
(* Small instances of Coordinator: requests under two keys of one wallet.   *)
EXTENDS Coordinator, TLC

CONSTANTS w1, k1, k2, d1, d2

MCRequests == {[key |-> k1, digest |-> d1, wallet |-> w1],
               [key |-> k1, digest |-> d2, wallet |-> w1],
               [key |-> k2, digest |-> d1, wallet |-> w1]}

MCNoteWallet == [n \in Notes |-> w1]

Symmetry == Permutations(Attempts) \cup Permutations(Notes) \cup Permutations(Workers)
=============================================================================
