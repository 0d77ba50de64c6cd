--------------------------- MODULE MCAddressLedger ---------------------------
(* Small instances of AddressLedger.                                        *)
EXTENDS AddressLedger, TLC

Symmetry ==
    Permutations(Handlers) \cup Permutations(Admins) \cup Permutations(Attempts)
    \cup Permutations(Wallets)
=============================================================================
