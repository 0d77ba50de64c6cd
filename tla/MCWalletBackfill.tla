--------------------------- MODULE MCWalletBackfill ---------------------------
(***************************************************************************)
(* Two wallets with different birthdays for TLC.                           *)
(***************************************************************************)
EXTENDS WalletBackfill

MCBirthday == <<1, 2>>
=============================================================================
