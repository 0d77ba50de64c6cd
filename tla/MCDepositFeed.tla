---------------------------- MODULE MCDepositFeed ----------------------------
(***************************************************************************)
(* Two wallets, the first one also polled for the confirmed deposits of a  *)
(* transaction: its detected ones the scanner returns and the gateway      *)
(* leaves out; deposits to unknown addresses are of other transactions.    *)
(***************************************************************************)
EXTENDS DepositFeed

MCStreams ==
    {[wallet |-> "w1", filter |-> "all"], [wallet |-> "w2", filter |-> "all"],
     [wallet |-> "w1", filter |-> "tx_confirmed"]}
MCKinds == {"detected", "unknown"}
MCRegistered == {"detected"}
MCListed == [f \in {s.filter : s \in Streams} |-> IF f = "all" THEN Kinds ELSE {"detected"}]
MCMatches == [f \in {s.filter : s \in Streams} |-> IF f = "all" THEN Kinds ELSE {}]
=============================================================================
