-------------------------- MODULE MCTxHistorySync --------------------------
(* Bob, who has a local wallet, pays alice.  Alice, who has a device,      *)
(* moves a token, or publishes a contract with the same nonce.             *)
EXTENDS TxHistorySync, TLC

HistoryTxs == {"pay", "move", "publish"}
HistoryOwners == "pay" :> {"alice", "bob"} @@ [t \in HistoryTxs |-> {"alice"}]
HistorySender == "pay" :> "bob" @@ [t \in HistoryTxs |-> "alice"]
HistoryNonce == [t \in HistoryTxs |-> 0]
HistoryMatching == "publish" :> {} @@ [t \in HistoryTxs |-> {"alice"}]
=============================================================================
