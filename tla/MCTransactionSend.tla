------------------------- MODULE MCTransactionSend -------------------------
(* Instances of TransactionSend: one payment that may be sent twice, two fee*)
(* computations that may overlap, and two wallets, one of them with nonces  *)
(* used up before.                                                          *)
EXTENDS TransactionSend, TLC

CONSTANTS a1, a2
MCAccounts == {a1, a2}
MCInitCount == (a1 :> 1) @@ (a2 :> 0)
=============================================================================
