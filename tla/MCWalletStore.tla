--------------------------- MODULE MCWalletStore ---------------------------
(* An account with a key and one on a device, of either kind.              *)
EXTENDS WalletStore
=============================================================================
