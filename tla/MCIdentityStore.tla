-------------------------- MODULE MCIdentityStore --------------------------
(* Two wallets, and an attribute and a document that can be replaced.  The *)
(* wallets differ in nothing but their names.                              *)
EXTENDS IdentityStore, TLC

WalletSymmetry == Permutations(Wallets)
=============================================================================
