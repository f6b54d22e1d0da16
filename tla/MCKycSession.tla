--------------------------- MODULE MCKycSession ---------------------------
(* Two operations at a time: a load against a load, or against a submission *)
EXTENDS KycSession
=============================================================================
