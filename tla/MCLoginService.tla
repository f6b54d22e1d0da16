--------------------------- MODULE MCLoginService --------------------------
(* Two connections and a wallet, asked for three times.                    *)
EXTENDS LoginService
=============================================================================
