------------------------ MODULE MCRepositoryUpdate -------------------------
(* Two repositories that share two types: one publishes nothing, or both   *)
(* types, with the form for either; the other at most one type.            *)
EXTENDS RepositoryUpdate, TLC

CONSTANTS u, v

FormOrOne(url) ==
    {c \in Contents :
       \/ c = NoContent
       \/ url = u /\ DOMAIN c = Types /\ \E t \in Types : c[t] # NoForm
       \/ url = v /\ Cardinality(DOMAIN c) = 1 /\ \A t \in DOMAIN c : c[t] = NoForm}

Symmetric == Permutations(Types) \cup Permutations(Forms) \cup Permutations(Updates)
=============================================================================
