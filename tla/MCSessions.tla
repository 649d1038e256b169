------------------------------ MODULE MCSessions ------------------------------
(* Small instances of Sessions for TLC. *)
EXTENDS Sessions, TLC

\* Ids drawn at random and requests are interchangeable.
Simetria == Permutations(Sesiones) \cup Permutations(Familias)
            \cup Permutations(Peticiones) \cup Permutations(Fichas)
=============================================================================
