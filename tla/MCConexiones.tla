--------------------------- MODULE MCConexiones ---------------------------
(***************************************************************************)
(* Small instances of Conexiones for TLC.                                  *)
(***************************************************************************)
EXTENDS Conexiones, TLC

CONSTANTS n1, n2, n3

\* Names told apart by the tie-breaking rule ...
OrdenDistinto ==
    [n \in Nombres |-> IF n = n1 THEN 1 ELSE IF n = n2 THEN 2 ELSE 3]
\* ... and two that only differ in case, so that a tie stays a tie.
OrdenEmpate == [n \in Nombres |-> IF n = n3 THEN 2 ELSE 1]

\* Conexion objects and handlers are interchangeable.
Simetria == Permutations(Con) \cup Permutations(Peticiones) \cup Permutations(Puertos)
===========================================================================
