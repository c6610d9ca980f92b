----------------------------- MODULE MCPerfiles -----------------------------
(***************************************************************************)
(* Small instances of Perfiles for TLC.                                    *)
(***************************************************************************)
EXTENDS Perfiles, TLC

\* A backup from another computer: one profile and the file of its key.
PaquetesMC ==
    {[perfiles |-> [n \in Nombres |->
          IF n = m THEN [host |-> s, huella |-> <<s, 0>>, key |-> r]
          ELSE Ninguno],
      keys |-> [q \in Rutas |-> IF q = r THEN Propia ELSE Ninguno]] :
        m \in Nombres, s \in Hosts, r \in {Local}}

SinPaquetes == {}

Simetria == Permutations(Nombres) \cup Permutations(Hosts) \cup Permutations(Tareas)
=============================================================================
