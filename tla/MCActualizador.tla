--------------------------- MODULE MCActualizador ---------------------------
(***************************************************************************)
(* Small instances of Actualizador for TLC.                                *)
(***************************************************************************)
EXTENDS Actualizador, TLC

VersionesMC == 1 .. 2
Simetria == Permutations(Aplicaciones) \cup Permutations(Ayudantes)
              \cup Permutations(Peticiones)
=============================================================================
