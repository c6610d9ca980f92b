----------------------------- MODULE MCArchivos -----------------------------
(***************************************************************************)
(* Small instances of Archivos for TLC.                                    *)
(***************************************************************************)
EXTENDS Archivos, TLC

\* The windows and the connections are interchangeable, and so are the texts.
Simetria ==
    Permutations(Con) \cup Permutations(Gestores) \cup Permutations(Textos)
=============================================================================
