---------------------------- MODULE MCWebLocal -----------------------------
(***************************************************************************)
(* A small instance of WebLocal for TLC.                                   *)
(***************************************************************************)
EXTENDS WebLocal
=============================================================================
