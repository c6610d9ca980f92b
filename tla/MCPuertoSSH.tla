---------------------------- MODULE MCPuertoSSH ----------------------------
(***************************************************************************)
(* Small instances of PuertoSSH for TLC.                                   *)
(***************************************************************************)
EXTENDS PuertoSSH, TLC

\* Servers with and without the helpers of the flow.
EntornosMC == {[systemd |-> b, firewall |-> b] : b \in BOOLEAN}

\* A server with everything.
EntornoIdeal == {[systemd |-> TRUE, firewall |-> TRUE]}

Simetria ==
    Permutations(Puertos) \cup Permutations(Tokens) \cup Permutations(Tareas)
=============================================================================
