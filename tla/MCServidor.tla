----------------------------- MODULE MCServidor -----------------------------
(***************************************************************************)
(* Small instances of Servidor for TLC.                                    *)
(***************************************************************************)
EXTENDS Servidor, TLC

\* Servers where hardening does what it should, where it shuts the key out,
\* and where a Match block goes on accepting passwords.
EntornosMC ==
    {[backend |-> "ufw", llave |-> Modos, acepta |-> {"previo", "clave"},
      root |-> FALSE],
     [backend |-> "firewalld", llave |-> {"previo", "clave"},
      acepta |-> {"previo", "clave"}, root |-> FALSE],
     [backend |-> "firewalld", llave |-> Modos,
      acepta |-> {"previo", "clave", "segura"}, root |-> FALSE],
     [backend |-> "nftables", llave |-> Modos, acepta |-> {"previo"},
      root |-> TRUE]}

EntornosNft ==
    {[backend |-> "nftables", llave |-> Modos, acepta |-> {}, root |-> TRUE]}

\* The firewall is followed on servers not hardened yet: of sshd it only looks
\* at the ports, which hardening leaves alone, and of the firewall hardening
\* only sees connections that fail, which may happen anyway.
SinMezcla ==
    \/ candado = Ninguno
    \/ /\ \A h \in Endurecen : tarea[h].paso = "libre"
       /\ \A q \in Quiere : sshd.bak[q] = Ninguno

\* The properties are void for a handler of hardening from the moment another
\* flow crosses it, and for the firewall once a crossed handler went back.
SinCruces == ~viejo /\ cruzados \cap Endurecen = {}

Simetria == Permutations(Puertos) \cup Permutations(Endurecen) \cup
            Permutations(Cortan)
=============================================================================
