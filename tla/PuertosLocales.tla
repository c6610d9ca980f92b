--------------------------- MODULE PuertosLocales ---------------------------
(***************************************************************************)
(* What the program promises of localhost:port, without saying how: each   *)
(* shared port is answered by the selected server if it has that tunnel,   *)
(* else by some connected server that has it; the selection only moves     *)
(* when the user moves it or the selected server goes away; and a port     *)
(* that is answered stays answered while anybody connected has it.         *)
(* Handlers, reservations, watchers, clocks and listeners are not here:    *)
(* Conexiones implements this.                                             *)
(***************************************************************************)
CONSTANTS Nombres, Puertos, Nadie

VARIABLES
    conectados,  \* servers connected
    tuneles,     \* ports each connected server offers
    destino,     \* the server selected for localhost, or Nadie
    atiende      \* the server that answers on each port, or Nadie

vars == <<conectados, tuneles, destino, atiende>>

\* The servers that may answer on a port.
permitidos(p) ==
    IF destino # Nadie /\ p \in tuneles[destino]
    THEN {destino}
    ELSE {n \in conectados : p \in tuneles[n]}

Init ==
    /\ conectados = {}
    /\ tuneles = [n \in Nombres |-> {}]
    /\ destino = Nadie
    /\ atiende = [p \in Puertos |-> Nadie]

\* Any step: whoever answers is allowed to, and no wanted port goes silent.
Atender ==
    \A p \in Puertos :
        /\ atiende'[p] \in permitidos(p)' \cup {Nadie}
        /\ atiende[p] # Nadie /\ permitidos(p)' # {} => atiende'[p] # Nadie

Conectar(n, T) ==
    /\ n \notin conectados
    /\ conectados' = conectados \cup {n}
    /\ tuneles' = [tuneles EXCEPT ![n] = T]
    /\ destino' = IF destino = Nadie THEN n ELSE destino
    /\ Atender

Desconectar(S) ==
    /\ S # {}
    /\ conectados' = conectados \ S
    /\ tuneles' = [n \in Nombres |-> IF n \in S THEN {} ELSE tuneles[n]]
    /\ IF destino \in S
       THEN IF conectados' = {} THEN destino' = Nadie ELSE destino' \in conectados'
       ELSE UNCHANGED destino
    /\ Atender

Elegir(n) ==
    /\ n \in conectados
    /\ destino' = n
    /\ UNCHANGED <<conectados, tuneles>>
    /\ Atender

Reintentar ==
    /\ UNCHANGED <<conectados, tuneles, destino>>
    /\ Atender

Next ==
    \/ \E n \in Nombres, T \in SUBSET Puertos : Conectar(n, T)
    \/ \E S \in SUBSET conectados : Desconectar(S)
    \/ \E n \in Nombres : Elegir(n)
    \/ Reintentar

Spec == Init /\ [][Next]_vars
=============================================================================
