-------------------------- MODULE MCMonitorizacion --------------------------
(***************************************************************************)
(* Small instances of Monitorizacion for TLC.                              *)
(***************************************************************************)
EXTENDS Monitorizacion, TLC

CONSTANTS sm, sa, sb

OrdenMC == [n \in Servidores |-> IF n = sb THEN 1 ELSE IF n = sm THEN 2 ELSE 3]
TiposMC == [n \in Servidores |-> IF n = sb THEN {"linux", "mikrotik"} ELSE {"linux"}]
DeseosMC == {{}, {sa, sb}}
Simetria == Permutations(Peticiones)
\* One range, whose first port is that of the agent.
RangoMC == Agente .. Agente + 1
RangosMC == {RangoMC}

\* Every property is void from the first deviation on, so none is lost by not
\* looking further.
SinDesvio == ~desviado

\* One monitor at a time is worked on, or keeps anything: the user may choose
\* another under a handler at work, which goes on with the first.
UnMonitor ==
    \E m \in Monitores : \A o \in Monitores \ {m} :
        /\ o \notin pendiente /\ prometheus[o] = Vacio /\ unidades[o] = Vacio
        /\ \A q \in Peticiones :
              peticion[q].paso \notin {"libre", "config"} => peticion[q].cfg.monitor # o
=============================================================================
