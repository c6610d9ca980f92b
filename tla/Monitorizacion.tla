--------------------------- MODULE Monitorizacion ---------------------------
(***************************************************************************)
(* Monitoring (conectar-gateway/monitoring.go): the configuration kept in  *)
(* monitoring.enc, the tunnels that the monitor server keeps as systemd    *)
(* units, and the list of targets of its Prometheus.                       *)
(*                                                                         *)
(* Nothing locks the three.  A handler loads the configuration, works on   *)
(* several machines for minutes and saves its copy, so every remote        *)
(* command, every load and every save is a step of its own.  A port 0 is   *)
(* "none"; the monitor reaches its own agent without a tunnel, on 9100.    *)
(***************************************************************************)
EXTENDS Naturals, FiniteSets, FiniteSetsExt

CONSTANTS
    Servidores,  \* names of profiles; safeUnit tells them apart
    Orden,       \* their alphabetical order
    Monitores,   \* the servers the user may choose as monitor
    Rangos,      \* the ranges PortStart .. PortEnd the user may choose
    RangoInicial, \* the one of monitoringDefault
    Tipos,       \* the kinds the profile of a name may have, see Tipo
    Deseos,      \* the selections the user may apply
    Peticiones,  \* handlers
    Nadie        \* no server

Agente == 9100

\* Any port from 1024 on may be in a range, that of the agent too.
ASSUME RangosAssumption ==
    /\ Rangos \subseteq SUBSET (Nat \ {0})
    /\ RangoInicial \in Rangos
ASSUME ServidoresAssumption ==
    /\ Monitores \subseteq Servidores
    /\ Nadie \notin Servidores
ASSUME OrdenAssumption == Orden \in [Servidores -> Nat]

\* "ninguno" is a name without a profile.
Tipo == {"linux", "mikrotik", "ninguno"}
ASSUME TiposAssumption == Tipos \in [Servidores -> SUBSET Tipo]
ASSUME DeseosAssumption == Deseos \subseteq SUBSET Servidores

VARIABLES
    tipo,        \* conexiones.json: the kind of each profile
    cfg,         \* monitoring.enc
    unidades,    \* the port of each tunnel unit on each monitor
    prometheus,  \* the port each monitor's Prometheus scrapes for a server
    peticion,    \* handlers
    desviado,    \* history: something went wrong that the code does not mend
    pendiente    \* history: monitors whose Prometheus waits for the next regeneration

vars == <<tipo, cfg, unidades, prometheus, peticion, desviado, pendiente>>

Puertos == UNION Rangos
Locales == Puertos \cup {0, Agente}
SinTarget == [tipo |-> "ninguno", puerto |-> 0]
Target == [tipo : Tipo, puerto : Locales]
Config == [monitor : Monitores \cup {Nadie}, preparado : BOOLEAN, rango : Rangos,
           targets : [Servidores -> Target]]
Defecto == [monitor |-> Nadie, preparado |-> FALSE, rango |-> RangoInicial,
            targets |-> [n \in Servidores |-> SinTarget]]

Pasos == {"libre", "config", "configurar", "verificar", "bucle", "quitado",
          "mirado", "visto", "datos", "tunel", "apuntar", "regenerar"}
\* cfg is the copy of the handler, fiel whether nobody saved another since;
\* quitar and poner what is left to do, n and puerto what it is doing; tipo is
\* the kind of the profile when its data were read.
Libre == [paso |-> "libre", cfg |-> Defecto, fiel |-> FALSE, quitar |-> {},
          poner |-> {}, n |-> Nadie, tipo |-> "ninguno", puerto |-> 0,
          necesita |-> FALSE]
Peticion == [paso : Pasos, cfg : Config, fiel : BOOLEAN,
             quitar : SUBSET Servidores, poner : SUBSET Servidores,
             n : Servidores \cup {Nadie}, tipo : Tipo,
             puerto : Puertos \cup {0}, necesita : BOOLEAN]

conTargets(c) == {n \in Servidores : c.targets[n] # SinTarget}
linux(c) == {n \in Servidores : c.targets[n].tipo = "linux"}
conTunel(c, n) == c.targets[n].puerto # 0 /\ n # c.monitor

\* The file that monitoringRegenerarPrometheus writes.
Vacio == [n \in Servidores |-> 0]
mapa(c) == [n \in Servidores |-> IF n \in linux(c) THEN c.targets[n].puerto ELSE 0]

-----------------------------------------------------------------------------
(* What the steps of the handlers are made of.                             *)

\* A target whose profile changed kind; its tunnel is neither made nor removed.
retipado(q, c) ==
    \E n \in conTargets(c) \cap conTargets(peticion[q].cfg) :
        c.targets[n].tipo # peticion[q].cfg.targets[n].tipo

\* The save of c by q, which goes on as p: the copies of others are old now.
guardar(q, c, p) ==
    /\ cfg' = c
    /\ peticion' = [x \in Peticiones |->
                       IF x = q THEN p ELSE [peticion[x] EXCEPT !.fiel = FALSE]]
    /\ desviado' = (desviado \/ ~peticion[q].fiel \/ retipado(q, c))

\* A save that fails leaves the file as it was, or empty.
guardarFalla(q, p) ==
    /\ cfg' \in {cfg, Defecto}
    /\ peticion' = [x \in Peticiones |->
                       IF x = q THEN p ELSE [peticion[x] EXCEPT !.fiel = FALSE]]
    /\ desviado' = TRUE

\* The monitor whose Prometheus a handler still has to regenerate: if the
\* handler goes no further, it waits for another.
atrasa(p) ==
    IF p.necesita \/ p.paso = "regenerar" THEN {p.cfg.monitor} \ {Nadie} ELSE {}

seguir(q, p) == peticion' = [peticion EXCEPT ![q] = p]

\* The name that comes next: all removals are done before.
siguiente(q) ==
    LET p == peticion[q] IN
    CHOOSE n \in p.poner : \A o \in p.poner : Orden[n] <= Orden[o]
poniendo(q) ==
    /\ peticion[q].paso = "bucle"
    /\ peticion[q].quitar = {}
    /\ peticion[q].poner # {}

\* Mutant: only the ports that are listened on are passed over.
ocupadosSoloOidos(c, oidos) == oidos

\* Ports on which something may listen on the monitor m: the ssh of any unit and
\* the agent may be down when they are looked at.
oibles(m) == {unidades[m][n] : n \in Servidores} \cup {Agente}

\* Ports that monitoringPuertoLibre passes over: those of the copy, and those
\* on which something listens on the monitor (oidos).
ocupados(c, oidos) == {c.targets[n].puerto : n \in conTargets(c)} \cup oidos

Init ==
    /\ tipo \in {f \in [Servidores -> Tipo] : \A n \in Servidores : f[n] \in Tipos[n]}
    /\ cfg = Defecto
    /\ unidades = [m \in Monitores |-> Vacio]
    /\ prometheus = [m \in Monitores |-> Vacio]
    /\ peticion = [q \in Peticiones |-> Libre]
    /\ desviado = FALSE
    /\ pendiente = {}

-----------------------------------------------------------------------------
(* manejarMonitoringConfig and manejarMonitoringPreparar.                  *)

ConfigLeer(q, m, r) ==
    /\ peticion[q].paso = "libre"
    /\ cfg.monitor \in {Nadie, m} \/ conTargets(cfg) = {}
    /\ seguir(q, [Libre EXCEPT !.paso = "config", !.fiel = TRUE,
                               !.cfg = [cfg EXCEPT !.monitor = m, !.rango = r]])
    /\ UNCHANGED <<tipo, cfg, unidades, prometheus, desviado, pendiente>>

ConfigGuardar(q) ==
    /\ peticion[q].paso = "config"
    /\ \/ guardar(q, peticion[q].cfg, Libre)
       \/ guardarFalla(q, Libre)
    /\ UNCHANGED <<tipo, unidades, prometheus, pendiente>>

PrepararLeer(q) ==
    /\ peticion[q].paso = "libre"
    /\ cfg.monitor # Nadie
    /\ seguir(q, [Libre EXCEPT !.paso = "configurar", !.fiel = TRUE, !.cfg = cfg])
    /\ UNCHANGED <<tipo, cfg, unidades, prometheus, desviado, pendiente>>

\* The script writes a prometheus.yml without targets; it may fail after that.
PrepararConfigurar(q) ==
    LET m == peticion[q].cfg.monitor IN
    /\ peticion[q].paso = "configurar"
    /\ prometheus' = [prometheus EXCEPT ![m] = Vacio]
    /\ pendiente' = pendiente \cup {m}
    /\ \/ seguir(q, [peticion[q] EXCEPT !.paso = "verificar"])
       \/ seguir(q, Libre)
    /\ UNCHANGED <<tipo, cfg, unidades, desviado>>

PrepararGuardar(q) ==
    /\ peticion[q].paso = "verificar"
    /\ \/ guardar(q, [peticion[q].cfg EXCEPT !.preparado = TRUE], Libre)
       \/ guardarFalla(q, Libre)
    /\ UNCHANGED <<tipo, unidades, prometheus, pendiente>>

-----------------------------------------------------------------------------
(* manejarMonitoringTargets: what is not wanted any more goes first.       *)

TargetsLeer(q, deseados) ==
    /\ peticion[q].paso = "libre"
    /\ seguir(q, [Libre EXCEPT !.paso = "bucle", !.fiel = TRUE, !.cfg = cfg,
                               !.quitar = conTargets(cfg) \ deseados,
                               !.poner = deseados])
    /\ UNCHANGED <<tipo, cfg, unidades, prometheus, desviado, pendiente>>

\* Mutant: the monitor's Prometheus is not marked for a new file.
QuitarTunelSinNecesita(q, n) ==
    LET p == peticion[q]
        m == p.cfg.monitor IN
    /\ p.paso = "bucle"
    /\ n \in p.quitar
    /\ seguir(q, [p EXCEPT !.paso = "quitado", !.n = n, !.quitar = @ \ {n},
                           !.cfg.targets[n] = SinTarget])
    /\ IF n \in linux(p.cfg) /\ n # m /\ m # Nadie
       THEN unidades' = [unidades EXCEPT ![m][n] = 0]
       ELSE UNCHANGED unidades
    /\ UNCHANGED <<tipo, cfg, prometheus, desviado, pendiente>>

\* An error of monitoringQuitarTunel is ignored, and the tunnel of a router,
\* which has one if its profile changed kind while it was made, stays.
QuitarTunel(q, n) ==
    LET p == peticion[q]
        m == p.cfg.monitor
        esLinux == n \in linux(p.cfg) IN
    /\ p.paso = "bucle"
    /\ n \in p.quitar
    /\ seguir(q, [p EXCEPT !.paso = "quitado", !.n = n, !.quitar = @ \ {n},
                           !.necesita = @ \/ esLinux,
                           !.cfg.targets[n] = SinTarget])
    /\ IF esLinux /\ n # m /\ m # Nadie
       THEN \/ /\ unidades' = [unidades EXCEPT ![m][n] = 0]
               /\ UNCHANGED desviado
            \/ /\ desviado' = TRUE
               /\ UNCHANGED unidades
       ELSE /\ desviado' = (desviado \/ conTunel(p.cfg, n))
            /\ UNCHANGED unidades
    /\ UNCHANGED <<tipo, cfg, prometheus, pendiente>>

\* So is an error of the save.
QuitarGuardar(q) ==
    LET p == [peticion[q] EXCEPT !.paso = "bucle", !.n = Nadie] IN
    /\ peticion[q].paso = "quitado"
    /\ \/ guardar(q, p.cfg, [p EXCEPT !.fiel = TRUE])
       \/ guardarFalla(q, p)
    /\ UNCHANGED <<tipo, unidades, prometheus, pendiente>>

-----------------------------------------------------------------------------
(* ... and then monitoringAplicarTarget for each name that is.             *)

\* Target t for the name n is saved by q, which goes on at paso.
apuntar(q, n, t, paso) ==
    LET p == [peticion[q] EXCEPT !.paso = paso, !.cfg.targets[n] = t,
                 !.poner = IF paso = "bucle" THEN @ \ {n} ELSE @,
                 !.n = IF paso = "bucle" THEN Nadie ELSE n,
                 !.tipo = "ninguno", !.puerto = 0] IN
    \/ guardar(q, p.cfg, [p EXCEPT !.fiel = TRUE])
    \/ guardarFalla(q, Libre)

\* The profile is loaded three times, and may change in between; a handler
\* that does not find it fails.  The first load says whether Prometheus will
\* need a new file ...
PonerMirar(q) ==
    LET n == siguiente(q) IN
    /\ poniendo(q)
    /\ tipo[n] # "ninguno"
    /\ seguir(q, [peticion[q] EXCEPT !.paso = "mirado", !.n = n,
                     !.necesita = @ \/ tipo[n] = "linux"])
    /\ UNCHANGED <<tipo, cfg, unidades, prometheus, desviado, pendiente>>

\* ... the second whether the name is a router, which is only written down:
\* its port and its tunnel, if it had them, stay ...
PonerMikrotik(q) ==
    LET n == peticion[q].n
        t == peticion[q].cfg.targets[n] IN
    /\ peticion[q].paso = "mirado"
    /\ tipo[n] = "mikrotik"
    /\ apuntar(q, n, [t EXCEPT !.tipo = "mikrotik"], "bucle")
    /\ UNCHANGED <<tipo, unidades, prometheus, pendiente>>

PonerLinux(q) ==
    LET p == peticion[q] IN
    /\ p.paso = "mirado"
    /\ tipo[p.n] = "linux"
    /\ p.cfg.preparado /\ p.cfg.monitor # Nadie
    /\ seguir(q, [p EXCEPT !.paso = "visto"])
    /\ UNCHANGED <<tipo, cfg, unidades, prometheus, desviado, pendiente>>

\* ... and the third the kind that will be saved, whichever it is.
PonerDatos(q) ==
    LET p == peticion[q] IN
    /\ p.paso = "visto"
    /\ tipo[p.n] # "ninguno"
    /\ seguir(q, [p EXCEPT !.paso = "datos", !.tipo = tipo[p.n]])
    /\ UNCHANGED <<tipo, cfg, unidades, prometheus, desviado, pendiente>>

\* A target that was there gets its agent again, and no tunnel.
PonerExistente(q) ==
    LET p == peticion[q]
        t == p.cfg.targets[p.n] IN
    /\ p.paso = "datos"
    /\ t # SinTarget
    /\ apuntar(q, p.n, [t EXCEPT !.tipo = p.tipo], "bucle")
    /\ UNCHANGED <<tipo, unidades, prometheus, pendiente>>

\* The monitor itself.
PonerMonitor(q) ==
    LET p == peticion[q] IN
    /\ p.paso = "datos"
    /\ p.cfg.monitor = p.n
    /\ p.cfg.targets[p.n] = SinTarget
    /\ apuntar(q, p.n, [tipo |-> p.tipo, puerto |-> Agente], "regenerar")
    /\ UNCHANGED <<tipo, unidades, prometheus, pendiente>>

\* Mutant: the search goes one port past PortEnd.
PonerPuertoFuera(q) ==
    LET p == peticion[q] IN
    /\ p.paso = "datos"
    /\ p.cfg.monitor # p.n
    /\ p.cfg.targets[p.n] = SinTarget
    /\ \E oidos \in SUBSET oibles(p.cfg.monitor) :
          LET rango == p.cfg.rango \cup {Max(p.cfg.rango) + 1}
              libres == rango \ ocupados(p.cfg, oidos) IN
          /\ libres # {}
          /\ seguir(q, [p EXCEPT !.paso = "tunel", !.puerto = Min(libres)])
    /\ UNCHANGED <<tipo, cfg, unidades, prometheus, desviado, pendiente>>

\* A new one: agent, key of the monitor, known_hosts, and a free port.
PonerPuerto(q) ==
    LET p == peticion[q] IN
    /\ p.paso = "datos"
    /\ p.cfg.monitor # p.n
    /\ p.cfg.targets[p.n] = SinTarget
    /\ \E oidos \in SUBSET oibles(p.cfg.monitor) :
          LET libres == p.cfg.rango \ ocupados(p.cfg, oidos) IN
          /\ libres # {}
          /\ seguir(q, [p EXCEPT !.paso = "tunel", !.puerto = Min(libres)])
    /\ UNCHANGED <<tipo, cfg, unidades, prometheus, desviado, pendiente>>

\* Then the unit, which stays, and which systemd keeps starting, even when it
\* does not run at once ...
PonerTunel(q) ==
    LET p == peticion[q] IN
    /\ p.paso = "tunel"
    /\ unidades' = [unidades EXCEPT ![p.cfg.monitor][p.n] = p.puerto]
    /\ \/ /\ seguir(q, [p EXCEPT !.paso = "apuntar"])
          /\ UNCHANGED <<desviado, pendiente>>
       \/ /\ seguir(q, Libre)
          /\ desviado' = TRUE
          /\ pendiente' = pendiente \cup atrasa(p)
    /\ UNCHANGED <<tipo, cfg, prometheus>>

\* ... and the target.
PonerGuardar(q) ==
    LET p == peticion[q] IN
    /\ p.paso = "apuntar"
    /\ apuntar(q, p.n, [tipo |-> p.tipo, puerto |-> p.puerto], "regenerar")
    /\ UNCHANGED <<tipo, unidades, prometheus, pendiente>>

\* monitoringRegenerarPrometheus with the copy of q, which goes on as p.
regenerar(q, p) ==
    LET c == peticion[q].cfg IN
    /\ prometheus' = [prometheus EXCEPT ![c.monitor] = mapa(c)]
    /\ pendiente' = IF peticion[q].fiel THEN pendiente \ {c.monitor}
                                         ELSE pendiente \cup {c.monitor}
    /\ seguir(q, p)

PonerRegenerar(q) ==
    LET p == peticion[q] IN
    /\ p.paso = "regenerar"
    /\ regenerar(q, [p EXCEPT !.paso = "bucle", !.poner = @ \ {p.n}, !.n = Nadie])
    /\ UNCHANGED <<tipo, cfg, unidades, desviado>>

Terminar(q) ==
    LET p == peticion[q] IN
    /\ p.paso = "bucle" /\ p.quitar = {} /\ p.poner = {}
    /\ IF p.necesita
       THEN p.cfg.monitor # Nadie /\ regenerar(q, Libre)
       ELSE seguir(q, Libre) /\ UNCHANGED <<prometheus, pendiente>>
    /\ UNCHANGED <<tipo, cfg, unidades, desviado>>

-----------------------------------------------------------------------------
(* What happens to them.                                                   *)

\* Names a handler is half-way through.
enObra(p) == IF p.paso \in {"quitado", "apuntar"} THEN {p.n} ELSE {}

\* A remote command fails, a profile or a connection is missing, no port is
\* free, or the program ends.
Fallar(q) ==
    LET p == peticion[q] IN
    /\ p.paso # "libre"
    /\ seguir(q, Libre)
    /\ desviado' = (desviado \/ enObra(p) # {})
    /\ pendiente' = pendiente \cup atrasa(p)
    /\ UNCHANGED <<tipo, cfg, unidades, prometheus>>

\* The user edits, deletes or creates a profile.
EditarPerfil(n, t) ==
    /\ tipo[n] # t
    /\ tipo' = [tipo EXCEPT ![n] = t]
    /\ UNCHANGED <<cfg, unidades, prometheus, peticion, desviado, pendiente>>

-----------------------------------------------------------------------------
Next ==
    \/ \E q \in Peticiones, m \in Monitores : 
          \E r \in Rangos : ConfigLeer(q, m, r)
    \/ \E q \in Peticiones, d \in Deseos : TargetsLeer(q, d)
    \/ \E q \in Peticiones, n \in Servidores : QuitarTunel(q, n)
    \/ \E q \in Peticiones :
          \/ ConfigGuardar(q)
          \/ PrepararLeer(q) \/ PrepararConfigurar(q) \/ PrepararGuardar(q)
          \/ QuitarGuardar(q)
          \/ PonerMirar(q) \/ PonerMikrotik(q) \/ PonerLinux(q) \/ PonerDatos(q)
          \/ PonerExistente(q) \/ PonerMonitor(q)
          \/ PonerPuerto(q) \/ PonerTunel(q) \/ PonerGuardar(q)
          \/ PonerRegenerar(q) \/ Terminar(q) \/ Fallar(q)
    \/ \E n \in Servidores : \E t \in Tipos[n] : EditarPerfil(n, t)

Spec == Init /\ [][Next]_vars

-----------------------------------------------------------------------------
\* Types; a unit has a port of some range, which may be that of the agent.
TypeOK ==
    /\ tipo \in [Servidores -> Tipo]
    /\ cfg \in Config
    /\ unidades \in [Monitores -> [Servidores -> Puertos \cup {0}]]
    /\ prometheus \in [Monitores -> [Servidores -> Locales]]
    /\ peticion \in [Peticiones -> Peticion]
    /\ desviado \in BOOLEAN
    /\ pendiente \in SUBSET Monitores

\* Names that some handler is half-way through.
obras == UNION {enObra(peticion[q]) : q \in Peticiones}

\* The tunnels on the monitor are those of the configuration, with its ports; a
\* Linux server has one, and no two share a port; no other server keeps any.
\* Only the monitor, whose agent needs no tunnel, may be given the port that a
\* tunnel took: that of the agent, when the range has it and nothing listened
\* there.  Handlers may fail anywhere but between a change of a tunnel and its
\* save (desviado), and may overlap as long as none saves over what another
\* saved; a target that changes kind (retipado), or is removed as a router with
\* the tunnel it got as a Linux server, ends it too.
TunelesDeLaConfig ==
    ~desviado => \A m \in Monitores, n \in Servidores \ obras :
        LET u == unidades[m][n] IN
        IF m = cfg.monitor /\ n # m
        THEN /\ u = cfg.targets[n].puerto
             /\ n \in linux(cfg) => u # 0
             /\ \A o \in conTargets(cfg) \ {n} :
                   cfg.targets[o].puerto = u /\ u # 0 => u = Agente /\ o = m
        ELSE u = 0

\* Prometheus scrapes the targets of the configuration.  It falls behind when
\* a handler fails after it changed a Linux target, or prepares the monitor
\* again (pendiente); any regeneration with a copy that is not stale mends it.
PrometheusAlDia ==
    /\ ~desviado
    /\ cfg.monitor \notin pendiente \cup {Nadie}
    /\ \A q \in Peticiones : atrasa(peticion[q]) # {cfg.monitor}
    => prometheus[cfg.monitor] = mapa(cfg)

\* The answer "Selección aplicada y verificada." (monitoring.go:929): Prometheus
\* scrapes what the configuration says.
SeleccionVerificada ==
    [][\A q \in Peticiones :
          Terminar(q) /\ cfg.monitor # Nadie
              => prometheus'[cfg.monitor] = mapa(cfg)]_vars
=============================================================================
