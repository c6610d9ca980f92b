------------------------ MODULE MonitorizacionProofs ------------------------
(***************************************************************************)
(* Proofs about Monitorizacion, for every set of servers, monitors, ports  *)
(* and handlers, and every selection.                                      *)
(***************************************************************************)
EXTENDS Monitorizacion, WellFoundedInduction, TLAPS

-----------------------------------------------------------------------------
(* The inductive invariant.  What holds whatever goes wrong: a handler only *)
(* touches tunnels with a monitor, a name and a port in hand.               *)

\* Without a monitor there is no Linux target, nor any with a port.
SinMonitor(c) ==
    c.monitor = Nadie => \A n \in Servidores :
        c.targets[n].tipo # "linux" /\ c.targets[n].puerto = 0

Sana(p) ==
    /\ SinMonitor(p.cfg)
    /\ p.necesita => p.paso \in {"bucle", "quitado", "mirado", "visto", "datos",
                                 "tunel", "apuntar", "regenerar"}
    /\ p.paso \in {"config", "configurar", "verificar", "visto", "datos", "tunel",
                   "apuntar", "regenerar"} => p.cfg.monitor # Nadie
    /\ p.paso \in {"quitado", "mirado", "visto", "datos", "tunel", "apuntar",
                   "regenerar"} => p.n \in Servidores
    /\ p.paso = "datos" => p.tipo # "ninguno"
    /\ p.paso \in {"tunel", "apuntar"} => p.puerto \in Puertos

InvPeticiones ==
    /\ SinMonitor(cfg)
    /\ \A q \in Peticiones : Sana(peticion[q])

(* What holds until something goes wrong for good.                         *)

\* A copy over which nobody saved is the configuration, but for the change its
\* handler is about to save.
Copia(p) ==
    p.fiel =>
    /\ p.paso = "config" =>
          /\ p.cfg.targets = cfg.targets
          /\ cfg.monitor \in {Nadie, p.cfg.monitor} \/ conTargets(cfg) = {}
    /\ p.paso = "quitado" =>
          /\ p.cfg.monitor = cfg.monitor
          /\ p.cfg.targets = [cfg.targets EXCEPT ![p.n] = SinTarget]
          /\ p.n \in linux(cfg) => p.necesita
    /\ p.paso \notin {"libre", "config", "quitado"} =>
          /\ p.cfg.monitor = cfg.monitor
          /\ p.cfg.targets = cfg.targets
    /\ p.paso \in {"tunel", "apuntar"} =>
          /\ p.n # cfg.monitor
          /\ cfg.targets[p.n].puerto = 0
          /\ \A o \in Servidores : cfg.targets[o].puerto # p.puerto

\* Nobody else is half-way through the name of q.
sola(q) == \A r \in Peticiones \ {q} : peticion[q].n \notin enObra(peticion[r])

\* Then, with such a copy, the tunnels of that name are already as they will be
\* in the configuration.
Obra(q) ==
    LET p == peticion[q] IN
    p.fiel /\ sola(q) =>
    /\ p.paso = "quitado" => \A m \in Monitores : unidades[m][p.n] = 0
    /\ p.paso = "apuntar" =>
          \A m \in Monitores :
             unidades[m][p.n] = IF m = cfg.monitor THEN p.puerto ELSE 0

InvCopias == \A q \in Peticiones : Copia(peticion[q]) /\ Obra(q)

\* A Linux target has a port; two targets have one port only if it is that of
\* the agent and one of them is the monitor; and the tunnels of the names nobody
\* is half-way through are those of the targets.
deUno(c) ==
    \A n, o \in Servidores :
        c.targets[n].puerto = c.targets[o].puerto /\ c.targets[n].puerto # 0 =>
            \/ n = o
            \/ c.targets[n].puerto = Agente /\ c.monitor \in {n, o}
debido(n, m) == IF m = cfg.monitor /\ n # m THEN cfg.targets[n].puerto ELSE 0
InvTuneles ==
    /\ \A n \in linux(cfg) : cfg.targets[n].puerto # 0
    /\ deUno(cfg)
    /\ \A m \in Monitores, n \in Servidores \ obras : unidades[m][n] = debido(n, m)

\* Prometheus of the monitor scrapes the targets of the configuration, and that
\* of any other server nothing, unless it waits for a regeneration that some
\* handler will make or that a handler left pending.
InvPrometheus ==
    \A m \in Monitores \ pendiente :
        \/ \E q \in Peticiones : m \in atrasa(peticion[q])
        \/ prometheus[m] = IF m = cfg.monitor THEN mapa(cfg) ELSE Vacio

Derecho == InvCopias /\ InvTuneles /\ InvPrometheus

IInv ==
    /\ TypeOK
    /\ InvPeticiones
    /\ ~desviado => Derecho

-----------------------------------------------------------------------------
(* The choices of the code are defined.                                    *)

\* Any set of numbers has a least element.
LEMMA MinimoNatural ==
    ASSUME NEW S \in SUBSET Nat, S # {}
    PROVE  \E x \in S : \A y \in S : x <= y
<1>1. \E x \in S : \A y \in S : <<y, x>> \notin OpToRel(<, Nat)
    BY NatLessThanWellFounded, WFMin
<1>2. PICK x \in S : \A y \in S : <<y, x>> \notin OpToRel(<, Nat)
    BY <1>1
<1>3. \A y \in S : ~(y < x)
    BY <1>2 DEF OpToRel
<1>. QED
    BY <1>3

\* The free port that monitoringPuertoLibre returns is one of the free ports.
LEMMA PuertoElegido ==
    ASSUME NEW S \in SUBSET Puertos, S # {}
    PROVE  Min(S) \in S
<1>1. S \in SUBSET Nat
    BY RangosAssumption DEF Puertos
<1>2. \E x \in S : \A y \in S : x <= y
    BY <1>1, MinimoNatural
<1>. QED
    BY <1>2 DEF Min

\* The name that comes next is one of those left.
LEMMA NombreSiguiente ==
    ASSUME NEW q \in Peticiones, peticion[q].poner \in SUBSET Servidores,
           peticion[q].poner # {}
    PROVE  siguiente(q) \in peticion[q].poner /\ siguiente(q) \in Servidores
<1> DEFINE P == peticion[q].poner
           O == {Orden[n] : n \in P}
<1>1. O \in SUBSET Nat /\ O # {}
    BY OrdenAssumption
<1> HIDE DEF O
<1>2. PICK x \in O : \A y \in O : x <= y
    BY <1>1, MinimoNatural
<1>3. \E n \in P : \A o \in P : Orden[n] <= Orden[o]
    BY <1>2 DEF O
<1>. QED
    BY <1>3 DEF siguiente

-----------------------------------------------------------------------------
(* Types, and what a handler has in hand.                                  *)

\* The part of the invariant that no deviation spoils.
Base == TypeOK /\ InvPeticiones

LEMMA TiposConfig ==
    /\ SinTarget \in Target
    /\ Defecto \in Config /\ SinMonitor(Defecto)
    /\ Libre \in Peticion /\ Sana(Libre)
    /\ Vacio \in [Servidores -> Locales]
    /\ \A c \in Config : mapa(c) \in [Servidores -> Locales]
<1>1. SinTarget \in Target
    BY DEF SinTarget, Target, Tipo, Locales
<1>2. Defecto \in Config
    BY <1>1, RangosAssumption DEF Defecto, Config
<1>3. SinMonitor(Defecto)
    BY DEF SinMonitor, Defecto, SinTarget
<1>4. Libre \in Peticion
    BY <1>2 DEF Libre, Peticion, Pasos, Tipo
<1>5. Sana(Libre)
    BY <1>3 DEF Sana, Libre
<1>6. Vacio \in [Servidores -> Locales]
    BY DEF Vacio, Locales
<1>7. \A c \in Config : mapa(c) \in [Servidores -> Locales]
    BY DEF mapa, Config, Target, Locales
<1>. QED
    BY <1>1, <1>2, <1>3, <1>4, <1>5, <1>6, <1>7

\* A handler whose copy gets old changes nothing else.
LEMMA CopiaVieja ==
    ASSUME NEW p \in Peticion
    PROVE  /\ [p EXCEPT !.fiel = FALSE] \in Peticion
           /\ Sana(p) => Sana([p EXCEPT !.fiel = FALSE])
           /\ [p EXCEPT !.fiel = FALSE].fiel = FALSE
           /\ enObra([p EXCEPT !.fiel = FALSE]) = enObra(p)
           /\ atrasa([p EXCEPT !.fiel = FALSE]) = atrasa(p)
<1> DEFINE v == [p EXCEPT !.fiel = FALSE]
<1>1. /\ v.paso = p.paso /\ v.cfg = p.cfg /\ v.n = p.n /\ v.puerto = p.puerto
      /\ v.tipo = p.tipo /\ v.necesita = p.necesita /\ v.fiel = FALSE
    BY DEF Peticion
<1>2. v \in Peticion
    BY DEF Peticion
<1> HIDE DEF v
<1>3. Sana(p) => Sana(v)
    BY <1>1 DEF Sana
<1>4. enObra(v) = enObra(p) /\ atrasa(v) = atrasa(p)
    BY <1>1 DEF enObra, atrasa
<1>. QED
    BY <1>1, <1>2, <1>3, <1>4 DEF v

\* A step of q alone: it goes on as p.
LEMMA TipoSeguir ==
    ASSUME Base, NEW q \in Peticiones, NEW p \in Peticion, Sana(p), seguir(q, p),
           UNCHANGED cfg
    PROVE  /\ peticion' \in [Peticiones -> Peticion]
           /\ InvPeticiones'
<1>1. peticion' = [peticion EXCEPT ![q] = p]
    BY DEF seguir
<1>2. peticion' \in [Peticiones -> Peticion]
    BY <1>1 DEF Base, TypeOK
<1>3. \A x \in Peticiones : peticion'[x] = IF x = q THEN p ELSE peticion[x]
    BY <1>1 DEF Base, TypeOK
<1>4. \A x \in Peticiones : Sana(peticion'[x])
    BY <1>3 DEF Base, InvPeticiones
<1>5. SinMonitor(cfg)'
    BY DEF Base, InvPeticiones, SinMonitor
<1>. QED
    BY <1>2, <1>4, <1>5 DEF InvPeticiones

\* A save, or one that fails: the copies of the others are old now.
LEMMA TipoGuardar ==
    ASSUME Base, NEW q \in Peticiones, NEW c \in Config, NEW p \in Peticion,
           SinMonitor(c), Sana(p), guardar(q, c, p) \/ guardarFalla(q, p)
    PROVE  /\ cfg' \in Config
           /\ peticion' \in [Peticiones -> Peticion]
           /\ desviado' \in BOOLEAN
           /\ InvPeticiones'
<1>1. /\ peticion' = [x \in Peticiones |->
                        IF x = q THEN p ELSE [peticion[x] EXCEPT !.fiel = FALSE]]
      /\ cfg' \in {c, cfg, Defecto}
    BY DEF guardar, guardarFalla
<1>2. desviado' \in BOOLEAN
    BY DEF guardar, guardarFalla, Base, TypeOK
<1>3. cfg' \in Config
    BY <1>1, TiposConfig DEF Base, TypeOK
<1>4. ASSUME NEW x \in Peticiones
      PROVE  peticion'[x] \in Peticion /\ Sana(peticion'[x])
    <2>1. CASE x = q
        BY <1>1, <2>1
    <2>2. CASE x # q
        <3>1. peticion[x] \in Peticion /\ Sana(peticion[x])
            BY DEF Base, TypeOK, InvPeticiones
        <3>2. peticion'[x] = [peticion[x] EXCEPT !.fiel = FALSE]
            BY <1>1, <2>2
        <3>. QED
            BY <3>1, <3>2, CopiaVieja
    <2>. QED
        BY <2>1, <2>2
<1>5. peticion' \in [Peticiones -> Peticion]
    BY <1>1, <1>4
<1>6. SinMonitor(cfg)'
    <2>1. SinMonitor(c) /\ SinMonitor(cfg) /\ SinMonitor(Defecto)
        BY TiposConfig DEF Base, InvPeticiones
    <2>. QED
        BY <1>1, <2>1 DEF SinMonitor
<1>. QED
    BY <1>2, <1>3, <1>4, <1>5, <1>6 DEF InvPeticiones

LEMMA TipoPeticion ==
    ASSUME Base, NEW q \in Peticiones
    PROVE  /\ peticion[q] \in Peticion /\ Sana(peticion[q])
           /\ peticion[q].cfg \in Config
           /\ \A n \in Servidores : peticion[q].cfg.targets[n] \in Target
           /\ peticion[q].cfg.monitor # Nadie => peticion[q].cfg.monitor \in Monitores
BY DEF Base, TypeOK, InvPeticiones, Peticion, Config

\* The copy of a handler after it changes the target of n.
LEMMA TipoCopia ==
    ASSUME NEW c \in Config, SinMonitor(c), NEW n \in Servidores, NEW t \in Target,
           t.tipo = "linux" \/ t.puerto # 0 => c.monitor # Nadie
    PROVE  /\ [c EXCEPT !.targets[n] = t] \in Config
           /\ SinMonitor([c EXCEPT !.targets[n] = t])
           /\ [c EXCEPT !.targets[n] = t].monitor = c.monitor
           /\ [c EXCEPT !.targets[n] = t].targets = [c.targets EXCEPT ![n] = t]
<1> DEFINE d == [c EXCEPT !.targets[n] = t]
<1>1. d.monitor = c.monitor /\ d.targets = [c.targets EXCEPT ![n] = t]
    BY DEF Config
<1>2. d \in Config
    BY DEF Config
<1>3. SinMonitor(d)
    <2>1. \A x \in Servidores : d.targets[x] = IF x = n THEN t ELSE c.targets[x]
        BY <1>1 DEF Config
    <2> HIDE DEF d
    <2>. QED
        BY <1>1, <2>1 DEF SinMonitor
<1>. QED
    BY <1>1, <1>2, <1>3

\* Each action keeps the types, and what its handler has in hand.
LEMMA BaseConfigLeer ==
    ASSUME Base, NEW q \in Peticiones, NEW m \in Monitores, NEW g \in Rangos,
           ConfigLeer(q, m, g)
    PROVE  Base'
<1> DEFINE c == [cfg EXCEPT !.monitor = m, !.rango = g]
           p == [Libre EXCEPT !.paso = "config", !.fiel = TRUE, !.cfg = c]
<1>1. c \in Config /\ c.monitor = m /\ m # Nadie
    BY ServidoresAssumption DEF Base, TypeOK, Config
<1>2. p \in Peticion /\ p.cfg = c /\ p.paso = "config" /\ ~p.necesita
    BY <1>1, TiposConfig DEF Libre, Peticion, Pasos
<1> HIDE DEF p
<1>3. Sana(p)
    BY <1>1, <1>2 DEF Sana, SinMonitor
<1>4. seguir(q, p) /\ UNCHANGED <<tipo, cfg, unidades, prometheus, desviado, pendiente>>
    BY DEF ConfigLeer, p
<1>. QED
    BY <1>2, <1>3, <1>4, TipoSeguir DEF Base, TypeOK

LEMMA BaseConfigGuardar ==
    ASSUME Base, NEW q \in Peticiones, ConfigGuardar(q)
    PROVE  Base'
<1>1. peticion[q].cfg \in Config /\ SinMonitor(peticion[q].cfg)
    BY TipoPeticion DEF Sana
<1>2. UNCHANGED <<tipo, unidades, prometheus, pendiente>>
    BY DEF ConfigGuardar
<1>. QED
    BY <1>1, <1>2, TiposConfig, TipoGuardar DEF ConfigGuardar, Base, TypeOK

LEMMA BasePrepararLeer ==
    ASSUME Base, NEW q \in Peticiones, PrepararLeer(q)
    PROVE  Base'
<1> DEFINE p == [Libre EXCEPT !.paso = "configurar", !.fiel = TRUE, !.cfg = cfg]
<1>1. p \in Peticion /\ p.cfg = cfg /\ p.paso = "configurar" /\ ~p.necesita
    BY TiposConfig DEF Base, TypeOK, Libre, Peticion, Pasos
<1> HIDE DEF p
<1>2. Sana(p)
    BY <1>1 DEF PrepararLeer, Sana, Base, InvPeticiones
<1>3. seguir(q, p) /\ UNCHANGED <<tipo, cfg, unidades, prometheus, desviado, pendiente>>
    BY DEF PrepararLeer, p
<1>. QED
    BY <1>1, <1>2, <1>3, TipoSeguir DEF Base, TypeOK

LEMMA BasePrepararConfigurar ==
    ASSUME Base, NEW q \in Peticiones, PrepararConfigurar(q)
    PROVE  Base'
<1> DEFINE p == [peticion[q] EXCEPT !.paso = "verificar"]
           m == peticion[q].cfg.monitor
<1>1. /\ p \in Peticion /\ p.cfg = peticion[q].cfg /\ p.paso = "verificar"
      /\ p.necesita = peticion[q].necesita
    BY TipoPeticion DEF Peticion, Pasos
<1> HIDE DEF p
<1>2. Sana(p) /\ m \in Monitores
    BY <1>1, TipoPeticion DEF PrepararConfigurar, Sana
<1>3. /\ seguir(q, p) \/ seguir(q, Libre)
      /\ prometheus' = [prometheus EXCEPT ![m] = Vacio]
      /\ pendiente' = pendiente \cup {m}
      /\ UNCHANGED <<tipo, cfg, unidades, desviado>>
    BY DEF PrepararConfigurar, p
<1>. QED
    BY <1>1, <1>2, <1>3, TiposConfig, TipoSeguir DEF Base, TypeOK

LEMMA BasePrepararGuardar ==
    ASSUME Base, NEW q \in Peticiones, PrepararGuardar(q)
    PROVE  Base'
<1> DEFINE c == [peticion[q].cfg EXCEPT !.preparado = TRUE]
<1>1. /\ c \in Config /\ c.monitor = peticion[q].cfg.monitor
      /\ c.targets = peticion[q].cfg.targets
    BY TipoPeticion DEF Config
<1>2. guardar(q, c, Libre) \/ guardarFalla(q, Libre)
    BY DEF PrepararGuardar
<1> HIDE DEF c
<1>3. SinMonitor(c)
    BY <1>1, TipoPeticion DEF Sana, SinMonitor
<1>4. UNCHANGED <<tipo, unidades, prometheus, pendiente>>
    BY DEF PrepararGuardar
<1>. QED
    BY <1>1, <1>2, <1>3, <1>4, TiposConfig, TipoGuardar DEF Base, TypeOK

LEMMA BaseTargetsLeer ==
    ASSUME Base, NEW q \in Peticiones, NEW d \in Deseos, TargetsLeer(q, d)
    PROVE  Base'
<1> DEFINE p == [Libre EXCEPT !.paso = "bucle", !.fiel = TRUE, !.cfg = cfg,
                              !.quitar = conTargets(cfg) \ d, !.poner = d]
<1>1. p \in Peticion /\ p.cfg = cfg /\ p.paso = "bucle" /\ ~p.necesita
    BY TiposConfig, DeseosAssumption
    DEF Base, TypeOK, Libre, Peticion, Pasos, conTargets
<1> HIDE DEF p
<1>2. Sana(p)
    BY <1>1 DEF Sana, Base, InvPeticiones
<1>3. seguir(q, p) /\ UNCHANGED <<tipo, cfg, unidades, prometheus, desviado, pendiente>>
    BY DEF TargetsLeer, p
<1>. QED
    BY <1>1, <1>2, <1>3, TipoSeguir DEF Base, TypeOK

\* The handler that has removed a tunnel.
quitada(p, n) == [p EXCEPT !.paso = "quitado", !.n = n, !.quitar = @ \ {n},
                           !.necesita = @ \/ n \in linux(p.cfg),
                           !.cfg.targets[n] = SinTarget]

LEMMA TipoQuitada ==
    ASSUME Base, NEW q \in Peticiones, NEW n \in Servidores
    PROVE  LET p == quitada(peticion[q], n) IN
           /\ p \in Peticion
           /\ p.paso = "quitado" /\ p.n = n /\ p.fiel = peticion[q].fiel
           /\ p.necesita <=> peticion[q].necesita \/ n \in linux(peticion[q].cfg)
           /\ p.cfg.monitor = peticion[q].cfg.monitor
           /\ p.cfg.targets = [peticion[q].cfg.targets EXCEPT ![n] = SinTarget]
           /\ SinMonitor(p.cfg)
<1> DEFINE p == quitada(peticion[q], n)
           c == [peticion[q].cfg EXCEPT !.targets[n] = SinTarget]
           b == peticion[q].necesita \/ n \in linux(peticion[q].cfg)
<1>1. peticion[q] \in Peticion /\ peticion[q].cfg \in Config /\ SinMonitor(peticion[q].cfg)
    BY TipoPeticion DEF Sana
<1>2. /\ c \in Config /\ SinMonitor(c)
      /\ c.monitor = peticion[q].cfg.monitor
      /\ c.targets = [peticion[q].cfg.targets EXCEPT ![n] = SinTarget]
    BY <1>1, TipoCopia, TiposConfig DEF SinTarget
<1> HIDE DEF c
<1>3. /\ p = [peticion[q] EXCEPT !.paso = "quitado", !.n = n,
                 !.quitar = peticion[q].quitar \ {n}, !.necesita = b, !.cfg = c]
      /\ b \in BOOLEAN
    BY <1>1 DEF quitada, Peticion, Config, c
<1> HIDE DEF b, p
<1>4. /\ p \in Peticion /\ p.cfg = c /\ p.paso = "quitado" /\ p.n = n
      /\ p.fiel = peticion[q].fiel /\ p.necesita = b
    BY <1>1, <1>2, <1>3 DEF Peticion, Pasos
<1>. QED
    BY <1>2, <1>4 DEF b, p

\* A unit of a monitor changes its port.
LEMMA TipoUnidad ==
    ASSUME Base, NEW m \in Monitores, NEW n \in Servidores,
           NEW x \in Puertos \cup {0},
           unidades' = [unidades EXCEPT ![m][n] = x]
    PROVE  /\ unidades' \in [Monitores -> [Servidores -> Puertos \cup {0}]]
           /\ \A k \in Monitores, o \in Servidores :
                 unidades'[k][o] = IF k = m /\ o = n THEN x ELSE unidades[k][o]
<1>1. /\ unidades \in [Monitores -> [Servidores -> Puertos \cup {0}]]
      /\ unidades' = [unidades EXCEPT ![m] = [unidades[m] EXCEPT ![n] = x]]
    BY DEF Base, TypeOK
<1>2. [unidades[m] EXCEPT ![n] = x] \in [Servidores -> Puertos \cup {0}]
    BY <1>1
<1>. QED
    BY <1>1, <1>2

LEMMA BaseQuitarTunel ==
    ASSUME Base, NEW q \in Peticiones, NEW n \in Servidores, QuitarTunel(q, n)
    PROVE  Base'
<1> DEFINE p == quitada(peticion[q], n)
           m == peticion[q].cfg.monitor
<1>1. seguir(q, p)
    BY DEF QuitarTunel, quitada
<1>2. p \in Peticion
    BY TipoQuitada
<1>3. Sana(p)
    <2>1. /\ p.paso = "quitado" /\ p.n = n /\ SinMonitor(p.cfg)
          /\ p.necesita <=> peticion[q].necesita \/ n \in linux(peticion[q].cfg)
          /\ p.cfg.monitor = peticion[q].cfg.monitor
        BY TipoQuitada
    <2> HIDE DEF p
    <2>. QED
        BY <2>1 DEF Sana
<1> HIDE DEF p
<1>4. /\ UNCHANGED <<tipo, cfg, prometheus, pendiente>>
      /\ desviado' \in BOOLEAN
      /\ unidades' = unidades \/ (m # Nadie /\ unidades' = [unidades EXCEPT ![m][n] = 0])
    BY DEF QuitarTunel, Base, TypeOK
<1>5. unidades' \in [Monitores -> [Servidores -> Puertos \cup {0}]]
    BY <1>4, TipoPeticion, TipoUnidad DEF Base, TypeOK
<1>. QED
    BY <1>1, <1>2, <1>3, <1>4, <1>5, TipoSeguir DEF Base, TypeOK

LEMMA BaseQuitarGuardar ==
    ASSUME Base, NEW q \in Peticiones, QuitarGuardar(q)
    PROVE  Base'
<1> DEFINE p == [peticion[q] EXCEPT !.paso = "bucle", !.n = Nadie]
           r == [p EXCEPT !.fiel = TRUE]
<1>1. /\ p \in Peticion /\ p.paso = "bucle" /\ p.cfg = peticion[q].cfg
      /\ p.necesita = peticion[q].necesita
      /\ r \in Peticion /\ r.paso = "bucle" /\ r.cfg = peticion[q].cfg
      /\ r.necesita = peticion[q].necesita
    BY TipoPeticion DEF Peticion, Pasos
<1>2. guardar(q, p.cfg, r) \/ guardarFalla(q, p)
    BY DEF QuitarGuardar
<1> HIDE DEF p, r
<1>3. Sana(p) /\ Sana(r)
    BY <1>1, TipoPeticion DEF Sana
<1>4. UNCHANGED <<tipo, unidades, prometheus, pendiente>>
    BY DEF QuitarGuardar
<1>5. p.cfg \in Config /\ SinMonitor(p.cfg)
    BY <1>1, TipoPeticion DEF Sana
<1>. QED
    BY <1>1, <1>2, <1>3, <1>4, <1>5, TipoGuardar DEF Base, TypeOK

\* The handler that has changed the target of n to t in its copy.
apuntada(p, n, t, paso) ==
    [p EXCEPT !.paso = paso, !.cfg.targets[n] = t,
              !.poner = IF paso = "bucle" THEN @ \ {n} ELSE @,
              !.n = IF paso = "bucle" THEN Nadie ELSE n,
              !.tipo = "ninguno", !.puerto = 0, !.fiel = TRUE]

LEMMA TipoApuntada ==
    ASSUME Base, NEW q \in Peticiones, NEW n \in Servidores, NEW t \in Target,
           NEW paso \in {"bucle", "regenerar"},
           peticion[q].paso \in {"mirado", "datos", "apuntar"},
           t.tipo = "linux" \/ t.puerto # 0 \/ paso = "regenerar"
              => peticion[q].cfg.monitor # Nadie
    PROVE  LET p == apuntada(peticion[q], n, t, paso) IN
           /\ p \in Peticion /\ Sana(p)
           /\ p.paso = paso /\ p.fiel
           /\ p.necesita = peticion[q].necesita
           /\ p.cfg \in Config /\ SinMonitor(p.cfg)
           /\ p.cfg.monitor = peticion[q].cfg.monitor
           /\ p.cfg.targets = [peticion[q].cfg.targets EXCEPT ![n] = t]
<1> DEFINE p == apuntada(peticion[q], n, t, paso)
           c == [peticion[q].cfg EXCEPT !.targets[n] = t]
           quedan == IF paso = "bucle" THEN peticion[q].poner \ {n} ELSE peticion[q].poner
           nombre == IF paso = "bucle" THEN Nadie ELSE n
<1>1. peticion[q] \in Peticion /\ peticion[q].cfg \in Config /\ SinMonitor(peticion[q].cfg)
    BY TipoPeticion DEF Sana
<1>2. /\ c \in Config /\ SinMonitor(c)
      /\ c.monitor = peticion[q].cfg.monitor
      /\ c.targets = [peticion[q].cfg.targets EXCEPT ![n] = t]
    BY <1>1, TipoCopia
<1> HIDE DEF c
<1>3. /\ p = [peticion[q] EXCEPT !.paso = paso, !.cfg = c, !.poner = quedan,
                 !.n = nombre, !.tipo = "ninguno", !.puerto = 0, !.fiel = TRUE]
    BY <1>1 DEF apuntada, Peticion, Config, c
<1>4. /\ quedan \in SUBSET Servidores
      /\ nombre \in Servidores \cup {Nadie} /\ (paso = "regenerar" => nombre = n)
    BY <1>1 DEF Peticion
<1> HIDE DEF p, quedan, nombre
<1>5. /\ p \in Peticion /\ p.cfg = c /\ p.paso = paso /\ p.n = nombre
      /\ p.fiel = TRUE /\ p.necesita = peticion[q].necesita
    BY <1>1, <1>2, <1>3, <1>4 DEF Peticion, Pasos, Tipo
<1>6. Sana(p)
    BY <1>2, <1>4, <1>5 DEF Sana
<1>. QED
    BY <1>2, <1>5, <1>6 DEF p

LEMMA TipoApuntar ==
    ASSUME Base, NEW q \in Peticiones, NEW n \in Servidores, NEW t \in Target,
           NEW paso \in {"bucle", "regenerar"},
           peticion[q].paso \in {"mirado", "datos", "apuntar"},
           t.tipo = "linux" \/ t.puerto # 0 \/ paso = "regenerar"
              => peticion[q].cfg.monitor # Nadie,
           apuntar(q, n, t, paso),
           UNCHANGED <<tipo, unidades, prometheus, pendiente>>
    PROVE  /\ Base'
           /\ ~desviado' => LET p == apuntada(peticion[q], n, t, paso) IN
                            guardar(q, p.cfg, p)
<1> DEFINE p == apuntada(peticion[q], n, t, paso)
<1>1. guardar(q, p.cfg, p) \/ guardarFalla(q, Libre)
    <2> DEFINE r == [peticion[q] EXCEPT !.paso = paso, !.cfg.targets[n] = t,
                       !.poner = IF paso = "bucle" THEN @ \ {n} ELSE @,
                       !.n = IF paso = "bucle" THEN Nadie ELSE n,
                       !.tipo = "ninguno", !.puerto = 0]
    <2>1. guardar(q, r.cfg, [r EXCEPT !.fiel = TRUE]) \/ guardarFalla(q, Libre)
        BY DEF apuntar
    <2>2. [r EXCEPT !.fiel = TRUE] = p /\ r.cfg = p.cfg
        BY TipoPeticion DEF apuntada, Peticion
    <2>. QED
        BY <2>1, <2>2
<1>2. p \in Peticion /\ Sana(p) /\ p.cfg \in Config /\ SinMonitor(p.cfg)
    BY TipoApuntada
<1> HIDE DEF p
<1>3. Base'
    BY <1>1, <1>2, TiposConfig, TipoGuardar DEF Base, TypeOK
<1>4. ~desviado' => guardar(q, p.cfg, p)
    BY <1>1 DEF guardarFalla
<1>. QED
    BY <1>3, <1>4 DEF p

\* The targets that the four ways of writing one down write.
tMikrotik(q) == [peticion[q].cfg.targets[peticion[q].n] EXCEPT !.tipo = "mikrotik"]
tExistente(q) == [peticion[q].cfg.targets[peticion[q].n] EXCEPT !.tipo = peticion[q].tipo]
tMonitor(q) == [tipo |-> peticion[q].tipo, puerto |-> Agente]
tNuevo(q) == [tipo |-> peticion[q].tipo, puerto |-> peticion[q].puerto]

LEMMA BasePonerMikrotik ==
    ASSUME Base, NEW q \in Peticiones, PonerMikrotik(q)
    PROVE  /\ Base'
           /\ tMikrotik(q) \in Target /\ tMikrotik(q).tipo = "mikrotik"
           /\ tMikrotik(q).puerto # 0 => peticion[q].cfg.monitor # Nadie
           /\ ~desviado' =>
                 LET p == apuntada(peticion[q], peticion[q].n, tMikrotik(q), "bucle") IN
                 guardar(q, p.cfg, p)
<1>1. /\ peticion[q].n \in Servidores
      /\ peticion[q].cfg.targets[peticion[q].n] \in Target
      /\ SinMonitor(peticion[q].cfg)
    BY TipoPeticion DEF PonerMikrotik, Sana
<1>2. /\ tMikrotik(q) \in Target /\ tMikrotik(q).tipo = "mikrotik"
      /\ tMikrotik(q).puerto = peticion[q].cfg.targets[peticion[q].n].puerto
    BY <1>1 DEF Target, Tipo, tMikrotik
<1>3. tMikrotik(q).puerto # 0 => peticion[q].cfg.monitor # Nadie
    BY <1>1, <1>2 DEF SinMonitor
<1>4. /\ apuntar(q, peticion[q].n, tMikrotik(q), "bucle")
      /\ peticion[q].paso = "mirado"
      /\ UNCHANGED <<tipo, unidades, prometheus, pendiente>>
    BY DEF PonerMikrotik, tMikrotik
<1>. QED
    BY <1>1, <1>2, <1>3, <1>4, TipoApuntar

LEMMA BasePonerExistente ==
    ASSUME Base, NEW q \in Peticiones, PonerExistente(q)
    PROVE  /\ Base'
           /\ tExistente(q) \in Target
           /\ ~desviado' =>
                 LET p == apuntada(peticion[q], peticion[q].n, tExistente(q), "bucle") IN
                 guardar(q, p.cfg, p)
<1>1. /\ peticion[q].n \in Servidores
      /\ peticion[q].cfg.targets[peticion[q].n] \in Target
      /\ peticion[q].tipo \in Tipo /\ peticion[q].cfg.monitor # Nadie
    BY TipoPeticion DEF PonerExistente, Sana, Peticion
<1>2. tExistente(q) \in Target
    BY <1>1 DEF Target, tExistente
<1>3. /\ apuntar(q, peticion[q].n, tExistente(q), "bucle")
      /\ peticion[q].paso = "datos"
      /\ UNCHANGED <<tipo, unidades, prometheus, pendiente>>
    BY DEF PonerExistente, tExistente
<1>. QED
    BY <1>1, <1>2, <1>3, TipoApuntar

LEMMA BasePonerMonitor ==
    ASSUME Base, NEW q \in Peticiones, PonerMonitor(q)
    PROVE  /\ Base'
           /\ tMonitor(q) \in Target
           /\ ~desviado' =>
                 LET p == apuntada(peticion[q], peticion[q].n, tMonitor(q), "regenerar") IN
                 guardar(q, p.cfg, p)
<1>1. /\ peticion[q].n \in Servidores /\ peticion[q].tipo \in Tipo
      /\ peticion[q].cfg.monitor # Nadie
    BY TipoPeticion DEF PonerMonitor, Sana, Peticion
<1>2. tMonitor(q) \in Target
    BY <1>1 DEF Target, tMonitor, Locales
<1>3. /\ apuntar(q, peticion[q].n, tMonitor(q), "regenerar")
      /\ peticion[q].paso = "datos"
      /\ UNCHANGED <<tipo, unidades, prometheus, pendiente>>
    BY DEF PonerMonitor, tMonitor
<1>. QED
    BY <1>1, <1>2, <1>3, TipoApuntar

LEMMA BasePonerGuardar ==
    ASSUME Base, NEW q \in Peticiones, PonerGuardar(q)
    PROVE  /\ Base'
           /\ tNuevo(q) \in Target
           /\ ~desviado' =>
                 LET p == apuntada(peticion[q], peticion[q].n, tNuevo(q), "regenerar") IN
                 guardar(q, p.cfg, p)
<1>1. /\ peticion[q].n \in Servidores /\ peticion[q].puerto \in Puertos
      /\ peticion[q].tipo \in Tipo /\ peticion[q].cfg.monitor # Nadie
    BY TipoPeticion DEF PonerGuardar, Sana, Peticion
<1>2. tNuevo(q) \in Target
    BY <1>1 DEF Target, tNuevo, Locales
<1>3. /\ apuntar(q, peticion[q].n, tNuevo(q), "regenerar")
      /\ peticion[q].paso = "apuntar"
      /\ UNCHANGED <<tipo, unidades, prometheus, pendiente>>
    BY DEF PonerGuardar, tNuevo
<1>. QED
    BY <1>1, <1>2, <1>3, TipoApuntar

\* The loads of the profile of the name that comes next.
mirada(p, n, b) == [p EXCEPT !.paso = "mirado", !.n = n, !.necesita = b]
vista(p) == [p EXCEPT !.paso = "visto"]
leida(p, t) == [p EXCEPT !.paso = "datos", !.tipo = t]

LEMMA BasePonerMirar ==
    ASSUME Base, NEW q \in Peticiones, PonerMirar(q)
    PROVE  /\ Base'
           /\ \E n \in Servidores, b \in BOOLEAN :
                 /\ peticion[q].necesita => b
                 /\ seguir(q, mirada(peticion[q], n, b))
<1> DEFINE n == siguiente(q)
           b == peticion[q].necesita \/ tipo[n] = "linux"
           r == mirada(peticion[q], n, b)
<1>1. peticion[q].poner \in SUBSET Servidores /\ peticion[q] \in Peticion
    BY TipoPeticion DEF Peticion
<1>2. n \in Servidores /\ b \in BOOLEAN
    BY <1>1, NombreSiguiente DEF PonerMirar, poniendo, Peticion
<1>3. seguir(q, r)
    BY <1>1 DEF PonerMirar, mirada, Peticion
<1>4. peticion[q].necesita => b
    OBVIOUS
<1> HIDE DEF n, b
<1>5. /\ r \in Peticion /\ r.paso = "mirado" /\ r.n = n /\ r.cfg = peticion[q].cfg
    BY <1>1, <1>2 DEF mirada, Peticion, Pasos
<1> HIDE DEF r
<1>6. Sana(r)
    BY <1>2, <1>5, TipoPeticion DEF Sana
<1>7. UNCHANGED <<tipo, cfg, unidades, prometheus, desviado, pendiente>>
    BY DEF PonerMirar
<1>8. Base'
    BY <1>3, <1>5, <1>6, <1>7, TipoSeguir DEF Base, TypeOK
<1>. QED
    BY <1>2, <1>3, <1>4, <1>8 DEF r

LEMMA BasePonerLinux ==
    ASSUME Base, NEW q \in Peticiones, PonerLinux(q)
    PROVE  Base'
<1> DEFINE r == vista(peticion[q])
<1>1. /\ r \in Peticion /\ r.paso = "visto" /\ r.n = peticion[q].n
      /\ r.cfg = peticion[q].cfg /\ r.necesita = peticion[q].necesita
    BY TipoPeticion DEF vista, Peticion, Pasos
<1>2. /\ seguir(q, r)
      /\ UNCHANGED <<tipo, cfg, unidades, prometheus, desviado, pendiente>>
    BY DEF PonerLinux, vista
<1> HIDE DEF r
<1>3. Sana(r)
    BY <1>1, TipoPeticion DEF PonerLinux, Sana
<1>. QED
    BY <1>1, <1>2, <1>3, TipoSeguir DEF Base, TypeOK

LEMMA BasePonerDatos ==
    ASSUME Base, NEW q \in Peticiones, PonerDatos(q)
    PROVE  /\ Base'
           /\ \E t \in Tipo : seguir(q, leida(peticion[q], t))
<1> DEFINE t == tipo[peticion[q].n]
           r == leida(peticion[q], t)
<1>1. t \in Tipo /\ t # "ninguno"
    BY TipoPeticion DEF PonerDatos, Sana, Base, TypeOK
<1>2. /\ seguir(q, r)
      /\ UNCHANGED <<tipo, cfg, unidades, prometheus, desviado, pendiente>>
    BY DEF PonerDatos, leida
<1> HIDE DEF t
<1>3. /\ r \in Peticion /\ r.paso = "datos" /\ r.n = peticion[q].n /\ r.tipo = t
      /\ r.cfg = peticion[q].cfg /\ r.necesita = peticion[q].necesita
    BY <1>1, TipoPeticion DEF leida, Peticion, Pasos
<1> HIDE DEF r
<1>4. Sana(r)
    BY <1>1, <1>3, TipoPeticion DEF PonerDatos, Sana
<1>5. Base'
    BY <1>2, <1>3, <1>4, TipoSeguir DEF Base, TypeOK
<1>. QED
    BY <1>1, <1>2, <1>5 DEF r

LEMMA BasePonerPuerto ==
    ASSUME Base, NEW q \in Peticiones, PonerPuerto(q)
    PROVE  /\ Base'
           /\ \E oidos \in SUBSET oibles(peticion[q].cfg.monitor), x \in Puertos :
                 /\ x \notin ocupados(peticion[q].cfg, oidos)
                 /\ seguir(q, [peticion[q] EXCEPT !.paso = "tunel", !.puerto = x])
<1>1. PICK oidos \in SUBSET oibles(peticion[q].cfg.monitor) :
         LET libres == peticion[q].cfg.rango \ ocupados(peticion[q].cfg, oidos) IN
         /\ libres # {}
         /\ seguir(q, [peticion[q] EXCEPT !.paso = "tunel", !.puerto = Min(libres)])
    BY DEF PonerPuerto
<1> DEFINE libres == peticion[q].cfg.rango \ ocupados(peticion[q].cfg, oidos)
           p == [peticion[q] EXCEPT !.paso = "tunel", !.puerto = Min(libres)]
<1>2. libres # {} /\ seguir(q, p)
    BY <1>1
<1>3. libres \in SUBSET Puertos
    BY TipoPeticion DEF Config, Puertos
<1>4. Min(libres) \in libres /\ Min(libres) \in Puertos
    <2> HIDE DEF libres
    <2>. QED
        BY <1>2, <1>3, PuertoElegido
<1>5. Min(libres) \notin ocupados(peticion[q].cfg, oidos)
    BY <1>4
<1> HIDE DEF libres
<1>6. /\ p \in Peticion /\ p.paso = "tunel" /\ p.n = peticion[q].n
      /\ p.puerto = Min(libres) /\ p.cfg = peticion[q].cfg
      /\ p.necesita = peticion[q].necesita
    BY <1>4, TipoPeticion DEF Peticion, Pasos
<1> HIDE DEF p
<1>7. Sana(p)
    BY <1>4, <1>6, TipoPeticion DEF PonerPuerto, Sana
<1>8. UNCHANGED <<tipo, cfg, unidades, prometheus, desviado, pendiente>>
    BY DEF PonerPuerto
<1>9. Base'
    BY <1>2, <1>6, <1>7, <1>8, TipoSeguir DEF Base, TypeOK
<1>10. seguir(q, [peticion[q] EXCEPT !.paso = "tunel", !.puerto = Min(libres)])
    BY <1>2 DEF p
<1>11. \E x \in Puertos :
          /\ x \notin ocupados(peticion[q].cfg, oidos)
          /\ seguir(q, [peticion[q] EXCEPT !.paso = "tunel", !.puerto = x])
    BY <1>4, <1>5, <1>10
<1>. QED
    BY <1>9, <1>11

\* The monitor a handler leaves waiting.
LEMMA TipoAtrasa ==
    ASSUME Base, NEW q \in Peticiones
    PROVE  atrasa(peticion[q]) \in SUBSET Monitores
BY TipoPeticion DEF atrasa, Sana

LEMMA BasePonerTunel ==
    ASSUME Base, NEW q \in Peticiones, PonerTunel(q)
    PROVE  /\ Base'
           /\ \A k \in Monitores, o \in Servidores :
                 unidades'[k][o] = IF k = peticion[q].cfg.monitor /\ o = peticion[q].n
                                   THEN peticion[q].puerto ELSE unidades[k][o]
<1> DEFINE p == [peticion[q] EXCEPT !.paso = "apuntar"]
           m == peticion[q].cfg.monitor
<1>1. /\ m \in Monitores /\ peticion[q].n \in Servidores
      /\ peticion[q].puerto \in Puertos
    BY TipoPeticion DEF PonerTunel, Sana
<1>2. unidades' = [unidades EXCEPT ![m][peticion[q].n] = peticion[q].puerto]
    BY DEF PonerTunel
<1>3. /\ p \in Peticion /\ p.paso = "apuntar" /\ p.n = peticion[q].n
      /\ p.puerto = peticion[q].puerto /\ p.cfg = peticion[q].cfg
      /\ p.necesita = peticion[q].necesita
    BY TipoPeticion DEF Peticion, Pasos
<1> HIDE DEF p
<1>4. Sana(p)
    BY <1>3, TipoPeticion DEF PonerTunel, Sana
<1>5. /\ UNCHANGED <<tipo, cfg, prometheus>>
      /\ seguir(q, p) \/ seguir(q, Libre)
      /\ desviado' \in {desviado, TRUE}
      /\ pendiente' \in {pendiente, pendiente \cup atrasa(peticion[q])}
    BY DEF PonerTunel, p
<1>6. Base'
    BY <1>1, <1>2, <1>3, <1>4, <1>5, TiposConfig, TipoSeguir, TipoUnidad, TipoAtrasa
    DEF Base, TypeOK
<1>. QED
    BY <1>1, <1>2, <1>6, TipoUnidad

\* A regeneration.
LEMMA TipoRegenerar ==
    ASSUME Base, NEW q \in Peticiones, peticion[q].cfg.monitor # Nadie,
           NEW p \in Peticion, Sana(p), regenerar(q, p),
           UNCHANGED <<tipo, cfg, unidades, desviado>>
    PROVE  Base'
<1> DEFINE c == peticion[q].cfg
<1>1. c \in Config /\ c.monitor \in Monitores
    BY TipoPeticion
<1>2. /\ prometheus' = [prometheus EXCEPT ![c.monitor] = mapa(c)]
      /\ pendiente' = IF peticion[q].fiel THEN pendiente \ {c.monitor}
                                          ELSE pendiente \cup {c.monitor}
      /\ seguir(q, p)
    BY DEF regenerar
<1> HIDE DEF c
<1>3. mapa(c) \in [Servidores -> Locales]
    BY <1>1, TiposConfig
<1>. QED
    BY <1>1, <1>2, <1>3, TipoSeguir DEF Base, TypeOK

\* The handler that goes on with the next name.
puesta(p) == [p EXCEPT !.paso = "bucle", !.poner = @ \ {p.n}, !.n = Nadie]

LEMMA BasePonerRegenerar ==
    ASSUME Base, NEW q \in Peticiones, PonerRegenerar(q)
    PROVE  /\ Base'
           /\ LET p == puesta(peticion[q]) IN
              /\ regenerar(q, p)
              /\ p.paso = "bucle" /\ p.fiel = peticion[q].fiel
              /\ p.cfg = peticion[q].cfg /\ p.necesita = peticion[q].necesita
<1> DEFINE p == puesta(peticion[q])
<1>1. /\ p \in Peticion /\ p.paso = "bucle" /\ p.fiel = peticion[q].fiel
      /\ p.cfg = peticion[q].cfg /\ p.necesita = peticion[q].necesita
    BY TipoPeticion DEF Peticion, Pasos, puesta
<1>2. /\ regenerar(q, p)
      /\ UNCHANGED <<tipo, cfg, unidades, desviado>>
    BY DEF PonerRegenerar, puesta
<1> HIDE DEF p
<1>3. peticion[q].cfg.monitor # Nadie /\ Sana(p)
    BY <1>1, TipoPeticion DEF PonerRegenerar, Sana
<1>4. Base'
    BY <1>1, <1>2, <1>3, TipoRegenerar
<1>. QED
    BY <1>1, <1>2, <1>4 DEF p

LEMMA BaseTerminar ==
    ASSUME Base, NEW q \in Peticiones, Terminar(q)
    PROVE  Base'
<1>1. CASE peticion[q].necesita
    BY <1>1, TiposConfig, TipoRegenerar DEF Terminar
<1>2. CASE ~peticion[q].necesita
    BY <1>2, TiposConfig, TipoSeguir DEF Terminar, Base, TypeOK
<1>. QED
    BY <1>1, <1>2

LEMMA BaseFallar ==
    ASSUME Base, NEW q \in Peticiones, Fallar(q)
    PROVE  Base'
<1>1. pendiente' = pendiente \cup atrasa(peticion[q]) /\ desviado' \in BOOLEAN
    BY DEF Fallar, Base, TypeOK
<1>2. seguir(q, Libre) /\ UNCHANGED <<tipo, cfg, unidades, prometheus>>
    BY DEF Fallar
<1>. QED
    BY <1>1, <1>2, TiposConfig, TipoSeguir, TipoAtrasa DEF Base, TypeOK

LEMMA BaseEditarPerfil ==
    ASSUME Base, NEW n \in Servidores, NEW t \in Tipos[n], EditarPerfil(n, t)
    PROVE  Base'
<1>1. t \in Tipo
    BY TiposAssumption
<1>2. tipo' \in [Servidores -> Tipo]
    BY <1>1 DEF EditarPerfil, Base, TypeOK
<1>. QED
    BY <1>2 DEF EditarPerfil, Base, TypeOK, InvPeticiones, SinMonitor

-----------------------------------------------------------------------------
(* Until something goes wrong for good.                                    *)

LEMMA EnObras ==
    /\ \A n : n \in obras <=> \E q \in Peticiones : n \in enObra(peticion[q])
    /\ \A n : n \in obras' <=> \E q \in Peticiones : n \in enObra(peticion'[q])
BY DEF obras

LEMMA SinObra ==
    ASSUME NEW p
    PROVE  /\ enObra(p) = {} <=> p.paso \notin {"quitado", "apuntar"}
           /\ p.paso \in {"quitado", "apuntar"} => enObra(p) = {p.n}
BY DEF enObra

LEMMA PasoDeUno ==
    ASSUME Base, NEW q \in Peticiones, NEW r, seguir(q, r)
    PROVE  \A x \in Peticiones : peticion'[x] = IF x = q THEN r ELSE peticion[x]
BY DEF seguir, Base, TypeOK

\* A handler that goes on, half-way through nothing, and touches no tunnel.
LEMMA DerechoSeguir ==
    ASSUME Base, InvCopias, InvTuneles, NEW q \in Peticiones, NEW r, seguir(q, r),
           UNCHANGED <<cfg, unidades>>,
           enObra(peticion[q]) = {}, enObra(r) = {}, Copia(r)
    PROVE  InvCopias' /\ InvTuneles'
<1>1. \A x \in Peticiones : peticion'[x] = IF x = q THEN r ELSE peticion[x]
    BY PasoDeUno
<1>2. \A x \in Peticiones : enObra(peticion'[x]) = enObra(peticion[x])
    BY <1>1
<1>3. \A n : n \in obras' <=> n \in obras
    BY <1>2, EnObras
<1>4. InvTuneles'
    <2>1. /\ UNCHANGED linux(cfg) /\ (deUno(cfg)' <=> deUno(cfg))
          /\ \A n, m : debido(n, m)' = debido(n, m)
        BY DEF linux, deUno, debido
    <2>. QED
        BY <1>3, <2>1 DEF InvTuneles
<1>5. ASSUME NEW x \in Peticiones
      PROVE  Copia(peticion[x])' /\ Obra(x)'
    <2>0. /\ linux(cfg)' = linux(cfg)
          /\ conTargets(cfg)' = conTargets(cfg)
        BY DEF linux, conTargets
    <2>1. CASE x = q
        <3>1. r.paso \notin {"quitado", "apuntar"}
            BY SinObra
        <3>2. Copia(r)'
            BY <2>0 DEF Copia
        <3>3. peticion'[x] = r
            BY <1>1, <2>1
        <3>. QED
            BY <3>1, <3>2, <3>3, <2>0 DEF Copia, Obra
    <2>2. CASE x # q
        <3>1. peticion'[x] = peticion[x]
            BY <1>1, <2>2
        <3>2. Copia(peticion[x]) /\ Obra(x)
            BY DEF InvCopias
        <3>3. sola(x)' <=> sola(x)
            BY <1>2, <3>1 DEF sola
        <3>. QED
            BY <2>0, <3>1, <3>2, <3>3 DEF Copia, Obra
    <2>. QED
        BY <2>1, <2>2
<1>. QED
    BY <1>4, <1>5 DEF InvCopias

\* A handler that changes the tunnels of one name.
LEMMA DerechoTunel ==
    ASSUME Base, InvCopias, InvTuneles, NEW q \in Peticiones, NEW r, seguir(q, r),
           UNCHANGED cfg,
           enObra(peticion[q]) = {}, r.paso \in {"quitado", "apuntar"},
           \A k \in Monitores, o \in Servidores \ {r.n} :
              unidades'[k][o] = unidades[k][o],
           \A x \in Peticiones \ {q} : enObra(peticion[x]) \subseteq Servidores,
           Copia(r),
           r.fiel /\ r.n \notin obras =>
              /\ r.paso = "quitado" => \A m \in Monitores : unidades'[m][r.n] = 0
              /\ r.paso = "apuntar" =>
                    \A m \in Monitores :
                       unidades'[m][r.n] = IF m = cfg.monitor THEN r.puerto ELSE 0
    PROVE  InvCopias' /\ InvTuneles'
<1>1. \A x \in Peticiones : peticion'[x] = IF x = q THEN r ELSE peticion[x]
    BY PasoDeUno
<1>2. enObra(r) = {r.n}
    BY SinObra
<1>3. \A n : n \in obras' <=> n \in obras \/ n = r.n
    BY <1>1, <1>2, EnObras
<1>4. InvTuneles'
    <2>1. /\ UNCHANGED linux(cfg) /\ (deUno(cfg)' <=> deUno(cfg))
          /\ \A n, m : debido(n, m)' = debido(n, m)
        BY DEF linux, deUno, debido
    <2>. QED
        BY <1>3, <2>1 DEF InvTuneles
<1>5. ASSUME NEW x \in Peticiones
      PROVE  Copia(peticion[x])' /\ Obra(x)'
    <2>0. /\ linux(cfg)' = linux(cfg)
          /\ conTargets(cfg)' = conTargets(cfg)
        BY DEF linux, conTargets
    <2>1. CASE x = q
        <3>1. peticion'[x] = r
            BY <1>1, <2>1
        <3>2. Copia(peticion[x])'
            BY <2>0, <3>1 DEF Copia
        <3>3. sola(x)' => r.n \notin obras
            BY <1>1, <2>1, <3>1, EnObras DEF sola
        <3>4. Obra(x)'
            BY <3>1, <3>3 DEF Obra
        <3>. QED
            BY <3>2, <3>4
    <2>2. CASE x # q
        <3>1. peticion'[x] = peticion[x]
            BY <1>1, <2>2
        <3>2. Copia(peticion[x]) /\ Obra(x)
            BY DEF InvCopias
        <3>3. sola(x)' => sola(x) /\ peticion[x].n # r.n
            BY <1>1, <1>2, <2>2, <3>1 DEF sola
        <3>4. Copia(peticion[x])'
            BY <2>0, <3>1, <3>2 DEF Copia
        <3>5. peticion[x].paso \in {"quitado", "apuntar"} => peticion[x].n \in Servidores
            BY <2>2, SinObra
        <3>6. Obra(x)'
            BY <3>1, <3>2, <3>3, <3>5 DEF Obra
        <3>. QED
            BY <3>4, <3>6
    <2>. QED
        BY <2>1, <2>2
<1>. QED
    BY <1>4, <1>5 DEF InvCopias

LEMMA ObrasTipo ==
    ASSUME Base, NEW x \in Peticiones
    PROVE  enObra(peticion[x]) \subseteq Servidores
BY TipoPeticion DEF enObra, Sana

\* A save that goes well: it was made with a copy nobody had saved over, no
\* target changed kind, and the copies of the others are old now.
LEMMA DerechoGuardar ==
    ASSUME Base, ~desviado', NEW q \in Peticiones, NEW c, NEW r,
           guardar(q, c, r), enObra(r) = {},
           r.fiel => /\ r.paso \in {"bucle", "regenerar"}
                     /\ r.cfg.monitor = c.monitor /\ r.cfg.targets = c.targets
    PROVE  /\ InvCopias'
           /\ cfg' = c
           /\ peticion'[q] = r
           /\ \A x \in Peticiones \ {q} : atrasa(peticion'[x]) = atrasa(peticion[x])
           /\ peticion[q].fiel /\ ~retipado(q, c)
           /\ \A n : n \in obras' <=> \E x \in Peticiones \ {q} : n \in enObra(peticion[x])
           /\ \A n : n \in obras => n \in obras' \/ n \in enObra(peticion[q])
<1>1. /\ cfg' = c
      /\ \A x \in Peticiones :
            peticion'[x] = IF x = q THEN r ELSE [peticion[x] EXCEPT !.fiel = FALSE]
      /\ peticion[q].fiel /\ ~retipado(q, c)
    BY DEF guardar, Base, TypeOK, Peticion
<1>2. ASSUME NEW x \in Peticiones \ {q}
      PROVE  /\ peticion'[x].fiel = FALSE
             /\ enObra(peticion'[x]) = enObra(peticion[x])
             /\ atrasa(peticion'[x]) = atrasa(peticion[x])
    <2>1. peticion[x] \in Peticion
        BY TipoPeticion
    <2>2. peticion'[x] = [peticion[x] EXCEPT !.fiel = FALSE]
        BY <1>1
    <2>. QED
        BY <2>1, <2>2, CopiaVieja
<1>3. \A n : n \in obras' <=> \E x \in Peticiones \ {q} : n \in enObra(peticion[x])
    BY <1>1, <1>2, EnObras
<1>4. \A n : n \in obras => n \in obras' \/ n \in enObra(peticion[q])
    BY <1>3, EnObras
<1>5. ASSUME NEW x \in Peticiones
      PROVE  Copia(peticion[x])' /\ Obra(x)'
    <2>1. CASE x = q
        <3>1. peticion'[x] = r /\ r.paso \notin {"quitado", "apuntar"}
            BY <1>1, <2>1, SinObra
        <3>. QED
            BY <1>1, <3>1 DEF Copia, Obra
    <2>2. CASE x # q
        BY <1>2, <2>2 DEF Copia, Obra
    <2>. QED
        BY <2>1, <2>2
<1>. QED
    BY <1>1, <1>2, <1>3, <1>4, <1>5 DEF InvCopias

\* The configuration changes the target of one name.
LEMMA TunelesCambio ==
    ASSUME InvTuneles, NEW n \in Servidores, UNCHANGED unidades,
           cfg'.monitor = cfg.monitor,
           \A o \in Servidores \ {n} : cfg'.targets[o] = cfg.targets[o],
           n \in linux(cfg') => cfg'.targets[n].puerto # 0,
           \/ cfg'.targets[n].puerto \in {0, cfg.targets[n].puerto}
           \/ cfg'.targets[n].puerto = Agente /\ n = cfg.monitor
           \/ \A o \in Servidores \ {n} : cfg.targets[o].puerto # cfg'.targets[n].puerto,
           \A o \in Servidores \ {n} : o \in obras => o \in obras',
           n \notin obras' => \A m \in Monitores :
              unidades[m][n] = IF m = cfg.monitor /\ n # m
                               THEN cfg'.targets[n].puerto ELSE 0
    PROVE  InvTuneles'
<1>1. \A o \in Servidores \ {n} : o \in linux(cfg') <=> o \in linux(cfg)
    BY DEF linux
<1>2. \A o \in linux(cfg') : o \in Servidores
    BY DEF linux
<1>3. \A o \in linux(cfg') : cfg'.targets[o].puerto # 0
    BY <1>1, <1>2 DEF InvTuneles
<1>4. ASSUME NEW o \in Servidores, NEW p \in Servidores,
             cfg'.targets[o].puerto = cfg'.targets[p].puerto, cfg'.targets[o].puerto # 0
      PROVE  o = p \/ (cfg'.targets[o].puerto = Agente /\ cfg'.monitor \in {o, p})
    BY <1>4 DEF InvTuneles, deUno
<1>5. ASSUME NEW m \in Monitores, NEW o \in Servidores \ obras'
      PROVE  unidades'[m][o] = debido(o, m)'
    BY <1>5 DEF InvTuneles, debido
<1>. QED
    BY <1>3, <1>4, <1>5 DEF InvTuneles, deUno, linux

\* What Prometheus of m has to scrape.
objetivo(m) == IF m = cfg.monitor THEN mapa(cfg) ELSE Vacio

\* One handler takes a step: it stays in debt, or leaves the monitor as due.
LEMMA PrometheusPaso ==
    ASSUME InvPrometheus, NEW q \in Peticiones,
           \A x \in Peticiones \ {q} : atrasa(peticion'[x]) = atrasa(peticion[x]),
           \A m \in Monitores \ pendiente' :
              \/ m \in atrasa(peticion'[q])
              \/ prometheus'[m] = objetivo(m)'
              \/ /\ m \notin pendiente /\ m \notin atrasa(peticion[q])
                 /\ prometheus'[m] = prometheus[m]
                 /\ objetivo(m)' = objetivo(m)
    PROVE  InvPrometheus'
<1> SUFFICES ASSUME NEW m \in Monitores \ pendiente'
             PROVE  \/ \E x \in Peticiones : m \in atrasa(peticion'[x])
                    \/ prometheus'[m] = objetivo(m)'
    BY DEF InvPrometheus, objetivo
<1>1. CASE m \in atrasa(peticion'[q]) \/ prometheus'[m] = objetivo(m)'
    BY <1>1
<1>2. CASE /\ m \notin pendiente /\ m \notin atrasa(peticion[q])
           /\ prometheus'[m] = prometheus[m]
           /\ objetivo(m)' = objetivo(m)
    <2>1. \/ \E x \in Peticiones : m \in atrasa(peticion[x])
          \/ prometheus[m] = objetivo(m)
        BY <1>2 DEF InvPrometheus, objetivo
    <2>2. ASSUME NEW x \in Peticiones, m \in atrasa(peticion[x])
          PROVE  m \in atrasa(peticion'[x])
        BY <1>2, <2>2
    <2>. QED
        BY <1>2, <2>1, <2>2
<1>. QED
    BY <1>1, <1>2

\* Two configurations with the same monitor and Linux targets want the same of
\* Prometheus.
LEMMA MismoObjetivo ==
    ASSUME cfg'.monitor = cfg.monitor,
           \A n \in Servidores :
              \/ cfg'.targets[n] = cfg.targets[n]
              \/ cfg'.targets[n].tipo # "linux" /\ cfg.targets[n].tipo # "linux"
    PROVE  \A m : objetivo(m)' = objetivo(m)
<1>1. mapa(cfg') = mapa(cfg)
    BY DEF mapa, linux
<1>. QED
    BY <1>1 DEF objetivo

LEMMA Libres ==
    /\ enObra(Libre) = {} /\ atrasa(Libre) = {}
    /\ Libre.fiel = FALSE
    /\ Copia(Libre)
BY DEF enObra, atrasa, Libre, Copia

\* A step of q that changes neither configuration nor Prometheus, and keeps
\* what q owes.
LEMMA PrometheusSeguir ==
    ASSUME Base, InvPrometheus, NEW q \in Peticiones, NEW r, seguir(q, r),
           UNCHANGED <<cfg, prometheus>>, pendiente \subseteq pendiente',
           atrasa(peticion[q]) \subseteq atrasa(r) \cup pendiente'
    PROVE  InvPrometheus'
<1>1. \A x \in Peticiones : peticion'[x] = IF x = q THEN r ELSE peticion[x]
    BY PasoDeUno
<1>2. \A m : objetivo(m)' = objetivo(m)
    BY DEF objetivo, mapa, linux
<1>. QED
    BY <1>1, <1>2, PrometheusPaso

\* Steps that touch neither the configuration nor a tunnel.
LEMMA DerechoConfigLeer ==
    ASSUME Base, Derecho, NEW q \in Peticiones, NEW m \in Monitores, NEW g \in Rangos,
           ConfigLeer(q, m, g)
    PROVE  Derecho'
<1> DEFINE c == [cfg EXCEPT !.monitor = m, !.rango = g]
           r == [Libre EXCEPT !.paso = "config", !.fiel = TRUE, !.cfg = c]
<1>1. c.targets = cfg.targets /\ c.monitor = m
    BY DEF Base, TypeOK, Config
<1>2. r.paso = "config" /\ r.cfg = c
    BY DEF Libre
<1>3. /\ seguir(q, r) /\ peticion[q].paso = "libre"
      /\ cfg.monitor \in {Nadie, m} \/ conTargets(cfg) = {}
      /\ UNCHANGED <<tipo, cfg, unidades, prometheus, desviado, pendiente>>
    BY DEF ConfigLeer
<1> HIDE DEF c, r
<1>4. enObra(peticion[q]) = {} /\ enObra(r) = {}
    BY <1>2, <1>3, SinObra
<1>5. atrasa(peticion[q]) = {}
    BY <1>3, TipoPeticion DEF Sana, atrasa
<1>6. Copia(r)
    BY <1>1, <1>2, <1>3 DEF Copia
<1>7. InvCopias' /\ InvTuneles'
    BY <1>3, <1>4, <1>6, DerechoSeguir DEF Derecho
<1>8. InvPrometheus'
    BY <1>3, <1>5, PrometheusSeguir DEF Derecho
<1>. QED
    BY <1>7, <1>8 DEF Derecho

LEMMA DerechoPrepararLeer ==
    ASSUME Base, Derecho, NEW q \in Peticiones, PrepararLeer(q)
    PROVE  Derecho'
<1> DEFINE r == [Libre EXCEPT !.paso = "configurar", !.fiel = TRUE, !.cfg = cfg]
<1>1. r.paso = "configurar" /\ r.cfg = cfg
    BY DEF Libre
<1>2. /\ seguir(q, r) /\ peticion[q].paso = "libre"
      /\ UNCHANGED <<tipo, cfg, unidades, prometheus, desviado, pendiente>>
    BY DEF PrepararLeer
<1> HIDE DEF r
<1>3. enObra(peticion[q]) = {} /\ enObra(r) = {} /\ Copia(r)
    BY <1>1, <1>2, SinObra DEF Copia
<1>4. atrasa(peticion[q]) = {}
    BY <1>2, TipoPeticion DEF Sana, atrasa
<1>5. InvCopias' /\ InvTuneles'
    BY <1>2, <1>3, DerechoSeguir DEF Derecho
<1>6. InvPrometheus'
    BY <1>2, <1>4, PrometheusSeguir DEF Derecho
<1>. QED
    BY <1>5, <1>6 DEF Derecho

LEMMA DerechoTargetsLeer ==
    ASSUME Base, Derecho, NEW q \in Peticiones, NEW d \in Deseos, TargetsLeer(q, d)
    PROVE  Derecho'
<1> DEFINE r == [Libre EXCEPT !.paso = "bucle", !.fiel = TRUE, !.cfg = cfg,
                              !.quitar = conTargets(cfg) \ d, !.poner = d]
<1>1. r.paso = "bucle" /\ r.cfg = cfg
    BY DEF Libre
<1>2. /\ seguir(q, r) /\ peticion[q].paso = "libre"
      /\ UNCHANGED <<tipo, cfg, unidades, prometheus, desviado, pendiente>>
    BY DEF TargetsLeer
<1> HIDE DEF r
<1>3. enObra(peticion[q]) = {} /\ enObra(r) = {} /\ Copia(r)
    BY <1>1, <1>2, SinObra DEF Copia
<1>4. atrasa(peticion[q]) = {}
    BY <1>2, TipoPeticion DEF Sana, atrasa
<1>5. InvCopias' /\ InvTuneles'
    BY <1>2, <1>3, DerechoSeguir DEF Derecho
<1>6. InvPrometheus'
    BY <1>2, <1>4, PrometheusSeguir DEF Derecho
<1>. QED
    BY <1>5, <1>6 DEF Derecho

\* The loads of a profile change nothing but what the handler knows.
LEMMA DerechoMirar ==
    ASSUME Base, Derecho, NEW q \in Peticiones, NEW r, seguir(q, r),
           peticion[q].paso \in {"bucle", "mirado", "visto"},
           r.paso \in {"mirado", "visto", "datos"},
           r.cfg = peticion[q].cfg, r.fiel = peticion[q].fiel,
           peticion[q].necesita => r.necesita,
           UNCHANGED <<cfg, unidades, prometheus, pendiente>>
    PROVE  Derecho'
<1>1. enObra(peticion[q]) = {} /\ enObra(r) = {}
    BY SinObra
<1>2. atrasa(peticion[q]) \subseteq atrasa(r)
    BY DEF atrasa
<1>3. Copia(r)
    BY DEF Derecho, InvCopias, Copia
<1>4. InvCopias' /\ InvTuneles'
    BY <1>1, <1>3, DerechoSeguir DEF Derecho
<1>5. InvPrometheus'
    BY <1>2, PrometheusSeguir DEF Derecho
<1>. QED
    BY <1>4, <1>5 DEF Derecho

LEMMA DerechoPonerMirar ==
    ASSUME Base, Derecho, NEW q \in Peticiones, PonerMirar(q)
    PROVE  Derecho'
<1>1. PICK n \in Servidores, b \in BOOLEAN :
         (peticion[q].necesita => b) /\ seguir(q, mirada(peticion[q], n, b))
    BY BasePonerMirar
<1> DEFINE r == mirada(peticion[q], n, b)
<1>2. /\ r.paso = "mirado" /\ r.cfg = peticion[q].cfg /\ r.fiel = peticion[q].fiel
      /\ r.necesita = b
    BY TipoPeticion DEF mirada, Peticion
<1>3. peticion[q].paso = "bucle" /\ UNCHANGED <<cfg, unidades, prometheus, pendiente>>
    BY DEF PonerMirar, poniendo
<1> HIDE DEF r
<1>. QED
    BY <1>1, <1>2, <1>3, DerechoMirar DEF r

LEMMA DerechoPonerLinux ==
    ASSUME Base, Derecho, NEW q \in Peticiones, PonerLinux(q)
    PROVE  Derecho'
<1> DEFINE r == vista(peticion[q])
<1>1. /\ r.paso = "visto" /\ r.cfg = peticion[q].cfg /\ r.fiel = peticion[q].fiel
      /\ r.necesita = peticion[q].necesita
    BY TipoPeticion DEF vista, Peticion
<1>2. /\ seguir(q, r) /\ peticion[q].paso = "mirado"
      /\ UNCHANGED <<cfg, unidades, prometheus, pendiente>>
    BY DEF PonerLinux, vista
<1> HIDE DEF r
<1>. QED
    BY <1>1, <1>2, DerechoMirar

LEMMA DerechoPonerDatos ==
    ASSUME Base, Derecho, NEW q \in Peticiones, PonerDatos(q)
    PROVE  Derecho'
<1>1. PICK t \in Tipo : seguir(q, leida(peticion[q], t))
    BY BasePonerDatos
<1> DEFINE r == leida(peticion[q], t)
<1>2. /\ r.paso = "datos" /\ r.cfg = peticion[q].cfg /\ r.fiel = peticion[q].fiel
      /\ r.necesita = peticion[q].necesita
    BY TipoPeticion DEF leida, Peticion
<1>3. peticion[q].paso = "visto" /\ UNCHANGED <<cfg, unidades, prometheus, pendiente>>
    BY DEF PonerDatos
<1> HIDE DEF r
<1>. QED
    BY <1>1, <1>2, <1>3, DerechoMirar DEF r

\* The port passed over none of the targets of the copy, so it is new.
LEMMA DerechoPonerPuerto ==
    ASSUME Base, Derecho, NEW q \in Peticiones, PonerPuerto(q)
    PROVE  Derecho'
<1> DEFINE P == peticion[q]
<1>1. PICK oidos \in SUBSET oibles(P.cfg.monitor), x \in Puertos :
         /\ x \notin ocupados(P.cfg, oidos)
         /\ seguir(q, [P EXCEPT !.paso = "tunel", !.puerto = x])
    BY BasePonerPuerto
<1> DEFINE r == [P EXCEPT !.paso = "tunel", !.puerto = x]
<1>2. /\ r.paso = "tunel" /\ r.cfg = P.cfg /\ r.n = P.n
      /\ r.puerto = x /\ r.fiel = P.fiel /\ r.necesita = P.necesita
    BY TipoPeticion DEF Peticion
<1>3. /\ seguir(q, r) /\ P.paso = "datos" /\ P.cfg.monitor # P.n
      /\ P.cfg.targets[P.n] = SinTarget
      /\ UNCHANGED <<tipo, cfg, unidades, prometheus, desviado, pendiente>>
    BY <1>1 DEF PonerPuerto
<1> HIDE DEF r
<1>4. enObra(P) = {} /\ enObra(r) = {} /\ atrasa(P) = atrasa(r)
    BY <1>2, <1>3, SinObra DEF atrasa
<1>5. Copia(r)
    <2> SUFFICES ASSUME P.fiel
                 PROVE  Copia(r)
        BY <1>2 DEF Copia
    <2>1. P.cfg.monitor = cfg.monitor /\ P.cfg.targets = cfg.targets
        BY <1>3 DEF Derecho, InvCopias, Copia
    <2>2. cfg.targets[P.n].puerto = 0
        BY <1>3, <2>1 DEF SinTarget
    <2>3. x # 0
        BY RangosAssumption DEF Puertos
    <2>4. \A o \in Servidores : cfg.targets[o].puerto # x
        <3>1. \A o \in Servidores : o \in conTargets(P.cfg) \/ cfg.targets[o].puerto = 0
            BY <2>1 DEF conTargets, SinTarget
        <3>. QED
            BY <1>1, <2>1, <2>3, <3>1 DEF ocupados
    <2>. QED
        BY <1>2, <1>3, <2>1, <2>2, <2>4 DEF Copia
<1>6. InvCopias' /\ InvTuneles'
    BY <1>3, <1>4, <1>5, DerechoSeguir DEF Derecho
<1>7. InvPrometheus'
    BY <1>3, <1>4, PrometheusSeguir DEF Derecho
<1>. QED
    BY <1>6, <1>7 DEF Derecho

\* A handler that fails between a change of a tunnel and its save spoils it.
LEMMA DerechoFallar ==
    ASSUME Base, Derecho, ~desviado', NEW q \in Peticiones, Fallar(q)
    PROVE  Derecho'
<1>1. /\ seguir(q, Libre) /\ enObra(peticion[q]) = {}
      /\ pendiente' = pendiente \cup atrasa(peticion[q])
      /\ UNCHANGED <<tipo, cfg, unidades, prometheus>>
    BY DEF Fallar
<1>2. InvCopias' /\ InvTuneles'
    BY <1>1, Libres, DerechoSeguir DEF Derecho
<1>3. InvPrometheus'
    BY <1>1, PrometheusSeguir DEF Derecho
<1>. QED
    BY <1>2, <1>3 DEF Derecho

\* The monitor prepared again scrapes nothing, until the next regeneration.
LEMMA DerechoPrepararConfigurar ==
    ASSUME Base, Derecho, NEW q \in Peticiones, PrepararConfigurar(q)
    PROVE  Derecho'
<1> DEFINE P == peticion[q]
           m == P.cfg.monitor
           r == [P EXCEPT !.paso = "verificar"]
<1>1. /\ r.paso = "verificar" /\ r.cfg = P.cfg /\ r.fiel = P.fiel
    BY TipoPeticion DEF Peticion
<1>2. /\ seguir(q, r) \/ seguir(q, Libre)
      /\ P.paso = "configurar"
      /\ prometheus' = [prometheus EXCEPT ![m] = Vacio]
      /\ pendiente' = pendiente \cup {m}
      /\ UNCHANGED <<tipo, cfg, unidades, desviado>>
    BY DEF PrepararConfigurar
<1> HIDE DEF r
<1>3. PICK s \in {r, Libre} : seguir(q, s)
    BY <1>2
<1>4. enObra(P) = {} /\ enObra(r) = {} /\ atrasa(P) = {}
    BY <1>1, <1>2, SinObra, TipoPeticion DEF atrasa, Sana
<1>5. Copia(r)
    BY <1>1, <1>2 DEF Derecho, InvCopias, Copia
<1>6. InvCopias' /\ InvTuneles'
    BY <1>2, <1>3, <1>4, <1>5, Libres, DerechoSeguir DEF Derecho
<1>7. InvPrometheus'
    <2>1. \A x \in Peticiones : peticion'[x] = IF x = q THEN s ELSE peticion[x]
        BY <1>3, PasoDeUno
    <2>2. \A k : objetivo(k)' = objetivo(k)
        BY <1>2 DEF objetivo, mapa, linux
    <2>3. \A k \in Monitores \ pendiente' : prometheus'[k] = prometheus[k]
        BY <1>2 DEF Base, TypeOK
    <2>4. pendiente \subseteq pendiente'
        BY <1>2
    <2>. QED
        BY <1>4, <2>1, <2>2, <2>3, <2>4, PrometheusPaso DEF Derecho
<1>. QED
    BY <1>6, <1>7 DEF Derecho

\* A regeneration: with a copy over which nobody saved the monitor gets what it
\* has to scrape, and with another it waits.
LEMMA DerechoRegenerar ==
    ASSUME Base, Derecho, NEW q \in Peticiones, NEW r, regenerar(q, r),
           UNCHANGED <<cfg, unidades>>,
           peticion[q].paso \in {"bucle", "regenerar"},
           peticion[q].cfg.monitor # Nadie,
           enObra(r) = {}, Copia(r)
    PROVE  Derecho'
<1> DEFINE P == peticion[q]
           m == P.cfg.monitor
<1>1. /\ seguir(q, r)
      /\ prometheus' = [prometheus EXCEPT ![m] = mapa(P.cfg)]
      /\ pendiente' = IF P.fiel THEN pendiente \ {m} ELSE pendiente \cup {m}
    BY DEF regenerar
<1>2. enObra(P) = {}
    BY SinObra
<1>3. InvCopias' /\ InvTuneles'
    BY <1>1, <1>2, DerechoSeguir DEF Derecho
<1>4. P.fiel => m = cfg.monitor /\ mapa(P.cfg) = mapa(cfg)
    BY DEF Derecho, InvCopias, Copia, mapa, linux
<1>5. InvPrometheus'
    <2>1. \A x \in Peticiones : peticion'[x] = IF x = q THEN r ELSE peticion[x]
        BY <1>1, PasoDeUno
    <2>2. \A k : objetivo(k)' = objetivo(k)
        BY DEF objetivo, mapa, linux
    <2>3. /\ m \in Monitores => prometheus'[m] = mapa(P.cfg)
          /\ \A k \in Monitores \ {m} : prometheus'[k] = prometheus[k]
        BY <1>1 DEF Base, TypeOK
    <2>4. ASSUME NEW k \in Monitores \ pendiente'
          PROVE  \/ k \in atrasa(peticion'[q])
                 \/ prometheus'[k] = objetivo(k)'
                 \/ /\ k \notin pendiente /\ k \notin atrasa(P)
                    /\ prometheus'[k] = prometheus[k]
                    /\ objetivo(k)' = objetivo(k)
        <3>1. CASE k = m
            <4>1. P.fiel
                BY <1>1, <3>1
            <4>. QED
                BY <1>4, <2>2, <2>3, <3>1, <4>1 DEF objetivo
        <3>2. CASE k # m
            BY <1>1, <2>2, <2>3, <3>2 DEF atrasa
        <3>. QED
            BY <3>1, <3>2
    <2>. QED
        BY <2>1, <2>4, PrometheusPaso DEF Derecho
<1>. QED
    BY <1>3, <1>5 DEF Derecho

LEMMA DerechoPonerRegenerar ==
    ASSUME Base, Derecho, NEW q \in Peticiones, PonerRegenerar(q)
    PROVE  Derecho'
<1> DEFINE p == puesta(peticion[q])
<1>1. /\ regenerar(q, p)
      /\ p.paso = "bucle" /\ p.fiel = peticion[q].fiel
      /\ p.cfg = peticion[q].cfg
    BY BasePonerRegenerar
<1>2. peticion[q].paso = "regenerar" /\ UNCHANGED <<cfg, unidades>>
    BY DEF PonerRegenerar
<1>3. peticion[q].cfg.monitor # Nadie
    BY <1>2, TipoPeticion DEF Sana
<1> HIDE DEF p
<1>4. enObra(p) = {} /\ Copia(p)
    BY <1>1, <1>2, SinObra DEF Derecho, InvCopias, Copia
<1>. QED
    BY <1>1, <1>2, <1>3, <1>4, DerechoRegenerar

LEMMA DerechoTerminar ==
    ASSUME Base, Derecho, NEW q \in Peticiones, Terminar(q)
    PROVE  Derecho'
<1>1. peticion[q].paso = "bucle" /\ UNCHANGED <<tipo, cfg, unidades, desviado>>
    BY DEF Terminar
<1>2. CASE peticion[q].necesita
    <2>1. regenerar(q, Libre) /\ peticion[q].cfg.monitor # Nadie
        BY <1>2 DEF Terminar
    <2>. QED
        BY <1>1, <2>1, Libres, DerechoRegenerar
<1>3. CASE ~peticion[q].necesita
    <2>1. seguir(q, Libre) /\ UNCHANGED <<prometheus, pendiente>>
        BY <1>3 DEF Terminar
    <2>2. enObra(peticion[q]) = {} /\ atrasa(peticion[q]) = {}
        BY <1>1, <1>3, SinObra DEF atrasa
    <2>3. InvCopias' /\ InvTuneles'
        BY <1>1, <2>1, <2>2, Libres, DerechoSeguir DEF Derecho
    <2>4. InvPrometheus'
        BY <1>1, <2>1, <2>2, PrometheusSeguir DEF Derecho
    <2>. QED
        BY <2>3, <2>4 DEF Derecho
<1>. QED
    BY <1>2, <1>3

\* Steps that change a tunnel.
LEMMA DerechoQuitarTunel ==
    ASSUME Base, Derecho, ~desviado', NEW q \in Peticiones, NEW n \in Servidores,
           QuitarTunel(q, n)
    PROVE  Derecho'
<1> DEFINE P == peticion[q]
           m == P.cfg.monitor
           r == quitada(P, n)
           hay == n \in linux(P.cfg) /\ n # m /\ m # Nadie
<1>1. /\ r.paso = "quitado" /\ r.n = n /\ r.fiel = P.fiel
      /\ r.necesita <=> P.necesita \/ n \in linux(P.cfg)
      /\ r.cfg.monitor = m
      /\ r.cfg.targets = [P.cfg.targets EXCEPT ![n] = SinTarget]
    BY TipoQuitada
<1>2. /\ seguir(q, r) /\ P.paso = "bucle"
      /\ hay => unidades' = [unidades EXCEPT ![m][n] = 0]
      /\ ~hay => unidades' = unidades /\ ~conTunel(P.cfg, n)
      /\ UNCHANGED <<tipo, cfg, prometheus, pendiente>>
    BY DEF QuitarTunel, quitada
<1> HIDE DEF r
<1>3. /\ \A k \in Monitores, o \in Servidores \ {n} : unidades'[k][o] = unidades[k][o]
      /\ \A k \in Monitores : unidades'[k][n] = IF hay /\ k = m THEN 0 ELSE unidades[k][n]
    <2>1. CASE hay
        <3>1. m \in Monitores
            BY <2>1, TipoPeticion
        <3>2. \A k \in Monitores, o \in Servidores :
                 unidades'[k][o] = IF k = m /\ o = n THEN 0 ELSE unidades[k][o]
            BY <1>2, <2>1, <3>1, TipoUnidad
        <3>. QED
            BY <2>1, <3>2
    <2>2. CASE ~hay
        BY <1>2, <2>2
    <2>. QED
        BY <2>1, <2>2
<1>4. P.fiel => m = cfg.monitor /\ P.cfg.targets = cfg.targets
    BY <1>2 DEF Derecho, InvCopias, Copia
<1>5. Copia(r)
    BY <1>1, <1>4 DEF Copia, linux
<1>6. ASSUME P.fiel, n \notin obras, NEW k \in Monitores
      PROVE  unidades'[k][n] = 0
    <2>1. unidades[k][n] = debido(n, k)
        BY <1>6 DEF Derecho, InvTuneles
    <2>2. (hay /\ k = m) \/ debido(n, k) = 0
        BY <1>2, <1>4, <1>6, ServidoresAssumption DEF conTunel, debido
    <2>. QED
        BY <1>3, <2>1, <2>2
<1>7. enObra(P) = {}
    BY <1>2, SinObra
<1>8. InvCopias' /\ InvTuneles'
    BY <1>1, <1>2, <1>3, <1>5, <1>6, <1>7, ObrasTipo, DerechoTunel DEF Derecho
<1>9. atrasa(P) \subseteq atrasa(r)
    BY <1>1, <1>2 DEF atrasa
<1>10. InvPrometheus'
    BY <1>2, <1>9, PrometheusSeguir DEF Derecho
<1>. QED
    BY <1>8, <1>10 DEF Derecho

LEMMA DerechoPonerTunel ==
    ASSUME Base, Derecho, ~desviado', NEW q \in Peticiones, PonerTunel(q)
    PROVE  Derecho'
<1> DEFINE P == peticion[q]
           m == P.cfg.monitor
           r == [P EXCEPT !.paso = "apuntar"]
<1>1. /\ r.paso = "apuntar" /\ r.n = P.n /\ r.puerto = P.puerto /\ r.fiel = P.fiel
      /\ r.cfg = P.cfg /\ r.necesita = P.necesita
    BY TipoPeticion DEF Peticion
<1>2. /\ seguir(q, r) /\ P.paso = "tunel"
      /\ UNCHANGED <<tipo, cfg, prometheus, pendiente>>
    BY DEF PonerTunel
<1> HIDE DEF r
<1>3. \A k \in Monitores, o \in Servidores :
         unidades'[k][o] = IF k = m /\ o = P.n THEN P.puerto ELSE unidades[k][o]
    BY BasePonerTunel
<1>4. /\ enObra(P) = {} /\ atrasa(P) = atrasa(r)
      /\ P.n \in Servidores
    BY <1>1, <1>2, SinObra, TipoPeticion DEF atrasa, Sana
<1>5. P.fiel => m = cfg.monitor
    BY <1>2 DEF Derecho, InvCopias, Copia
<1>6. Copia(r)
    <2>1. Copia(P)
        BY DEF Derecho, InvCopias
    <2> HIDE DEF P
    <2>. QED
        BY <1>1, <1>2, <2>1 DEF Copia
<1>7. ASSUME P.fiel, P.n \notin obras, NEW k \in Monitores
      PROVE  unidades'[k][P.n] = IF k = cfg.monitor THEN P.puerto ELSE 0
    <2>1. Copia(P)
        BY DEF Derecho, InvCopias
    <2>2. unidades[k][P.n] = 0
        BY <1>2, <1>4, <1>7, <2>1 DEF Derecho, InvTuneles, debido, Copia
    <2>. QED
        BY <1>3, <1>4, <1>5, <1>7, <2>2
<1>8. InvCopias' /\ InvTuneles'
    BY <1>1, <1>2, <1>3, <1>4, <1>6, <1>7, ObrasTipo, DerechoTunel DEF Derecho
<1>9. InvPrometheus'
    BY <1>2, <1>4, PrometheusSeguir DEF Derecho
<1>. QED
    BY <1>8, <1>9 DEF Derecho

\* Saves.  Prometheus is as it was, so the handler owes the monitor its targets
\* or they are the same.
LEMMA PrometheusGuardar ==
    ASSUME InvPrometheus, NEW q \in Peticiones,
           \A x \in Peticiones \ {q} : atrasa(peticion'[x]) = atrasa(peticion[x]),
           UNCHANGED <<prometheus, pendiente>>,
           cfg'.monitor = cfg.monitor,
           atrasa(peticion[q]) \subseteq {cfg.monitor},
           \/ cfg.monitor \in atrasa(peticion'[q])
           \/ /\ atrasa(peticion[q]) \subseteq atrasa(peticion'[q])
              /\ \A m : objetivo(m)' = objetivo(m)
    PROVE  InvPrometheus'
<1>1. ASSUME NEW m \in Monitores \ pendiente'
      PROVE  \/ m \in atrasa(peticion'[q])
             \/ prometheus'[m] = objetivo(m)'
             \/ /\ m \notin pendiente /\ m \notin atrasa(peticion[q])
                /\ prometheus'[m] = prometheus[m]
                /\ objetivo(m)' = objetivo(m)
    <2>1. m # cfg.monitor => objetivo(m)' = objetivo(m)
        BY DEF objetivo
    <2>. QED
        BY <2>1
<1>. QED
    BY <1>1, PrometheusPaso

LEMMA DerechoQuitarGuardar ==
    ASSUME Base, Derecho, ~desviado', NEW q \in Peticiones, QuitarGuardar(q)
    PROVE  Derecho'
<1> DEFINE P == peticion[q]
           p == [P EXCEPT !.paso = "bucle", !.n = Nadie]
           r == [p EXCEPT !.fiel = TRUE]
           n == P.n
<1>1. /\ p.cfg = P.cfg
      /\ r.paso = "bucle" /\ r.cfg = P.cfg /\ r.necesita = P.necesita
    BY TipoPeticion DEF Peticion
<1>2. /\ guardar(q, p.cfg, r) /\ P.paso = "quitado"
      /\ UNCHANGED <<tipo, unidades, prometheus, pendiente>>
    BY DEF QuitarGuardar, guardarFalla
<1> HIDE DEF p, r
<1>3. n \in Servidores /\ enObra(P) = {n} /\ enObra(r) = {}
    BY <1>1, <1>2, TipoPeticion, SinObra DEF Sana
<1>4. /\ InvCopias' /\ cfg' = P.cfg /\ peticion'[q] = r /\ P.fiel
      /\ \A x \in Peticiones \ {q} : atrasa(peticion'[x]) = atrasa(peticion[x])
      /\ \A k : k \in obras' <=> \E x \in Peticiones \ {q} : k \in enObra(peticion[x])
      /\ \A k : k \in obras => k \in obras' \/ k \in enObra(P)
    BY <1>1, <1>2, <1>3, DerechoGuardar
<1>5. Copia(P) /\ Obra(q)
    BY DEF Derecho, InvCopias
<1>6. /\ cfg'.monitor = cfg.monitor
      /\ cfg'.targets = [cfg.targets EXCEPT ![n] = SinTarget]
      /\ n \in linux(cfg) => P.necesita
    BY <1>2, <1>4, <1>5 DEF Copia
<1>7. /\ cfg'.targets[n].puerto = 0 /\ n \notin linux(cfg')
      /\ \A o \in Servidores \ {n} : cfg'.targets[o] = cfg.targets[o]
    BY <1>3, <1>6 DEF Base, TypeOK, Config, linux, SinTarget
<1>8. n \notin obras' => \A m \in Monitores : unidades[m][n] = 0
    <2>1. n \notin obras' => sola(q)
        BY <1>4 DEF sola
    <2>. QED
        BY <1>2, <1>4, <1>5, <2>1 DEF Obra
<1>9. InvTuneles'
    BY <1>2, <1>3, <1>4, <1>6, <1>7, <1>8, TunelesCambio DEF Derecho
<1>10. InvPrometheus'
    <2>1. atrasa(P) \subseteq {cfg.monitor}
        BY <1>4, <1>6 DEF atrasa
    <2>2. atrasa(P) \subseteq atrasa(r)
        BY <1>1, <1>2 DEF atrasa
    <2>3. CASE n \in linux(cfg)
        <3>1. P.necesita /\ cfg.monitor # Nadie
            BY <1>6, <2>3 DEF Base, InvPeticiones, SinMonitor, linux
        <3>2. cfg.monitor \in atrasa(r)
            BY <1>1, <1>4, <1>6, <3>1 DEF atrasa
        <3>. QED
            BY <1>2, <1>4, <1>6, <2>1, <3>2, PrometheusGuardar DEF Derecho
    <2>4. CASE n \notin linux(cfg)
        <3>1. \A m : objetivo(m)' = objetivo(m)
            BY <1>3, <1>6, <1>7, <2>4, MismoObjetivo DEF linux
        <3>. QED
            BY <1>2, <1>4, <1>6, <2>1, <2>2, <3>1, PrometheusGuardar DEF Derecho
    <2>. QED
        BY <2>3, <2>4
<1>. QED
    BY <1>4, <1>9, <1>10 DEF Derecho

\* What the save of a target leaves.
LEMMA ApuntadaGuardada ==
    ASSUME Base, Derecho, ~desviado', NEW q \in Peticiones, NEW n \in Servidores,
           NEW t \in Target, NEW paso \in {"bucle", "regenerar"},
           peticion[q].paso \in {"mirado", "datos", "apuntar"},
           t.tipo = "linux" \/ t.puerto # 0 \/ paso = "regenerar"
              => peticion[q].cfg.monitor # Nadie,
           LET p == apuntada(peticion[q], n, t, paso) IN guardar(q, p.cfg, p),
           UNCHANGED <<unidades, prometheus, pendiente>>
    PROVE  /\ peticion[q].fiel
           /\ peticion[q].cfg.monitor = cfg.monitor
           /\ peticion[q].cfg.targets = cfg.targets
           /\ cfg'.monitor = cfg.monitor
           /\ cfg'.targets[n] = t
           /\ \A o \in Servidores \ {n} : cfg'.targets[o] = cfg.targets[o]
           /\ t # SinTarget /\ cfg.targets[n] # SinTarget =>
                 t.tipo = cfg.targets[n].tipo
           /\ \A k : k \in obras' <=> \E x \in Peticiones \ {q} : k \in enObra(peticion[x])
           /\ \A k : k \in obras => k \in obras' \/ k \in enObra(peticion[q])
           /\ InvCopias'
           /\ \/ paso = "regenerar" \/ t = cfg.targets[n]
              \/ t.tipo # "linux" /\ n \notin linux(cfg)
              => InvPrometheus'
<1> DEFINE P == peticion[q]
           p == apuntada(P, n, t, paso)
<1>1. /\ p.paso = paso /\ p.fiel
      /\ p.necesita = P.necesita
      /\ p.cfg \in Config
      /\ p.cfg.monitor = P.cfg.monitor
      /\ p.cfg.targets = [P.cfg.targets EXCEPT ![n] = t]
    BY TipoApuntada
<1>2. guardar(q, p.cfg, p)
    OBVIOUS
<1> HIDE DEF p
<1>3. enObra(p) = {}
    BY <1>1, SinObra
<1>4. /\ InvCopias' /\ cfg' = p.cfg /\ peticion'[q] = p /\ P.fiel
      /\ ~retipado(q, p.cfg)
      /\ \A x \in Peticiones \ {q} : atrasa(peticion'[x]) = atrasa(peticion[x])
      /\ \A k : k \in obras' <=> \E x \in Peticiones \ {q} : k \in enObra(peticion[x])
      /\ \A k : k \in obras => k \in obras' \/ k \in enObra(P)
    BY <1>1, <1>2, <1>3, DerechoGuardar
<1>5. P.cfg.monitor = cfg.monitor /\ P.cfg.targets = cfg.targets
    <2>1. Copia(P)
        BY DEF Derecho, InvCopias
    <2>. QED
        BY <1>4, <2>1 DEF Copia
<1>6. /\ cfg'.monitor = cfg.monitor
      /\ cfg'.targets[n] = t
      /\ \A o \in Servidores \ {n} : cfg'.targets[o] = cfg.targets[o]
    BY <1>1, <1>4, <1>5 DEF Base, TypeOK, Config
<1>7. t # SinTarget /\ cfg.targets[n] # SinTarget => t.tipo = cfg.targets[n].tipo
    BY <1>4, <1>5, <1>6 DEF retipado, conTargets
<1>8. ASSUME \/ paso = "regenerar" \/ t = cfg.targets[n]
             \/ t.tipo # "linux" /\ n \notin linux(cfg)
      PROVE  InvPrometheus'
    <2>1. atrasa(P) \subseteq {cfg.monitor} /\ atrasa(P) \subseteq atrasa(p)
        BY <1>1, <1>5 DEF atrasa
    <2>2. CASE paso = "regenerar"
        <3>1. cfg.monitor \in atrasa(p)
            BY <1>1, <1>5, <2>2 DEF atrasa
        <3>. QED
            BY <1>4, <1>6, <2>1, <3>1, PrometheusGuardar DEF Derecho
    <2>3. CASE paso # "regenerar"
        <3>1. \A m : objetivo(m)' = objetivo(m)
            BY <1>6, <1>8, <2>3, MismoObjetivo DEF linux
        <3>. QED
            BY <1>4, <1>6, <2>1, <3>1, PrometheusGuardar DEF Derecho
    <2>. QED
        BY <2>2, <2>3
<1>. QED
    BY <1>4, <1>5, <1>6, <1>7, <1>8

LEMMA DerechoPonerMikrotik ==
    ASSUME Base, Derecho, ~desviado', NEW q \in Peticiones, PonerMikrotik(q)
    PROVE  Derecho'
<1> DEFINE P == peticion[q]
           n == P.n
           t == tMikrotik(q)
<1>1. /\ t \in Target /\ t.tipo = "mikrotik"
      /\ t.puerto # 0 => P.cfg.monitor # Nadie
      /\ LET p == apuntada(P, n, t, "bucle") IN guardar(q, p.cfg, p)
    BY BasePonerMikrotik
<1>2. /\ P.paso = "mirado" /\ n \in Servidores
      /\ UNCHANGED <<unidades, prometheus, pendiente>>
    BY TipoPeticion DEF PonerMikrotik, Sana
<1>3. t.puerto = P.cfg.targets[n].puerto
    BY <1>2, TipoPeticion DEF tMikrotik, Target
<1> HIDE DEF n, t
<1>4. /\ P.cfg.targets = cfg.targets
      /\ cfg'.monitor = cfg.monitor
      /\ cfg'.targets[n] = t
      /\ \A o \in Servidores \ {n} : cfg'.targets[o] = cfg.targets[o]
      /\ t # SinTarget /\ cfg.targets[n] # SinTarget => t.tipo = cfg.targets[n].tipo
      /\ \A k : k \in obras => k \in obras' \/ k \in enObra(P)
      /\ InvCopias'
      /\ t.tipo # "linux" /\ n \notin linux(cfg) => InvPrometheus'
    BY <1>1, <1>2, ApuntadaGuardada
<1>5. n \notin linux(cfg) /\ n \notin linux(cfg')
    BY <1>1, <1>4 DEF linux, SinTarget
<1>6. enObra(P) = {}
    BY <1>2, SinObra
<1>7. n \notin obras' => \A m \in Monitores :
         unidades[m][n] = IF m = cfg.monitor /\ n # m THEN t.puerto ELSE 0
    BY <1>2, <1>3, <1>4, <1>6 DEF Derecho, InvTuneles, debido
<1>8. InvTuneles'
    BY <1>2, <1>3, <1>4, <1>5, <1>6, <1>7, TunelesCambio DEF Derecho
<1>. QED
    BY <1>1, <1>4, <1>5, <1>8 DEF Derecho

LEMMA DerechoPonerExistente ==
    ASSUME Base, Derecho, ~desviado', NEW q \in Peticiones, PonerExistente(q)
    PROVE  Derecho'
<1> DEFINE P == peticion[q]
           n == P.n
           t == tExistente(q)
<1>1. /\ t \in Target
      /\ LET p == apuntada(P, n, t, "bucle") IN guardar(q, p.cfg, p)
    BY BasePonerExistente
<1>2. /\ P.paso = "datos" /\ n \in Servidores /\ P.cfg.monitor # Nadie
      /\ P.cfg.targets[n] # SinTarget /\ P.cfg.targets[n] \in Target
      /\ P.tipo # "ninguno"
      /\ UNCHANGED <<unidades, prometheus, pendiente>>
    BY TipoPeticion DEF PonerExistente, Sana
<1>3. /\ t.tipo = P.tipo /\ t # SinTarget
      /\ P.cfg.targets[n].tipo = P.tipo => t = P.cfg.targets[n]
    BY <1>2 DEF Target, tExistente, SinTarget
<1> HIDE DEF n, t
<1>4. /\ P.cfg.targets = cfg.targets
      /\ cfg'.monitor = cfg.monitor
      /\ cfg'.targets[n] = t
      /\ \A o \in Servidores \ {n} : cfg'.targets[o] = cfg.targets[o]
      /\ t # SinTarget /\ cfg.targets[n] # SinTarget => t.tipo = cfg.targets[n].tipo
      /\ \A k : k \in obras => k \in obras' \/ k \in enObra(P)
      /\ InvCopias'
      /\ t = cfg.targets[n] => InvPrometheus'
    BY <1>1, <1>2, ApuntadaGuardada
<1>5. t = cfg.targets[n]
    BY <1>2, <1>3, <1>4
<1>6. enObra(P) = {}
    BY <1>2, SinObra
<1>7. n \notin obras' => \A m \in Monitores :
         unidades[m][n] = IF m = cfg.monitor /\ n # m THEN t.puerto ELSE 0
    BY <1>2, <1>4, <1>5, <1>6 DEF Derecho, InvTuneles, debido
<1>8. n \in linux(cfg') => t.puerto # 0
    BY <1>4, <1>5 DEF Derecho, InvTuneles, linux
<1>9. InvTuneles'
    BY <1>2, <1>4, <1>5, <1>6, <1>7, <1>8, TunelesCambio DEF Derecho
<1>. QED
    BY <1>4, <1>5, <1>9 DEF Derecho

LEMMA DerechoPonerMonitor ==
    ASSUME Base, Derecho, ~desviado', NEW q \in Peticiones, PonerMonitor(q)
    PROVE  Derecho'
<1> DEFINE P == peticion[q]
           n == P.n
           t == tMonitor(q)
<1>1. /\ t \in Target /\ t.puerto = Agente
      /\ LET p == apuntada(P, n, t, "regenerar") IN guardar(q, p.cfg, p)
    BY BasePonerMonitor DEF tMonitor
<1>2. /\ P.paso = "datos" /\ n \in Servidores /\ P.cfg.monitor = n
      /\ P.cfg.monitor # Nadie
      /\ UNCHANGED <<unidades, prometheus, pendiente>>
    BY TipoPeticion DEF PonerMonitor, Sana
<1> HIDE DEF n, t
<1>3. /\ P.cfg.monitor = cfg.monitor
      /\ cfg'.monitor = cfg.monitor
      /\ cfg'.targets[n] = t
      /\ \A o \in Servidores \ {n} : cfg'.targets[o] = cfg.targets[o]
      /\ \A k : k \in obras => k \in obras' \/ k \in enObra(P)
      /\ InvCopias'
      /\ InvPrometheus'
    BY <1>1, <1>2, ApuntadaGuardada
<1>4. n = cfg.monitor
    BY <1>2, <1>3
<1>5. enObra(P) = {}
    BY <1>2, SinObra
<1>6. n \notin obras' => \A m \in Monitores :
         unidades[m][n] = IF m = cfg.monitor /\ n # m THEN t.puerto ELSE 0
    BY <1>2, <1>3, <1>4, <1>5 DEF Derecho, InvTuneles, debido
<1>7. t.puerto # 0
    BY <1>1 DEF Agente
<1>8. InvTuneles'
    BY <1>1, <1>2, <1>3, <1>4, <1>5, <1>6, <1>7, TunelesCambio DEF Derecho
<1>. QED
    BY <1>3, <1>8 DEF Derecho

LEMMA DerechoPonerGuardar ==
    ASSUME Base, Derecho, ~desviado', NEW q \in Peticiones, PonerGuardar(q)
    PROVE  Derecho'
<1> DEFINE P == peticion[q]
           n == P.n
           t == tNuevo(q)
<1>1. /\ t \in Target /\ t.puerto = P.puerto
      /\ LET p == apuntada(P, n, t, "regenerar") IN guardar(q, p.cfg, p)
    BY BasePonerGuardar DEF tNuevo
<1>2. /\ P.paso = "apuntar" /\ n \in Servidores /\ P.cfg.monitor # Nadie
      /\ P.puerto \in Puertos
      /\ UNCHANGED <<unidades, prometheus, pendiente>>
    BY TipoPeticion DEF PonerGuardar, Sana
<1> HIDE DEF t
<1>3. /\ P.fiel
      /\ cfg'.monitor = cfg.monitor
      /\ cfg'.targets[n] = t
      /\ \A o \in Servidores \ {n} : cfg'.targets[o] = cfg.targets[o]
      /\ \A k : k \in obras' <=> \E x \in Peticiones \ {q} : k \in enObra(peticion[x])
      /\ \A k : k \in obras => k \in obras' \/ k \in enObra(P)
      /\ InvCopias'
      /\ InvPrometheus'
    BY <1>1, <1>2, ApuntadaGuardada
<1>4. Copia(P) /\ Obra(q)
    BY DEF Derecho, InvCopias
<1>5. /\ n # cfg.monitor
      /\ \A o \in Servidores : cfg.targets[o].puerto # t.puerto
    BY <1>1, <1>2, <1>3, <1>4 DEF Copia
<1>6. enObra(P) = {n}
    BY <1>2, SinObra
<1>7. n \notin obras' => \A m \in Monitores :
         unidades[m][n] = IF m = cfg.monitor /\ n # m THEN t.puerto ELSE 0
    <2>1. n \notin obras' => sola(q)
        BY <1>3 DEF sola
    <2>. QED
        BY <1>1, <1>2, <1>3, <1>4, <1>5, <2>1 DEF Obra
<1>8. t.puerto # 0
    BY <1>1, <1>2, RangosAssumption DEF Puertos
<1>9. InvTuneles'
    BY <1>1, <1>2, <1>3, <1>5, <1>6, <1>7, <1>8, TunelesCambio DEF Derecho
<1>. QED
    BY <1>3, <1>9 DEF Derecho

\* A save that changes no target, and the monitor only when no target is a
\* Linux one or has a port.
sinPuertos ==
    linux(cfg) = {} /\ \A n \in Servidores : cfg.targets[n].puerto = 0

LEMMA DerechoMismos ==
    ASSUME Base, Derecho, ~desviado', NEW q \in Peticiones, NEW c,
           guardar(q, c, Libre), UNCHANGED <<unidades, prometheus, pendiente>>,
           enObra(peticion[q]) = {}, atrasa(peticion[q]) = {},
           peticion[q].fiel => /\ c.targets = cfg.targets
                               /\ c.monitor = cfg.monitor \/ sinPuertos
    PROVE  Derecho'
<1>1. /\ InvCopias' /\ cfg' = c /\ peticion'[q] = Libre /\ peticion[q].fiel
      /\ \A x \in Peticiones \ {q} : atrasa(peticion'[x]) = atrasa(peticion[x])
      /\ \A k : k \in obras => k \in obras'
    BY Libres, DerechoGuardar
<1>2. /\ cfg'.targets = cfg.targets
      /\ linux(cfg') = linux(cfg)
      /\ cfg'.monitor = cfg.monitor \/ sinPuertos
    BY <1>1 DEF linux
<1>3. InvTuneles'
    <2>1. \A n \in Servidores \ obras' : n \in Servidores \ obras
        BY <1>1
    <2>2. \A m, n : n \in Servidores => debido(n, m)' = debido(n, m)
        BY <1>2 DEF debido, sinPuertos
    <2>3. linux(cfg)' = linux(cfg)
        BY <1>2
    <2>4. deUno(cfg')
        BY <1>2 DEF Derecho, InvTuneles, deUno, sinPuertos
    <2>5. ASSUME NEW m \in Monitores, NEW n \in Servidores \ obras'
          PROVE  unidades'[m][n] = debido(n, m)'
        BY <1>2, <2>1, <2>2 DEF Derecho, InvTuneles
    <2>6. \A n \in linux(cfg') : cfg'.targets[n].puerto # 0
        BY <1>2 DEF Derecho, InvTuneles
    <2>. QED
        BY <2>3, <2>4, <2>5, <2>6 DEF InvTuneles, deUno
<1>4. \A m : objetivo(m)' = objetivo(m)
    <2>1. mapa(cfg') = mapa(cfg)
        BY <1>2 DEF mapa
    <2>2. linux(cfg) = {} => mapa(cfg) = Vacio
        BY DEF mapa, Vacio
    <2>. QED
        BY <1>2, <2>1, <2>2 DEF objetivo, sinPuertos
<1>5. InvPrometheus'
    BY <1>1, <1>4, PrometheusPaso DEF Derecho
<1>. QED
    BY <1>1, <1>3, <1>5 DEF Derecho

LEMMA DerechoPrepararGuardar ==
    ASSUME Base, Derecho, ~desviado', NEW q \in Peticiones, PrepararGuardar(q)
    PROVE  Derecho'
<1> DEFINE P == peticion[q]
           c == [P.cfg EXCEPT !.preparado = TRUE]
<1>1. c.monitor = P.cfg.monitor /\ c.targets = P.cfg.targets
    BY TipoPeticion DEF Config
<1>2. /\ guardar(q, c, Libre) /\ P.paso = "verificar"
      /\ UNCHANGED <<unidades, prometheus, pendiente>>
    BY DEF PrepararGuardar, guardarFalla
<1> HIDE DEF c
<1>3. Copia(P) /\ enObra(P) = {} /\ atrasa(P) = {}
    BY <1>2, SinObra, TipoPeticion DEF Derecho, InvCopias, atrasa, Sana
<1>4. P.fiel => c.targets = cfg.targets /\ c.monitor = cfg.monitor
    BY <1>1, <1>2, <1>3 DEF Copia
<1>. QED
    BY <1>2, <1>3, <1>4, DerechoMismos

LEMMA DerechoConfigGuardar ==
    ASSUME Base, Derecho, ~desviado', NEW q \in Peticiones, ConfigGuardar(q)
    PROVE  Derecho'
<1> DEFINE P == peticion[q]
<1>1. /\ guardar(q, P.cfg, Libre) /\ P.paso = "config"
      /\ UNCHANGED <<unidades, prometheus, pendiente>>
    BY DEF ConfigGuardar, guardarFalla
<1>2. Copia(P) /\ enObra(P) = {} /\ atrasa(P) = {}
    BY <1>1, SinObra, TipoPeticion DEF Derecho, InvCopias, atrasa, Sana
<1>3. cfg.monitor = Nadie \/ conTargets(cfg) = {} => sinPuertos
    BY DEF Base, InvPeticiones, SinMonitor, linux, conTargets, SinTarget, sinPuertos
<1>4. P.fiel => /\ P.cfg.targets = cfg.targets
                /\ P.cfg.monitor = cfg.monitor \/ sinPuertos
    BY <1>1, <1>2, <1>3 DEF Copia
<1>. QED
    BY <1>1, <1>2, <1>4, DerechoMismos

\* Nothing that Derecho speaks of changes.
LEMMA DerechoQuieto ==
    ASSUME Derecho, UNCHANGED <<cfg, unidades, prometheus, peticion, pendiente>>
    PROVE  Derecho'
<1>1. /\ linux(cfg)' = linux(cfg) /\ conTargets(cfg)' = conTargets(cfg)
      /\ mapa(cfg)' = mapa(cfg) /\ obras' = obras
      /\ (deUno(cfg)' <=> deUno(cfg))
      /\ \A n, m : debido(n, m)' = debido(n, m)
    BY DEF linux, conTargets, mapa, obras, deUno, debido
<1>2. \A q \in Peticiones : peticion'[q] = peticion[q] /\ (sola(q)' <=> sola(q))
    BY DEF sola
<1>3. InvCopias'
    BY <1>1, <1>2 DEF Derecho, InvCopias, Copia, Obra
<1>4. InvTuneles'
    BY <1>1 DEF Derecho, InvTuneles
<1>5. InvPrometheus'
    BY <1>1 DEF Derecho, InvPrometheus
<1>. QED
    BY <1>3, <1>4, <1>5 DEF Derecho

LEMMA Inicial ==
    ASSUME Init
    PROVE  IInv
<1>1. TypeOK
    BY TiposConfig DEF Init, TypeOK, Vacio
<1>2. InvPeticiones
    BY TiposConfig DEF Init, InvPeticiones
<1>3. /\ linux(cfg) = {} /\ cfg.monitor = Nadie
      /\ \A n \in Servidores : cfg.targets[n].puerto = 0
      /\ \A m \in Monitores : m # cfg.monitor
    BY TiposConfig, ServidoresAssumption DEF Init, SinMonitor, Defecto, linux
<1>4. InvCopias
    <2>1. \A q \in Peticiones : peticion[q] = Libre
        BY DEF Init
    <2>. QED
        BY <2>1, Libres DEF InvCopias, Obra
<1>5. InvTuneles
    BY <1>3 DEF Init, InvTuneles, deUno, debido, Vacio
<1>6. InvPrometheus
    BY <1>3 DEF Init, InvPrometheus
<1>. QED
    BY <1>1, <1>2, <1>4, <1>5, <1>6 DEF IInv, Derecho

\* Every step keeps the invariant; what has gone wrong for good stays so.
LEMMA Paso ==
    ASSUME IInv, [Next]_vars
    PROVE  IInv'
<1> USE DEF Base
<1>0. Base /\ (~desviado => Derecho)
    BY DEF IInv
<1> SUFFICES Base' /\ (~desviado' => Derecho')
    BY DEF IInv
<1>1. ASSUME NEW q \in Peticiones, NEW m \in Monitores, NEW g \in Rangos,
             ConfigLeer(q, m, g)
      PROVE  Base' /\ (~desviado' => Derecho')
    BY <1>0, <1>1, BaseConfigLeer, DerechoConfigLeer DEF ConfigLeer
<1>2. ASSUME NEW q \in Peticiones, NEW d \in Deseos, TargetsLeer(q, d)
      PROVE  Base' /\ (~desviado' => Derecho')
    BY <1>0, <1>2, BaseTargetsLeer, DerechoTargetsLeer DEF TargetsLeer
<1>3. ASSUME NEW q \in Peticiones, NEW n \in Servidores, QuitarTunel(q, n)
      PROVE  Base' /\ (~desviado' => Derecho')
    BY <1>0, <1>3, BaseQuitarTunel, DerechoQuitarTunel DEF QuitarTunel
<1>4. ASSUME NEW q \in Peticiones, ConfigGuardar(q)
      PROVE  Base' /\ (~desviado' => Derecho')
    BY <1>0, <1>4, BaseConfigGuardar, DerechoConfigGuardar
    DEF ConfigGuardar, guardar, guardarFalla
<1>5. ASSUME NEW q \in Peticiones, PrepararLeer(q)
      PROVE  Base' /\ (~desviado' => Derecho')
    BY <1>0, <1>5, BasePrepararLeer, DerechoPrepararLeer DEF PrepararLeer
<1>6. ASSUME NEW q \in Peticiones, PrepararConfigurar(q)
      PROVE  Base' /\ (~desviado' => Derecho')
    BY <1>0, <1>6, BasePrepararConfigurar, DerechoPrepararConfigurar
    DEF PrepararConfigurar
<1>7. ASSUME NEW q \in Peticiones, PrepararGuardar(q)
      PROVE  Base' /\ (~desviado' => Derecho')
    BY <1>0, <1>7, BasePrepararGuardar, DerechoPrepararGuardar
    DEF PrepararGuardar, guardar, guardarFalla
<1>8. ASSUME NEW q \in Peticiones, QuitarGuardar(q)
      PROVE  Base' /\ (~desviado' => Derecho')
    BY <1>0, <1>8, BaseQuitarGuardar, DerechoQuitarGuardar
    DEF QuitarGuardar, guardar, guardarFalla
<1>9. ASSUME NEW q \in Peticiones, PonerMikrotik(q)
      PROVE  Base' /\ (~desviado' => Derecho')
    BY <1>0, <1>9, BasePonerMikrotik, DerechoPonerMikrotik DEF guardar
<1>10. ASSUME NEW q \in Peticiones, PonerExistente(q)
       PROVE  Base' /\ (~desviado' => Derecho')
    BY <1>0, <1>10, BasePonerExistente, DerechoPonerExistente DEF guardar
<1>11. ASSUME NEW q \in Peticiones, PonerMonitor(q)
       PROVE  Base' /\ (~desviado' => Derecho')
    BY <1>0, <1>11, BasePonerMonitor, DerechoPonerMonitor DEF guardar
<1>12. ASSUME NEW q \in Peticiones, PonerPuerto(q)
       PROVE  Base' /\ (~desviado' => Derecho')
    BY <1>0, <1>12, BasePonerPuerto, DerechoPonerPuerto DEF PonerPuerto
<1>13. ASSUME NEW q \in Peticiones, PonerTunel(q)
       PROVE  Base' /\ (~desviado' => Derecho')
    BY <1>0, <1>13, BasePonerTunel, DerechoPonerTunel DEF PonerTunel
<1>14. ASSUME NEW q \in Peticiones, PonerGuardar(q)
       PROVE  Base' /\ (~desviado' => Derecho')
    BY <1>0, <1>14, BasePonerGuardar, DerechoPonerGuardar DEF guardar
<1>15. ASSUME NEW q \in Peticiones, PonerRegenerar(q)
       PROVE  Base' /\ (~desviado' => Derecho')
    BY <1>0, <1>15, BasePonerRegenerar, DerechoPonerRegenerar DEF PonerRegenerar
<1>16. ASSUME NEW q \in Peticiones, Terminar(q)
       PROVE  Base' /\ (~desviado' => Derecho')
    BY <1>0, <1>16, BaseTerminar, DerechoTerminar DEF Terminar
<1>17. ASSUME NEW q \in Peticiones, Fallar(q)
       PROVE  Base' /\ (~desviado' => Derecho')
    BY <1>0, <1>17, BaseFallar, DerechoFallar DEF Fallar
<1>18. ASSUME NEW n \in Servidores, NEW t \in Tipos[n], EditarPerfil(n, t)
       PROVE  Base' /\ (~desviado' => Derecho')
    BY <1>0, <1>18, BaseEditarPerfil, DerechoQuieto DEF EditarPerfil
<1>19. CASE UNCHANGED vars
    BY <1>0, <1>19, DerechoQuieto
    DEF vars, TypeOK, InvPeticiones, SinMonitor
<1>20. ASSUME NEW q \in Peticiones, PonerMirar(q)
       PROVE  Base' /\ (~desviado' => Derecho')
    BY <1>0, <1>20, BasePonerMirar, DerechoPonerMirar DEF PonerMirar
<1>21. ASSUME NEW q \in Peticiones, PonerLinux(q)
       PROVE  Base' /\ (~desviado' => Derecho')
    BY <1>0, <1>21, BasePonerLinux, DerechoPonerLinux DEF PonerLinux
<1>22. ASSUME NEW q \in Peticiones, PonerDatos(q)
       PROVE  Base' /\ (~desviado' => Derecho')
    BY <1>0, <1>22, BasePonerDatos, DerechoPonerDatos DEF PonerDatos
<1>. QED
    BY <1>1, <1>2, <1>3, <1>4, <1>5, <1>6, <1>7, <1>8, <1>9, <1>10, <1>11, <1>12,
       <1>13, <1>14, <1>15, <1>16, <1>17, <1>18, <1>19, <1>20, <1>21, <1>22 DEF Next

-----------------------------------------------------------------------------
(* Theorems.                                                               *)

\* As long as no handler saves over what another saved, or fails between a
\* change of a tunnel and its save, the copies that are not stale are the
\* configuration, and the tunnels and Prometheus follow it.
THEOREM Invariante == Spec => []IInv
<1>1. Init => IInv
    BY Inicial
<1>2. IInv /\ [Next]_vars => IInv'
    BY Paso
<1>. QED
    BY <1>1, <1>2, PTL DEF Spec

\* Types: whatever goes wrong, a unit has a port of one of the ranges.
THEOREM TipoCorrecto == Spec => []TypeOK
<1>1. IInv => TypeOK
    BY DEF IInv
<1>. QED
    BY <1>1, Invariante, PTL

\* The tunnels on the monitor are those of the configuration (monitoring.go): a
\* Linux server has one, no two tunnels share a port, and only the monitor may
\* be written down with the port of one, which is then that of the agent.
THEOREM TunelesSiempre == Spec => []TunelesDeLaConfig
<1>1. ASSUME IInv
      PROVE  TunelesDeLaConfig
    <2> SUFFICES ASSUME ~desviado, NEW m \in Monitores, NEW n \in Servidores \ obras
                 PROVE  LET u == unidades[m][n] IN
                        IF m = cfg.monitor /\ n # m
                        THEN /\ u = cfg.targets[n].puerto
                             /\ n \in linux(cfg) => u # 0
                             /\ \A o \in conTargets(cfg) \ {n} :
                                   cfg.targets[o].puerto = u /\ u # 0
                                       => u = Agente /\ o = m
                        ELSE u = 0
        BY DEF TunelesDeLaConfig
    <2>1. InvTuneles
        BY <1>1 DEF IInv, Derecho
    <2>2. unidades[m][n] = debido(n, m)
        BY <2>1 DEF InvTuneles
    <2>3. \A o \in conTargets(cfg) : o \in Servidores
        BY DEF conTargets
    <2>. QED
        BY <2>1, <2>2, <2>3 DEF InvTuneles, deUno, debido
<1>. QED
    BY <1>1, Invariante, PTL

\* Prometheus scrapes the targets of the configuration once nobody owes it a
\* regeneration.
THEOREM PrometheusSiempre == Spec => []PrometheusAlDia
<1>1. ASSUME IInv
      PROVE  PrometheusAlDia
    <2> SUFFICES ASSUME ~desviado, cfg.monitor \notin pendiente \cup {Nadie},
                        \A q \in Peticiones : atrasa(peticion[q]) # {cfg.monitor}
                 PROVE  prometheus[cfg.monitor] = mapa(cfg)
        BY DEF PrometheusAlDia
    <2>1. cfg.monitor \in Monitores /\ InvPrometheus
        BY <1>1 DEF IInv, Derecho, TypeOK, Config
    <2>2. \A q \in Peticiones : cfg.monitor \notin atrasa(peticion[q])
        BY DEF atrasa
    <2>. QED
        BY <2>1, <2>2 DEF InvPrometheus
<1>. QED
    BY <1>1, Invariante, PTL
=============================================================================
