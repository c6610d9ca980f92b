----------------------------- MODULE Conexiones -----------------------------
(***************************************************************************)
(* The SSH connections of TunnelForge and the local ports they serve       *)
(* (conectar-gateway/main.go).                                             *)
(*                                                                         *)
(* Every HTTP handler runs in a goroutine of its own and everything below  *)
(* is protected by the global mutex mu, so each critical section of the    *)
(* code is one action.  /api/conectar releases mu while it dials; its      *)
(* handlers are therefore split in phases: Reservar, Marcar*, Registrar,   *)
(* Salir.  Between two phases anything else may happen.                    *)
(*                                                                         *)
(* A Conexion object is an identity in Con, as the pointer is in the code: *)
(* two connections to the same server are told apart by it.  An object     *)
(* whose client is "nulo" is not allocated.                                *)
(***************************************************************************)
EXTENDS Naturals, FiniteSets

CONSTANTS
    Nombres,     \* names of the saved servers
    Orden,       \* rank of strings.ToLower(name); names differing in case tie
    Puertos,     \* local ports some tunnel may use
    Con,         \* identities of Conexion objects
    Peticiones,  \* concurrent handlers of /api/conectar
    Nadie,       \* nil: no connection, no server
    MaxReloj     \* bound on the clock that orders connections

ASSUME OrdenAssumption == Orden \in [Nombres -> Nat]
ASSUME NadieAssumption == Nadie \notin Nombres /\ Nadie \notin Con
ASSUME RelojAssumption == MaxReloj \in Nat

VARIABLES
    conexiones,         \* registry: server name -> Conexion or Nadie
    conectando,         \* names reserved by a handler that is connecting
    servidorLocalhost,  \* server that answers on the shared local ports
    con,                \* immutable fields of each Conexion
    escuchas,           \* local ports each Conexion listens on
    cliente,            \* state of the SSH client of each Conexion
    vigia,              \* Conexiones with a goroutine blocked in cliente.Wait
    peticion,           \* handlers of /api/conectar
    ajenos,             \* local ports held by other programs of the computer
    reloj               \* time.Now(), as far as the order of connections goes

registro == <<conexiones, servidorLocalhost, escuchas>>
vars == <<conexiones, conectando, servidorLocalhost, con, escuchas, cliente,
          vigia, peticion, ajenos, reloj>>

Tipos == {"linux", "mikrotik"}

DatosConexion == [servidor : Nombres \cup {Nadie}, tipo : Tipos,
                  desde : 0..MaxReloj, tuneles : SUBSET Puertos]
SinDatos == [servidor |-> Nadie, tipo |-> "linux", desde |-> 0, tuneles |-> {}]
\* Mutant: the handler forgets the name it reserved.
EnFaseSinNombre(f, n, c) == [fase |-> f, nombre |-> Nadie, con |-> c]

EnFase(f, n, c) == [fase |-> f, nombre |-> n, con |-> c]
Libre == EnFase("libre", Nadie, Nadie)

\* A handler holds a name from its reservation on, and a Conexion only
\* between its Dial and the registry.
DatosPeticion ==
    {Libre} \cup [fase : {"marcando", "saliendo"}, nombre : Nombres, con : {Nadie}]
            \cup [fase : {"abierta"}, nombre : Nombres, con : Con]

-----------------------------------------------------------------------------
(* Who owns a local port.                                                  *)

\* The connections a registry holds.
Registradas(reg) == {reg[n] : n \in Nombres} \ {Nadie}

\* a connected before b; ties are broken by the lower-cased server name.
conexionAntes(a, b) ==
    \/ con[a].desde < con[b].desde
    \/ /\ con[a].desde = con[b].desde
       /\ Orden[con[a].servidor] < Orden[con[b].servidor]

\* What a scan of a Go map in random order with conexionAntes may return.
masAntiguas(S) == {c \in S : \A d \in S : ~conexionAntes(d, c)}

conTunel(reg, p) == {c \in Registradas(reg) : p \in con[c].tuneles}

\* Mutants: any connection with the tunnel may get the port; the oldest gets it
\* whatever the selection.
propietariosCualquiera(reg, loc, p) ==
    IF loc # Nadie /\ reg[loc] \in conTunel(reg, p)
    THEN {reg[loc]}
    ELSE conTunel(reg, p)
propietariosSinSeleccion(reg, loc, p) == masAntiguas(conTunel(reg, p))

\* The selected server if it has the tunnel, else one of the oldest that do.
propietarios(reg, loc, p) ==
    IF loc # Nadie /\ reg[loc] \in conTunel(reg, p)
    THEN {reg[loc]}
    ELSE masAntiguas(conTunel(reg, p))

\* The wishes "deseado" the code may compute: an owner per wanted port.
deseos(reg, loc) ==
    {d \in [Puertos -> Con \cup {Nadie}] :
        \A p \in Puertos : IF conTunel(reg, p) = {}
                           THEN d[p] = Nadie
                           ELSE d[p] \in propietarios(reg, loc, p)}

\* Mutant: the ports that change owner are not released.
soltarNada(reg, deseado, esc) == esc

\* First the ports that change owner are released ...
soltar(reg, deseado, esc) ==
    [c \in Con |-> IF c \in Registradas(reg)
                   THEN {p \in esc[c] : deseado[p] = c}
                   ELSE esc[c]]

\* net.Listen succeeds unless a program, this one included, holds the port.
disponible(p, esc) == p \notin ajenos /\ \A c \in Con : p \notin esc[c]

\* ... then each wanted port is opened on behalf of its owner, if possible.
abrir(deseado, esc) ==
    [c \in Con |->
        esc[c] \cup {p \in Puertos : deseado[p] = c /\ disponible(p, esc)}]

\* Mutant: opens the ports before their former owners release them.
relevarAlReves(reg, deseado, esc) == soltar(reg, deseado, abrir(deseado, esc))

\* Releasing comes first: until then the former owner holds the port.
relevar(reg, deseado, esc) == abrir(deseado, soltar(reg, deseado, esc))

\* The servers reasignarPuertosLocked may leave selected: the current one if
\* it is connected, else the oldest connection's.
destinos(reg, loc) ==
    IF loc # Nadie /\ reg[loc] # Nadie
    THEN {loc}
    ELSE {con[c].servidor : c \in masAntiguas(Registradas(reg))}

\* reasignarPuertosLocked, run on a registry, a selection and the listeners.
reasignarPuertos(reg, loc, esc) ==
    /\ conexiones' = reg
    /\ \/ /\ Registradas(reg) = {}
          /\ servidorLocalhost' = Nadie
          /\ escuchas' = esc
       \/ /\ Registradas(reg) # {}
          /\ \E destino \in destinos(reg, loc) :
             \E deseado \in deseos(reg, destino) :
                /\ servidorLocalhost' = destino
                /\ escuchas' = relevar(reg, deseado, esc)

\* Mutant: the ports and the selection of the connection are not handed over.
cerrarSinReasignar(n) ==
    /\ conexiones' = [conexiones EXCEPT ![n] = Nadie]
    /\ servidorLocalhost' = IF servidorLocalhost = n THEN Nadie ELSE servidorLocalhost
    /\ escuchas' = [escuchas EXCEPT ![conexiones[n]] = {}]

\* cerrarConexion: listeners of the connection are closed, the entry removed,
\* and the ports it served handed over.
cerrarConexion(n) ==
    reasignarPuertos([conexiones EXCEPT ![n] = Nadie],
                     IF servidorLocalhost = n THEN Nadie ELSE servidorLocalhost,
                     [escuchas EXCEPT ![conexiones[n]] = {}])

-----------------------------------------------------------------------------
Init ==
    /\ conexiones = [n \in Nombres |-> Nadie]
    /\ conectando = {}
    /\ servidorLocalhost = Nadie
    /\ con = [c \in Con |-> SinDatos]
    /\ escuchas = [c \in Con |-> {}]
    /\ cliente = [c \in Con |-> "nulo"]
    /\ vigia = {}
    /\ peticion = [q \in Peticiones |-> Libre]
    /\ ajenos \in SUBSET Puertos
    /\ reloj = 0

\* Mutant: a name that is being connected is not refused.
ReservarSinConectando(q, n) ==
    /\ peticion[q].fase = "libre"
    /\ conexiones[n] = Nadie
    /\ conectando' = conectando \cup {n}
    /\ peticion' = [peticion EXCEPT ![q] = EnFase("marcando", n, Nadie)]
    /\ UNCHANGED <<registro, con, cliente, vigia, ajenos, reloj>>

\* /api/conectar, first critical section: reserve the name.  A name connected
\* or being connected is refused, which changes nothing.
Reservar(q, n) ==
    /\ peticion[q].fase = "libre"
    /\ conexiones[n] = Nadie
    /\ n \notin conectando
    /\ conectando' = conectando \cup {n}
    /\ peticion' = [peticion EXCEPT ![q] = EnFase("marcando", n, Nadie)]
    /\ UNCHANGED <<registro, con, cliente, vigia, ajenos, reloj>>

\* conectar gives up before it has a client: no password, an unknown or
\* changed host key, a refused or failed Dial.
MarcarFalla(q) ==
    /\ peticion[q].fase = "marcando"
    /\ peticion' = [peticion EXCEPT
                      ![q] = EnFase("saliendo", peticion[q].nombre, Nadie)]
    /\ UNCHANGED <<registro, conectando, con, cliente, vigia, ajenos, reloj>>

\* ssh.Dial succeeds and the Conexion is built.  Its tunnels are those of the
\* copy of the profile, and none for a MikroTik; time.Now() is read before mu
\* is taken again.
MarcarOk(q, c, tipo, T) ==
    /\ peticion[q].fase = "marcando"
    /\ cliente[c] = "nulo"
    /\ tipo = "mikrotik" => T = {}
    /\ \E t \in {reloj, reloj + 1} :
          /\ t <= MaxReloj
          /\ reloj' = t
          /\ con' = [con EXCEPT ![c] = [servidor |-> peticion[q].nombre,
                                        tipo |-> tipo, desde |-> t,
                                        tuneles |-> T]]
    /\ cliente' = [cliente EXCEPT ![c] = "vivo"]
    /\ peticion' = [peticion EXCEPT
                      ![q] = EnFase("abierta", peticion[q].nombre, c)]
    /\ UNCHANGED <<registro, conectando, vigia, ajenos>>

\* conectar enters the registry.  A second connection to the same server is
\* closed instead.  Without tunnels (RouterOS) no port is reassigned.
Registrar(q) ==
    LET c == peticion[q].con
        n == peticion[q].nombre
        reg == [conexiones EXCEPT ![n] = c]
        loc == IF servidorLocalhost = Nadie THEN n ELSE servidorLocalhost
    IN  /\ peticion[q].fase = "abierta"
        /\ peticion' = [peticion EXCEPT ![q] = EnFase("saliendo", n, Nadie)]
        /\ IF conexiones[n] # Nadie
           THEN /\ cliente' = [cliente EXCEPT ![c] = "nulo"]
                /\ con' = [con EXCEPT ![c] = SinDatos]
                /\ UNCHANGED <<registro, vigia>>
           ELSE /\ IF con[c].tipo = "mikrotik"
                   THEN /\ conexiones' = reg
                        /\ servidorLocalhost' = loc
                        /\ UNCHANGED escuchas
                   ELSE reasignarPuertos(reg, loc, escuchas)
                /\ vigia' = vigia \cup {c}
                /\ UNCHANGED <<cliente, con>>
        /\ UNCHANGED <<conectando, ajenos, reloj>>

\* The deferred delete of the reservation, a critical section of its own.
Salir(q) ==
    /\ peticion[q].fase = "saliendo"
    /\ conectando' = conectando \ {peticion[q].nombre}
    /\ peticion' = [peticion EXCEPT ![q] = Libre]
    /\ UNCHANGED <<registro, con, cliente, vigia, ajenos, reloj>>

\* The SSH transport dies: the server or the network closes it.
CaerEnlace(c) ==
    /\ cliente[c] = "vivo"
    /\ cliente' = [cliente EXCEPT ![c] = "caido"]
    /\ UNCHANGED <<registro, conectando, con, vigia, peticion, ajenos, reloj>>

\* What the watcher does after it closed its connection, or found another one:
\* the object is garbage from then on.
FinVigia(c) ==
    /\ vigia' = vigia \ {c}
    /\ cliente' = [cliente EXCEPT ![c] = "nulo"]
    /\ con' = [con EXCEPT ![c] = SinDatos]
    /\ UNCHANGED <<conectando, peticion, ajenos, reloj>>

\* Mutants: the watcher closes whatever connection the server has now; or only
\* the one selected for localhost.
VigiaSinIdentidad(c) ==
    /\ c \in vigia
    /\ cliente[c] = "caido"
    /\ IF conexiones[con[c].servidor] # Nadie
       THEN cerrarConexion(con[c].servidor)
       ELSE UNCHANGED registro
    /\ FinVigia(c)
VigiaSoloLocalhost(c) ==
    /\ c \in vigia
    /\ cliente[c] = "caido"
    /\ servidorLocalhost = con[c].servidor
    /\ IF conexiones[con[c].servidor] = c
       THEN cerrarConexion(con[c].servidor)
       ELSE UNCHANGED registro
    /\ FinVigia(c)

\* The goroutine blocked in cliente.Wait wakes up, and closes the connection
\* only if the registry still holds this very object.
Vigia(c) ==
    /\ c \in vigia
    /\ cliente[c] = "caido"
    /\ IF conexiones[con[c].servidor] = c
       THEN cerrarConexion(con[c].servidor)
       ELSE UNCHANGED registro
    /\ FinVigia(c)

\* /api/desconectar with a name.
Desconectar(n) ==
    /\ conexiones[n] # Nadie
    /\ cerrarConexion(n)
    /\ cliente' = [cliente EXCEPT ![conexiones[n]] = "caido"]
    /\ UNCHANGED <<conectando, con, vigia, peticion, ajenos, reloj>>

\* Mutant: the registry is emptied but the SSH clients stay open.
DesconectarTodasSinCerrar ==
    /\ Registradas(conexiones) # {}
    /\ conexiones' = [n \in Nombres |-> Nadie]
    /\ servidorLocalhost' = Nadie
    /\ escuchas' = [c \in Con |-> IF c \in Registradas(conexiones)
                                  THEN {} ELSE escuchas[c]]
    /\ UNCHANGED <<conectando, con, cliente, vigia, peticion, ajenos, reloj>>

\* /api/desconectar without a name, and the end of the program: cerrarTodas.
DesconectarTodas ==
    /\ Registradas(conexiones) # {}
    /\ conexiones' = [n \in Nombres |-> Nadie]
    /\ servidorLocalhost' = Nadie
    /\ escuchas' = [c \in Con |-> IF c \in Registradas(conexiones)
                                  THEN {} ELSE escuchas[c]]
    /\ cliente' = [c \in Con |-> IF c \in Registradas(conexiones)
                                 THEN "caido" ELSE cliente[c]]
    /\ UNCHANGED <<conectando, con, vigia, peticion, ajenos, reloj>>

\* /api/localhost-servidor: select the server that answers on localhost.
ElegirLocalhost(n) ==
    /\ conexiones[n] # Nadie
    /\ reasignarPuertos(conexiones, n, escuchas)
    /\ UNCHANGED <<conectando, con, cliente, vigia, peticion, ajenos, reloj>>

\* Mutant: polling only reads.
EstadoSinReintento == UNCHANGED vars

\* /api/estado, polled by the interface: retries the ports that were taken.
Estado ==
    /\ reasignarPuertos(conexiones, servidorLocalhost, escuchas)
    /\ UNCHANGED <<conectando, con, cliente, vigia, peticion, ajenos, reloj>>

\* Another program takes or frees a local port.
AjenoOcupa(p) ==
    /\ disponible(p, escuchas)
    /\ ajenos' = ajenos \cup {p}
    /\ UNCHANGED <<registro, conectando, con, cliente, vigia, peticion, reloj>>

AjenoLibera(p) ==
    /\ p \in ajenos
    /\ ajenos' = ajenos \ {p}
    /\ UNCHANGED <<registro, conectando, con, cliente, vigia, peticion, reloj>>

Next ==
    \/ \E q \in Peticiones, n \in Nombres : Reservar(q, n)
    \/ \E q \in Peticiones : MarcarFalla(q)
    \/ \E q \in Peticiones, c \in Con, tipo \in Tipos, T \in SUBSET Puertos :
          MarcarOk(q, c, tipo, T)
    \/ \E q \in Peticiones : Registrar(q)
    \/ \E q \in Peticiones : Salir(q)
    \/ \E c \in Con : CaerEnlace(c)
    \/ \E c \in Con : Vigia(c)
    \/ \E n \in Nombres : Desconectar(n)
    \/ DesconectarTodas
    \/ \E n \in Nombres : ElegirLocalhost(n)
    \/ Estado
    \/ \E p \in Puertos : AjenoOcupa(p)
    \/ \E p \in Puertos : AjenoLibera(p)

Spec == Init /\ [][Next]_vars

\* The goroutines of the program run, and the interface polls /api/estado
\* every three seconds.  Nothing is assumed of the user, of the network, of
\* other programs, nor of ssh.Dial: its timeout covers the TCP connection but
\* not the SSH handshake.
Fairness ==
    /\ \A q \in Peticiones : WF_vars(Registrar(q)) /\ WF_vars(Salir(q))
    /\ \A c \in Con : WF_vars(Vigia(c))
    /\ WF_vars(Estado)

LiveSpec == Spec /\ Fairness

-----------------------------------------------------------------------------
(* Properties.                                                             *)

\* Every variable has its type.
TypeOK ==
    /\ conexiones \in [Nombres -> Con \cup {Nadie}]
    /\ conectando \in SUBSET Nombres
    /\ servidorLocalhost \in Nombres \cup {Nadie}
    /\ con \in [Con -> DatosConexion]
    /\ escuchas \in [Con -> SUBSET Puertos]
    /\ cliente \in [Con -> {"nulo", "vivo", "caido"}]
    /\ vigia \in SUBSET Con
    /\ peticion \in [Peticiones -> DatosPeticion]
    /\ ajenos \in SUBSET Puertos
    /\ reloj \in 0..MaxReloj

\* The reservation works across the unlocked Dial: at most one handler is
\* connecting to a server, a name is reserved exactly while one is, and when
\* one reaches the registry the server is not in it, so that the "ya estas
\* conectado" of conectar never closes a good client.
ReservaExclusiva ==
    /\ \A q, r \in Peticiones :
          /\ peticion[q].fase # "libre"
          /\ peticion[r].fase # "libre"
          /\ peticion[q].nombre = peticion[r].nombre
          => q = r
    /\ conectando = {peticion[q].nombre :
                        q \in {r \in Peticiones : peticion[r].fase # "libre"}}
    /\ \A q \in Peticiones :
          peticion[q].fase = "abierta" => conexiones[peticion[q].nombre] = Nadie

\* Some server is selected for localhost exactly when one is connected, and it
\* is a connected one: the interface always marks who answers on localhost.
LocalhostValido ==
    IF servidorLocalhost = Nadie
    THEN Registradas(conexiones) = {}
    ELSE conexiones[servidorLocalhost] # Nadie

\* A local port is only ever served by a registered connection that owns it
\* under the rule of propietarioPuertoLocked, whatever the order in which
\* connections come, go and are selected.
PuertosDelPropietario ==
    \A c \in Con : \A p \in escuchas[c] :
        c \in propietarios(conexiones, servidorLocalhost, p)

\* No SSH client is leaked: a live client is in the registry, watched, or
\* still in the hands of the handler that dialled it.
SinClientesHuerfanos ==
    \A c \in Con : cliente[c] = "vivo" =>
        \/ /\ c \in Registradas(conexiones)
           /\ c \in vigia
        \/ \E q \in Peticiones : peticion[q].fase = "abierta" /\ peticion[q].con = c

\* A live connection leaves the registry only because the user asked: the
\* watcher of an earlier connection to the same server never closes it.
CierreSoloPropio ==
    [][\A n \in Nombres :
          /\ conexiones[n] # Nadie
          /\ cliente[conexiones[n]] = "vivo"
          /\ conexiones'[n] # conexiones[n]
          => Desconectar(n) \/ DesconectarTodas]_vars

abierto(p) == \E c \in Con : p \in escuchas[c]

\* A port being served never stops being served while some connected server
\* still has it as a tunnel: selections and disconnections hand it over.
RelevoSinCorte ==
    [][\A p \in Puertos :
          abierto(p) /\ conTunel(conexiones, p)' # {} => abierto(p)']_vars

\* A connection whose transport died leaves the registry.
CaidaDetectada ==
    \A c \in Con :
        (cliente[c] = "caido" /\ c \in Registradas(conexiones))
            ~> ~(cliente[c] = "caido" /\ c \in Registradas(conexiones))

\* "Tambien reintenta puertos que pudieran haber estado ocupados": a port some
\* connection wants and no other program holds ends up served for good.
PuertoReabierto ==
    \A p \in Puertos :
        <>[](conTunel(conexiones, p) # {} /\ p \notin ajenos) => <>[]abierto(p)

\* Polling is idempotent: /api/estado moves no port that is already served.
\* (When two names differ only in case and their connections carry the same
\* time, the order of a Go map decides: see OrdenEmpate in MCConexiones.)
EstadoEstable ==
    [][Estado => \A c \in Con : escuchas[c] \subseteq escuchas'[c]]_vars

(* The program implements the abstract promise about localhost.            *)
Promesa == INSTANCE PuertosLocales WITH
    conectados <- {n \in Nombres : conexiones[n] # Nadie},
    tuneles <- [n \in Nombres |-> IF conexiones[n] = Nadie
                                  THEN {} ELSE con[conexiones[n]].tuneles],
    destino <- servidorLocalhost,
    atiende <- [p \in Puertos |->
                  IF abierto(p)
                  THEN con[CHOOSE c \in Con : p \in escuchas[c]].servidor
                  ELSE Nadie]

\* Whoever answers on localhost:port, and every change of it, is one the
\* abstract module allows: connections implement the promise of the README
\* ("cambiar la seleccion reasigna esos puertos sin tener que reconectar").
ImplementaPromesa == Promesa!Spec
=============================================================================
