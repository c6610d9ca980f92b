-------------------------- MODULE ConexionesProofs --------------------------
(***************************************************************************)
(* Proofs about Conexiones, for every set of names, ports, connections and *)
(* handlers, every order of the names and every bound of the clock.        *)
(***************************************************************************)
EXTENDS Conexiones, TLAPS

-----------------------------------------------------------------------------
(* The inductive invariant.  The properties of Conexiones are not enough   *)
(* by themselves: they hold because a handler, a registry entry and a      *)
(* watcher each know how the object they point to was built.               *)

\* A handler that holds a name finds it absent from the registry until it
\* registers, and the object it has built is its own: live or just dead, for
\* that name, and watched by nobody yet.
InvPeticiones ==
    \A q \in Peticiones :
        /\ peticion[q].fase \in {"marcando", "abierta"} =>
              conexiones[peticion[q].nombre] = Nadie
        /\ peticion[q].fase = "abierta" =>
              /\ con[peticion[q].con].servidor = peticion[q].nombre
              /\ cliente[peticion[q].con] # "nulo"
              /\ peticion[q].con \notin vigia

\* A registered object is registered under its own name, and watched.
InvRegistro ==
    \A n \in Nombres : conexiones[n] # Nadie =>
        /\ con[conexiones[n]].servidor = n
        /\ conexiones[n] \in vigia

\* A watched object is allocated and belongs to a server.
InvVigia == \A c \in vigia : cliente[c] # "nulo" /\ con[c].servidor \in Nombres

\* A RouterOS connection has no tunnels.
InvMikrotik == \A c \in Con : con[c].tipo = "mikrotik" => con[c].tuneles = {}

IInv ==
    /\ TypeOK
    /\ ReservaExclusiva
    /\ InvPeticiones
    /\ InvRegistro
    /\ InvVigia
    /\ InvMikrotik
    /\ LocalhostValido
    /\ SinClientesHuerfanos
    /\ PuertosDelPropietario

\* A local port has one holder: a single connection listens on it, and none
\* while another program of the computer does.
InvEscuchas ==
    /\ \A c, d \in Con : escuchas[c] \cap escuchas[d] # {} => c = d
    /\ \A c \in Con : escuchas[c] \cap ajenos = {}

-----------------------------------------------------------------------------
(* What reasignarPuertosLocked guarantees, whatever registry, selection    *)
(* and listeners it is run on.                                             *)

LEMMA PropietarioRegistrado ==
    ASSUME NEW reg, NEW loc, NEW p, NEW c \in propietarios(reg, loc, p)
    PROVE  c \in conTunel(reg, p) /\ c \in Registradas(reg)
BY DEF propietarios, masAntiguas, conTunel

LEMMA ReasignarTipos ==
    ASSUME con \in [Con -> DatosConexion],
           NEW reg \in [Nombres -> Con \cup {Nadie}],
           NEW loc \in Nombres \cup {Nadie},
           NEW esc \in [Con -> SUBSET Puertos],
           reasignarPuertos(reg, loc, esc)
    PROVE  /\ conexiones' \in [Nombres -> Con \cup {Nadie}]
           /\ servidorLocalhost' \in Nombres \cup {Nadie}
           /\ escuchas' \in [Con -> SUBSET Puertos]
<1>1. conexiones' = reg
    BY DEF reasignarPuertos
<1>2. CASE Registradas(reg) = {}
    BY <1>1, <1>2 DEF reasignarPuertos
<1>3. CASE Registradas(reg) # {}
    <2>1. PICK destino \in destinos(reg, loc) :
              \E deseado \in deseos(reg, destino) :
                 /\ servidorLocalhost' = destino
                 /\ escuchas' = relevar(reg, deseado, esc)
        BY <1>3 DEF reasignarPuertos
    <2>2. PICK deseado \in deseos(reg, destino) :
                 /\ servidorLocalhost' = destino
                 /\ escuchas' = relevar(reg, deseado, esc)
        BY <2>1
    <2>3. Registradas(reg) \subseteq Con
        BY DEF Registradas
    <2>4. destino \in Nombres \cup {Nadie}
        BY <2>3 DEF destinos, masAntiguas, DatosConexion
    <2>5. soltar(reg, deseado, esc) \in [Con -> SUBSET Puertos]
        BY DEF soltar
    <2>6. escuchas' \in [Con -> SUBSET Puertos]
        BY <2>2, <2>5 DEF relevar, abrir
    <2>. QED
        BY <1>1, <2>2, <2>4, <2>6
<1>. QED
    BY <1>2, <1>3

\* The selection it leaves is a connected server, or nobody if none is.
LEMMA ReasignarDestino ==
    ASSUME NEW reg \in [Nombres -> Con \cup {Nadie}],
           NEW loc \in Nombres \cup {Nadie}, NEW esc,
           \A n \in Nombres : reg[n] # Nadie => con[reg[n]].servidor = n,
           reasignarPuertos(reg, loc, esc)
    PROVE  LocalhostValido'
<1>1. conexiones' = reg
    BY DEF reasignarPuertos
<1>2. CASE Registradas(reg) = {}
    BY <1>1, <1>2 DEF reasignarPuertos, LocalhostValido, Registradas
<1>3. CASE Registradas(reg) # {}
    <2>1. servidorLocalhost' \in destinos(reg, loc)
        BY <1>3 DEF reasignarPuertos
    <2>2. ASSUME NEW c \in Registradas(reg)
          PROVE  con[c].servidor \in Nombres /\ reg[con[c].servidor] = c
        BY <2>2 DEF Registradas
    <2>3. servidorLocalhost' \in Nombres /\ reg[servidorLocalhost'] # Nadie
        <3>1. CASE loc # Nadie /\ reg[loc] # Nadie
            BY <2>1, <3>1 DEF destinos
        <3>2. CASE ~(loc # Nadie /\ reg[loc] # Nadie)
            <4>1. PICK c \in masAntiguas(Registradas(reg)) :
                      servidorLocalhost' = con[c].servidor
                BY <2>1, <3>2 DEF destinos
            <4>2. c \in Registradas(reg) /\ c # Nadie
                BY <4>1 DEF masAntiguas, Registradas
            <4>. QED
                BY <2>2, <4>1, <4>2
        <3>. QED
            BY <3>1, <3>2
    <2>. QED
        BY <1>1, <2>3, NadieAssumption DEF LocalhostValido
<1>. QED
    BY <1>2, <1>3

\* Every listener it leaves belongs to an owner of its port, provided only
\* registered connections listened before.
LEMMA ReasignarPropietarios ==
    ASSUME con \in [Con -> DatosConexion],
           NEW reg \in [Nombres -> Con \cup {Nadie}],
           NEW loc \in Nombres \cup {Nadie},
           NEW esc \in [Con -> SUBSET Puertos],
           \A c \in Con : esc[c] # {} => c \in Registradas(reg),
           \A c \in Registradas(reg) : con'[c] = con[c],
           reasignarPuertos(reg, loc, esc)
    PROVE  PuertosDelPropietario'
<1>1. conexiones' = reg
    BY DEF reasignarPuertos
<1>2. Registradas(conexiones)' = Registradas(reg)
    BY <1>1 DEF Registradas
<1>3. CASE Registradas(reg) = {}
    BY <1>3 DEF reasignarPuertos, PuertosDelPropietario
<1>4. CASE Registradas(reg) # {}
    <2>1. PICK destino \in destinos(reg, loc) :
              \E deseado \in deseos(reg, destino) :
                 /\ servidorLocalhost' = destino
                 /\ escuchas' = relevar(reg, deseado, esc)
        BY <1>4 DEF reasignarPuertos
    <2>2. PICK deseado \in deseos(reg, destino) :
                 /\ servidorLocalhost' = destino
                 /\ escuchas' = relevar(reg, deseado, esc)
        BY <2>1
    <2> SUFFICES ASSUME NEW c \in Con, NEW p \in escuchas'[c]
                 PROVE  c \in propietarios(conexiones, servidorLocalhost, p)'
        BY DEF PuertosDelPropietario
    <2>3. p \in Puertos /\ deseado[p] = c
        BY <2>2 DEF relevar, abrir, soltar
    <2>4. c # Nadie
        BY NadieAssumption
    <2>5. c \in propietarios(reg, destino, p)
        BY <2>2, <2>3, <2>4 DEF deseos
    <2>6. conTunel(conexiones, p)' = conTunel(reg, p)
        BY <1>2 DEF conTunel
    <2>7. masAntiguas(conTunel(conexiones, p))' = masAntiguas(conTunel(reg, p))
        BY <1>2, <2>6 DEF masAntiguas, conexionAntes, conTunel
    <2>. QED
        BY <1>1, <2>2, <2>5, <2>6, <2>7 DEF propietarios
<1>. QED
    BY <1>3, <1>4

\* Ownership only depends on the registry, the selection and the fields of
\* the registered connections.
LEMMA PropietariosEstable ==
    ASSUME PuertosDelPropietario, UNCHANGED registro,
           \A c \in Registradas(conexiones) : con'[c] = con[c]
    PROVE  PuertosDelPropietario'
<1> SUFFICES ASSUME NEW c \in Con, NEW p \in escuchas'[c]
             PROVE  c \in propietarios(conexiones, servidorLocalhost, p)'
    BY DEF PuertosDelPropietario
<1>1. c \in propietarios(conexiones, servidorLocalhost, p)
    BY DEF PuertosDelPropietario, registro
<1>2. /\ conexiones' = conexiones
      /\ servidorLocalhost' = servidorLocalhost
      /\ Registradas(conexiones)' = Registradas(conexiones)
    BY DEF registro, Registradas
<1>3. conTunel(conexiones, p)' = conTunel(conexiones, p)
    BY <1>2 DEF conTunel
<1>4. masAntiguas(conTunel(conexiones, p))' = masAntiguas(conTunel(conexiones, p))
    BY <1>2, <1>3 DEF masAntiguas, conexionAntes, conTunel
<1>. QED
    BY <1>1, <1>2, <1>3, <1>4 DEF propietarios

LEMMA SoloRegistradasEscuchan ==
    ASSUME PuertosDelPropietario, NEW c \in Con, escuchas[c] # {}
    PROVE  c \in Registradas(conexiones)
BY PropietarioRegistrado DEF PuertosDelPropietario

\* Closing a registered connection, from a handler or from its watcher.
LEMMA CerrarConexion ==
    ASSUME IInv, NEW n \in Nombres, conexiones[n] # Nadie, cerrarConexion(n),
           \A c \in Con \ {conexiones[n]} : con'[c] = con[c]
    PROVE  /\ conexiones' = [conexiones EXCEPT ![n] = Nadie]
           /\ conexiones' \in [Nombres -> Con \cup {Nadie}]
           /\ servidorLocalhost' \in Nombres \cup {Nadie}
           /\ escuchas' \in [Con -> SUBSET Puertos]
           /\ LocalhostValido'
           /\ PuertosDelPropietario'
<1> DEFINE reg == [conexiones EXCEPT ![n] = Nadie]
           loc == IF servidorLocalhost = n THEN Nadie ELSE servidorLocalhost
           esc == [escuchas EXCEPT ![conexiones[n]] = {}]
<1>1. reasignarPuertos(reg, loc, esc)
    BY DEF cerrarConexion
<1>2. /\ con \in [Con -> DatosConexion]
      /\ reg \in [Nombres -> Con \cup {Nadie}]
      /\ loc \in Nombres \cup {Nadie}
      /\ esc \in [Con -> SUBSET Puertos]
    BY DEF IInv, TypeOK
<1>3. \A m \in Nombres : reg[m] # Nadie => con[reg[m]].servidor = m
    BY DEF IInv, TypeOK, InvRegistro
<1>4. Registradas(reg) = Registradas(conexiones) \ {conexiones[n]}
    BY DEF IInv, TypeOK, InvRegistro, Registradas
<1>5. \A c \in Con : esc[c] # {} => c \in Registradas(reg)
    BY <1>4, SoloRegistradasEscuchan DEF IInv, TypeOK
<1>6. \A c \in Registradas(reg) : con'[c] = con[c]
    BY <1>4 DEF Registradas, IInv, TypeOK
<1> HIDE DEF reg, loc, esc
<1>7. LocalhostValido'
    BY <1>1, <1>2, <1>3, ReasignarDestino
<1>8. PuertosDelPropietario'
    BY <1>1, <1>2, <1>5, <1>6, ReasignarPropietarios
<1>9. conexiones' = reg
    BY <1>1 DEF reasignarPuertos
<1>. QED
    BY <1>1, <1>2, <1>7, <1>8, <1>9, ReasignarTipos DEF reg

-----------------------------------------------------------------------------
(* Each step preserves the invariant.                                      *)

\* What a handler of /api/conectar may hold, by phase.
LEMMA TiposPeticion ==
    ASSUME TypeOK, NEW q \in Peticiones
    PROVE  /\ peticion[q].fase \in {"libre", "marcando", "abierta", "saliendo"}
           /\ peticion[q].fase # "libre" => peticion[q].nombre \in Nombres
           /\ peticion[q].fase = "abierta" => peticion[q].con \in Con
BY DEF TypeOK, DatosPeticion, Libre, EnFase

\* A step that moves handlers between phases without freeing or reserving a
\* name keeps the reservations exclusive, if no handler that has a Conexion
\* finds its name taken afterwards.
LEMMA ReservaEstable ==
    ASSUME ReservaExclusiva, UNCHANGED conectando,
           \A r \in Peticiones :
              /\ peticion'[r].nombre = peticion[r].nombre
              /\ peticion'[r].fase # "libre" <=> peticion[r].fase # "libre"
              /\ peticion'[r].fase = "abierta" =>
                    conexiones'[peticion'[r].nombre] = Nadie
    PROVE  ReservaExclusiva'
<1>1. {r \in Peticiones : peticion[r].fase # "libre"}'
         = {r \in Peticiones : peticion[r].fase # "libre"}
    OBVIOUS
<1>2. conectando' = {peticion'[r].nombre :
                        r \in {s \in Peticiones : peticion'[s].fase # "libre"}}
    BY <1>1 DEF ReservaExclusiva
<1>3. \A r, s \in Peticiones :
         /\ peticion'[r].fase # "libre"
         /\ peticion'[s].fase # "libre"
         /\ peticion'[r].nombre = peticion'[s].nombre
         => r = s
    BY DEF ReservaExclusiva
<1>. QED
    BY <1>2, <1>3 DEF ReservaExclusiva

LEMMA PasoReservar ==
    ASSUME IInv, NEW q \in Peticiones, NEW n \in Nombres, Reservar(q, n)
    PROVE  IInv'
<1>1. TypeOK'
    BY DEF Reservar, IInv, TypeOK, registro, DatosPeticion, EnFase
<1>2. \A r \in Peticiones :
         peticion'[r] = IF r = q THEN EnFase("marcando", n, Nadie) ELSE peticion[r]
    BY DEF Reservar, IInv, TypeOK
<1>3. ReservaExclusiva'
    <2>1. \A r \in Peticiones :
             peticion[r].fase # "libre" => peticion[r].nombre # n
        BY DEF Reservar, IInv, ReservaExclusiva
    <2>. QED
        BY <1>2, <2>1 DEF Reservar, IInv, ReservaExclusiva, registro, EnFase
<1>4. InvPeticiones'
    BY <1>2 DEF Reservar, IInv, InvPeticiones, registro, EnFase
<1>5. (InvRegistro /\ InvVigia /\ InvMikrotik /\ LocalhostValido)'
    BY DEF Reservar, IInv, InvRegistro, InvVigia, InvMikrotik, LocalhostValido,
           registro, Registradas
<1>6. SinClientesHuerfanos'
    BY <1>2 DEF Reservar, IInv, SinClientesHuerfanos, registro, Registradas, EnFase
<1>7. PuertosDelPropietario'
    BY PropietariosEstable DEF Reservar, IInv
<1>. QED
    BY <1>1, <1>3, <1>4, <1>5, <1>6, <1>7 DEF IInv

LEMMA PasoMarcarFalla ==
    ASSUME IInv, NEW q \in Peticiones, MarcarFalla(q)
    PROVE  IInv'
<1>1. TypeOK'
    BY TiposPeticion
    DEF MarcarFalla, IInv, TypeOK, registro, DatosPeticion, EnFase
<1>2. \A r \in Peticiones :
         peticion'[r] = IF r = q
                        THEN EnFase("saliendo", peticion[q].nombre, Nadie)
                        ELSE peticion[r]
    BY DEF MarcarFalla, IInv, TypeOK
<1>3. ReservaExclusiva'
    BY <1>2 DEF MarcarFalla, IInv, ReservaExclusiva, registro, EnFase
<1>4. InvPeticiones'
    BY <1>2 DEF MarcarFalla, IInv, InvPeticiones, registro, EnFase
<1>5. (InvRegistro /\ InvVigia /\ InvMikrotik /\ LocalhostValido)'
    BY DEF MarcarFalla, IInv, InvRegistro, InvVigia, InvMikrotik,
           LocalhostValido, registro, Registradas
<1>6. SinClientesHuerfanos'
    BY <1>2 DEF MarcarFalla, IInv, SinClientesHuerfanos, registro, Registradas, EnFase
<1>7. PuertosDelPropietario'
    BY PropietariosEstable DEF MarcarFalla, IInv
<1>. QED
    BY <1>1, <1>3, <1>4, <1>5, <1>6, <1>7 DEF IInv

LEMMA PasoSalir ==
    ASSUME IInv, NEW q \in Peticiones, Salir(q)
    PROVE  IInv'
<1>1. TypeOK'
    BY DEF Salir, IInv, TypeOK, registro, DatosPeticion
<1>2. \A r \in Peticiones :
         peticion'[r] = IF r = q THEN Libre ELSE peticion[r]
    BY DEF Salir, IInv, TypeOK
<1>3. ReservaExclusiva'
    <2>1. \A r \in Peticiones \ {q} :
             peticion[r].fase # "libre" => peticion[r].nombre # peticion[q].nombre
        BY DEF Salir, IInv, ReservaExclusiva
    <2>. QED
        BY <1>2, <2>1 DEF Salir, IInv, ReservaExclusiva, registro, Libre, EnFase
<1>4. InvPeticiones'
    BY <1>2 DEF Salir, IInv, InvPeticiones, registro, Libre, EnFase
<1>5. (InvRegistro /\ InvVigia /\ InvMikrotik /\ LocalhostValido)'
    BY DEF Salir, IInv, InvRegistro, InvVigia, InvMikrotik, LocalhostValido,
           registro, Registradas
<1>6. SinClientesHuerfanos'
    BY <1>2 DEF Salir, IInv, SinClientesHuerfanos, registro, Registradas
<1>7. PuertosDelPropietario'
    BY PropietariosEstable DEF Salir, IInv
<1>. QED
    BY <1>1, <1>3, <1>4, <1>5, <1>6, <1>7 DEF IInv

LEMMA PasoMarcarOk ==
    ASSUME IInv, NEW q \in Peticiones, NEW c \in Con, NEW tipo \in Tipos,
           NEW T \in SUBSET Puertos, MarcarOk(q, c, tipo, T)
    PROVE  IInv'
<1>1. PICK t \in {reloj, reloj + 1} :
         /\ t <= MaxReloj
         /\ reloj' = t
         /\ con' = [con EXCEPT ![c] = [servidor |-> peticion[q].nombre,
                                      tipo |-> tipo, desde |-> t,
                                      tuneles |-> T]]
    BY DEF MarcarOk
<1>2. t \in 0..MaxReloj
    BY <1>1, RelojAssumption DEF IInv, TypeOK
<1>3. peticion[q].nombre \in Nombres
    BY TiposPeticion DEF MarcarOk, IInv
<1>4. con' \in [Con -> DatosConexion]
    BY <1>1, <1>2, <1>3 DEF IInv, TypeOK, DatosConexion
<1>5. TypeOK'
    BY <1>1, <1>2, <1>3, <1>4
    DEF MarcarOk, IInv, TypeOK, registro, DatosPeticion, EnFase
<1>6. \A r \in Peticiones :
         peticion'[r] = IF r = q
                        THEN EnFase("abierta", peticion[q].nombre, c)
                        ELSE peticion[r]
    BY DEF MarcarOk, IInv, TypeOK
<1>7. /\ con'[c] = [servidor |-> peticion[q].nombre, tipo |-> tipo,
                    desde |-> t, tuneles |-> T]
      /\ \A d \in Con \ {c} : con'[d] = con[d]
    BY <1>1 DEF IInv, TypeOK
<1>8. c \notin vigia /\ c \notin Registradas(conexiones)
    BY DEF MarcarOk, IInv, InvVigia, InvRegistro, Registradas
<1>9. ReservaExclusiva'
    <2>1. conexiones' = conexiones /\ conectando' = conectando
        BY DEF MarcarOk, registro
    <2>2. conexiones[peticion[q].nombre] = Nadie /\ peticion[q].fase = "marcando"
        BY DEF MarcarOk, IInv, InvPeticiones
    <2>3. \A r \in Peticiones :
             /\ peticion'[r].nombre = peticion[r].nombre
             /\ peticion'[r].fase # "libre" <=> peticion[r].fase # "libre"
             /\ peticion'[r].fase = "abierta" =>
                   conexiones'[peticion'[r].nombre] = Nadie
        BY <1>6, <2>1, <2>2 DEF IInv, InvPeticiones, EnFase
    <2>. QED
        BY <2>1, <2>3, ReservaEstable DEF IInv
<1>10. InvPeticiones'
    <2>1. \A r \in Peticiones \ {q} :
             peticion[r].fase = "abierta" => peticion[r].con \in Con \ {c}
        BY TiposPeticion DEF MarcarOk, IInv, InvPeticiones
    <2>2. /\ conexiones' = conexiones /\ vigia' = vigia
          /\ \A d \in Con : cliente'[d] = IF d = c THEN "vivo" ELSE cliente[d]
        BY DEF MarcarOk, IInv, TypeOK, registro
    <2> SUFFICES ASSUME NEW r \in Peticiones
                 PROVE  /\ peticion'[r].fase \in {"marcando", "abierta"} =>
                              conexiones'[peticion'[r].nombre] = Nadie
                        /\ peticion'[r].fase = "abierta" =>
                              /\ con'[peticion'[r].con].servidor = peticion'[r].nombre
                              /\ cliente'[peticion'[r].con] # "nulo"
                              /\ peticion'[r].con \notin vigia'
        BY DEF InvPeticiones
    <2>3. CASE r = q
        <3>1. /\ peticion'[r].fase = "abierta" /\ peticion'[r].con = c
              /\ peticion'[r].nombre = peticion[q].nombre
            BY <1>6, <2>3 DEF EnFase
        <3>. QED
            BY <1>7, <1>8, <2>2, <2>3, <3>1 DEF MarcarOk, IInv, InvPeticiones
    <2>4. CASE r # q
        BY <1>6, <1>7, <2>1, <2>2, <2>4 DEF IInv, InvPeticiones
    <2>. QED
        BY <2>3, <2>4
<1>11. InvRegistro'
    BY <1>7, <1>8 DEF MarcarOk, IInv, TypeOK, InvRegistro, registro, Registradas
<1>12. InvVigia'
    <2>1. /\ vigia' = vigia /\ vigia \subseteq Con
          /\ \A d \in Con \ {c} : cliente'[d] = cliente[d]
        BY DEF MarcarOk, IInv, TypeOK
    <2>. QED
        BY <1>7, <1>8, <2>1 DEF IInv, InvVigia
<1>16. LocalhostValido'
    BY DEF MarcarOk, IInv, LocalhostValido, registro, Registradas
<1>13. InvMikrotik'
    BY <1>7 DEF MarcarOk, IInv, InvMikrotik
<1>14. SinClientesHuerfanos'
    BY <1>6 DEF MarcarOk, IInv, TypeOK, SinClientesHuerfanos, registro, Registradas, EnFase
<1>15. PuertosDelPropietario'
    <2>1. \A d \in Registradas(conexiones) : con'[d] = con[d]
        BY <1>7, <1>8 DEF Registradas, IInv, TypeOK
    <2>. QED
        BY <2>1, PropietariosEstable DEF MarcarOk, IInv
<1>. QED
    BY <1>5, <1>9, <1>10, <1>11, <1>12, <1>13, <1>14, <1>15, <1>16 DEF IInv

LEMMA PasoRegistrar ==
    ASSUME IInv, NEW q \in Peticiones, Registrar(q)
    PROVE  IInv'
<1> DEFINE c == peticion[q].con
           n == peticion[q].nombre
           reg == [conexiones EXCEPT ![n] = c]
           loc == IF servidorLocalhost = Nadie THEN n ELSE servidorLocalhost
<1>1. /\ c \in Con /\ n \in Nombres /\ c # Nadie
      /\ conexiones[n] = Nadie
      /\ con[c].servidor = n
      /\ cliente[c] # "nulo" /\ c \notin vigia
    BY TiposPeticion, NadieAssumption DEF Registrar, IInv, InvPeticiones
<1>2. /\ peticion' = [peticion EXCEPT ![q] = EnFase("saliendo", n, Nadie)]
      /\ vigia' = vigia \cup {c}
      /\ UNCHANGED <<cliente, con, conectando, ajenos, reloj>>
      /\ conexiones' = reg
    BY <1>1 DEF Registrar, reasignarPuertos
<1>3. /\ con \in [Con -> DatosConexion]
      /\ reg \in [Nombres -> Con \cup {Nadie}]
      /\ loc \in Nombres \cup {Nadie}
      /\ escuchas \in [Con -> SUBSET Puertos]
    BY <1>1 DEF IInv, TypeOK
<1>4. \A m \in Nombres : reg[m] # Nadie => con[reg[m]].servidor = m
    BY <1>1 DEF IInv, TypeOK, InvRegistro
<1>5. Registradas(reg) = Registradas(conexiones) \cup {c}
    <2>1. reg[n] = c /\ \A m \in Nombres \ {n} : reg[m] = conexiones[m]
        BY <1>1 DEF IInv, TypeOK
    <2>. QED
        BY <1>1, <2>1 DEF Registradas
<1>6. /\ servidorLocalhost' \in Nombres \cup {Nadie}
      /\ escuchas' \in [Con -> SUBSET Puertos]
      /\ LocalhostValido'
      /\ PuertosDelPropietario'
    <2>1. CASE con[c].tipo = "mikrotik"
        <3>1. servidorLocalhost' = loc /\ escuchas' = escuchas
            BY <1>1, <2>1 DEF Registrar
        <3>2. LocalhostValido'
            BY <1>1, <1>2, <3>1, NadieAssumption DEF LocalhostValido, IInv, TypeOK
        <3>3. PuertosDelPropietario'
            <4> SUFFICES ASSUME NEW d \in Con, NEW p \in escuchas[d]
                         PROVE  d \in propietarios(conexiones, servidorLocalhost, p)'
                BY <3>1 DEF PuertosDelPropietario
            <4>1. d \in propietarios(conexiones, servidorLocalhost, p)
                BY DEF IInv, PuertosDelPropietario
            <4>2. servidorLocalhost # Nadie /\ conexiones[servidorLocalhost] # Nadie
                BY <4>1, PropietarioRegistrado DEF IInv, LocalhostValido
            <4>3. /\ servidorLocalhost' = servidorLocalhost
                  /\ conexiones'[servidorLocalhost] = conexiones[servidorLocalhost]
                BY <1>1, <1>2, <3>1, <4>2 DEF IInv, TypeOK
            <4>4. con[c].tuneles = {}
                BY <1>1, <2>1 DEF IInv, InvMikrotik
            <4>5. conTunel(conexiones, p)' = conTunel(conexiones, p)
                <5>1. Registradas(conexiones)' = Registradas(conexiones) \cup {c}
                    BY <1>2, <1>5 DEF Registradas
                <5>. QED
                    BY <1>2, <4>4, <5>1 DEF conTunel
            <4>6. masAntiguas(conTunel(conexiones, p))'
                     = masAntiguas(conTunel(conexiones, p))
                BY <1>2, <4>5 DEF masAntiguas, conexionAntes
            <4>. QED
                BY <4>1, <4>2, <4>3, <4>5, <4>6 DEF propietarios
        <3>. QED
            BY <1>3, <3>1, <3>2, <3>3
    <2>2. CASE con[c].tipo # "mikrotik"
        <3>1. reasignarPuertos(reg, loc, escuchas)
            BY <1>1, <2>2 DEF Registrar
        <3>2. \A d \in Con : escuchas[d] # {} => d \in Registradas(reg)
            BY <1>5, SoloRegistradasEscuchan DEF IInv
        <3>3. \A d \in Registradas(reg) : con'[d] = con[d]
            BY <1>2
        <3> HIDE DEF reg, loc
        <3>. QED
            BY <1>3, <1>4, <3>1, <3>2, <3>3,
               ReasignarTipos, ReasignarDestino, ReasignarPropietarios
    <2>. QED
        BY <2>1, <2>2
<1>7. TypeOK'
    BY <1>1, <1>2, <1>3, <1>6 DEF IInv, TypeOK, DatosPeticion, EnFase
<1>8. \A r \in Peticiones :
         peticion'[r] = IF r = q THEN EnFase("saliendo", n, Nadie) ELSE peticion[r]
    BY <1>2 DEF IInv, TypeOK
<1>9. \A m \in Nombres : conexiones'[m] = IF m = n THEN c ELSE conexiones[m]
    BY <1>1, <1>2 DEF IInv, TypeOK
<1>10. \A r \in Peticiones \ {q} :
          peticion[r].fase # "libre" => peticion[r].nombre # n
    BY DEF Registrar, IInv, ReservaExclusiva
<1>11. ReservaExclusiva'
    <2>1. peticion[q].fase # "libre"
        BY DEF Registrar
    <2>2. \A r \in Peticiones :
             /\ peticion'[r].nombre = peticion[r].nombre
             /\ peticion'[r].fase # "libre" <=> peticion[r].fase # "libre"
             /\ peticion'[r].fase = "abierta" =>
                    r # q /\ peticion[r].fase = "abierta"
        BY <1>8, <2>1 DEF EnFase
    <2>3. \A r \in Peticiones :
             peticion'[r].fase = "abierta" => conexiones'[peticion'[r].nombre] = Nadie
        BY <1>9, <1>10, <2>2, TiposPeticion DEF IInv, ReservaExclusiva
    <2>. QED
        BY <1>2, <2>2, <2>3, ReservaEstable DEF IInv
<1>12. InvPeticiones'
    <2> SUFFICES ASSUME NEW r \in Peticiones,
                        peticion'[r].fase \in {"marcando", "abierta"}
                 PROVE  /\ conexiones'[peticion'[r].nombre] = Nadie
                        /\ peticion'[r].fase = "abierta" =>
                              /\ con'[peticion'[r].con].servidor = peticion'[r].nombre
                              /\ cliente'[peticion'[r].con] # "nulo"
                              /\ peticion'[r].con \notin vigia'
        BY DEF InvPeticiones
    <2>1. r # q /\ peticion'[r] = peticion[r]
        BY <1>8 DEF EnFase
    <2>2. peticion[r].nombre # n /\ peticion[r].nombre \in Nombres
        BY <1>10, <2>1, TiposPeticion DEF IInv
    <2>3. peticion[r].fase = "abierta" => peticion[r].con # c
        BY <1>1, <2>2 DEF IInv, InvPeticiones
    <2>. QED
        BY <1>2, <1>9, <2>1, <2>2, <2>3 DEF IInv, InvPeticiones
<1>13. (InvRegistro /\ InvVigia /\ InvMikrotik)'
    BY <1>1, <1>2, <1>9 DEF IInv, InvRegistro, InvVigia, InvMikrotik
<1>14. SinClientesHuerfanos'
    <2> SUFFICES ASSUME NEW d \in Con, cliente[d] = "vivo"
                 PROVE  \/ d \in Registradas(conexiones)' /\ d \in vigia'
                        \/ \E r \in Peticiones : /\ peticion'[r].fase = "abierta"
                                                 /\ peticion'[r].con = d
        BY <1>2 DEF SinClientesHuerfanos
    <2>1. Registradas(conexiones)' = Registradas(conexiones) \cup {c}
        BY <1>2, <1>5 DEF Registradas
    <2>2. CASE d \in Registradas(conexiones) /\ d \in vigia
        BY <1>2, <2>1, <2>2
    <2>3. CASE \E r \in Peticiones : peticion[r].fase = "abierta" /\ peticion[r].con = d
        <3>1. PICK r \in Peticiones : peticion[r].fase = "abierta" /\ peticion[r].con = d
            BY <2>3
        <3>2. CASE r = q
            BY <1>2, <2>1, <3>1, <3>2
        <3>3. CASE r # q
            BY <1>8, <3>1, <3>3
        <3>. QED
            BY <3>2, <3>3
    <2>. QED
        BY <2>2, <2>3 DEF IInv, SinClientesHuerfanos
<1>. QED
    BY <1>6, <1>7, <1>11, <1>12, <1>13, <1>14 DEF IInv

LEMMA PasoCaerEnlace ==
    ASSUME IInv, NEW c \in Con, CaerEnlace(c)
    PROVE  IInv'
<1>1. TypeOK'
    BY DEF CaerEnlace, IInv, TypeOK, registro
<1>2. \A d \in Con : cliente'[d] = IF d = c THEN "caido" ELSE cliente[d]
    BY DEF CaerEnlace, IInv, TypeOK
<1>3. ReservaExclusiva'
    BY DEF CaerEnlace, IInv, ReservaExclusiva, registro
<1>4. InvPeticiones'
    BY <1>2, TiposPeticion DEF CaerEnlace, IInv, InvPeticiones, registro
<1>5. (InvRegistro /\ InvVigia /\ InvMikrotik /\ LocalhostValido)'
    BY <1>2 DEF CaerEnlace, IInv, TypeOK, InvRegistro, InvVigia, InvMikrotik,
                LocalhostValido, registro, Registradas
<1>6. SinClientesHuerfanos'
    BY <1>2 DEF CaerEnlace, IInv, SinClientesHuerfanos, registro, Registradas
<1>7. PuertosDelPropietario'
    BY PropietariosEstable DEF CaerEnlace, IInv
<1>. QED
    BY <1>1, <1>3, <1>4, <1>5, <1>6, <1>7 DEF IInv

LEMMA PasoVigia ==
    ASSUME IInv, NEW c \in Con, Vigia(c)
    PROVE  IInv'
<1> DEFINE n == con[c].servidor
<1>1. /\ c \in vigia /\ cliente[c] = "caido"
      /\ vigia' = vigia \ {c}
      /\ \A d \in Con : cliente'[d] = IF d = c THEN "nulo" ELSE cliente[d]
      /\ \A d \in Con : con'[d] = IF d = c THEN SinDatos ELSE con[d]
      /\ UNCHANGED <<conectando, peticion, ajenos, reloj>>
    BY DEF Vigia, FinVigia, IInv, TypeOK
<1>2. SinDatos \in DatosConexion
    BY RelojAssumption DEF SinDatos, DatosConexion, Tipos
\* The registry no longer holds this object, and only lost this object.
<1>3. /\ conexiones' \in [Nombres -> Con \cup {Nadie}]
      /\ servidorLocalhost' \in Nombres \cup {Nadie}
      /\ escuchas' \in [Con -> SUBSET Puertos]
      /\ LocalhostValido'
      /\ PuertosDelPropietario'
      /\ \A m \in Nombres : conexiones'[m] = IF conexiones[m] = c THEN Nadie
                                             ELSE conexiones[m]
    <2>1. CASE conexiones[n] = c
        <3>1. n \in Nombres /\ conexiones[n] # Nadie
            BY <1>1, <2>1, NadieAssumption DEF IInv, InvVigia
        <3>2. cerrarConexion(n)
            BY <2>1 DEF Vigia, FinVigia
        <3>3. \A d \in Con \ {conexiones[n]} : con'[d] = con[d]
            BY <1>1, <2>1
        <3>4. \A m \in Nombres : conexiones[m] = c => m = n
            BY NadieAssumption DEF IInv, InvRegistro
        <3> HIDE DEF n
        <3>5. conexiones' = [conexiones EXCEPT ![n] = Nadie]
            BY <3>1, <3>2, <3>3, CerrarConexion
        <3>6. \A m \in Nombres : conexiones'[m] = IF conexiones[m] = c THEN Nadie
                                                ELSE conexiones[m]
            BY <2>1, <3>1, <3>4, <3>5 DEF IInv, TypeOK
        <3>. QED
            BY <3>1, <3>2, <3>3, <3>6, CerrarConexion
    <2>2. CASE conexiones[n] # c
        <3>1. UNCHANGED registro
            BY <2>2 DEF Vigia, FinVigia
        <3>2. \A m \in Nombres : conexiones[m] # c
            BY <2>2, NadieAssumption DEF IInv, InvRegistro
        <3>3. \A d \in Registradas(conexiones) : con'[d] = con[d]
            BY <1>1, <3>2 DEF Registradas, IInv, TypeOK
        <3>4. PuertosDelPropietario'
            BY <3>1, <3>3, PropietariosEstable DEF IInv
        <3>. QED
            BY <3>1, <3>2, <3>4
            DEF registro, IInv, TypeOK, LocalhostValido, Registradas
    <2>. QED
        BY <2>1, <2>2
<1>4. TypeOK'
    BY <1>1, <1>2, <1>3 DEF Vigia, FinVigia, IInv, TypeOK
<1>5. ReservaExclusiva'
    <2>1. \A q \in Peticiones : peticion[q].fase = "abierta" =>
             /\ peticion[q].nombre \in Nombres
             /\ conexiones[peticion[q].nombre] = Nadie
        BY TiposPeticion DEF IInv, ReservaExclusiva
    <2>. QED
        BY <1>1, <1>3, <2>1, ReservaEstable DEF IInv
\* A handler's own object is never the one that is collected.
<1>6. InvPeticiones'
    <2>1. \A q \in Peticiones :
             /\ peticion[q].fase # "libre" => peticion[q].nombre \in Nombres
             /\ peticion[q].fase = "abierta" => peticion[q].con \in Con \ {c}
        BY <1>1, TiposPeticion DEF IInv, InvPeticiones
    <2> SUFFICES ASSUME NEW q \in Peticiones
                 PROVE  /\ peticion[q].fase \in {"marcando", "abierta"} =>
                              conexiones'[peticion[q].nombre] = Nadie
                        /\ peticion[q].fase = "abierta" =>
                              /\ con'[peticion[q].con].servidor = peticion[q].nombre
                              /\ cliente'[peticion[q].con] # "nulo"
                              /\ peticion[q].con \notin vigia'
        BY <1>1 DEF InvPeticiones
    <2>2. ASSUME peticion[q].fase \in {"marcando", "abierta"}
          PROVE  conexiones'[peticion[q].nombre] = Nadie
        <3>1. peticion[q].nombre \in Nombres /\ conexiones[peticion[q].nombre] = Nadie
            BY <2>1, <2>2 DEF IInv, InvPeticiones
        <3>. QED
            BY <1>3, <3>1
    <2>3. ASSUME peticion[q].fase = "abierta"
          PROVE  /\ con'[peticion[q].con].servidor = peticion[q].nombre
                 /\ cliente'[peticion[q].con] # "nulo"
                 /\ peticion[q].con \notin vigia'
        <3>1. /\ peticion[q].con \in Con \ {c}
              /\ con[peticion[q].con].servidor = peticion[q].nombre
              /\ cliente[peticion[q].con] # "nulo"
              /\ peticion[q].con \notin vigia
            BY <2>1, <2>3 DEF IInv, InvPeticiones
        <3>. QED
            BY <1>1, <3>1
    <2>. QED
        BY <2>2, <2>3
<1>7. InvRegistro' /\ InvVigia'
    BY <1>1, <1>3 DEF IInv, TypeOK, InvRegistro, InvVigia
<1>8. InvMikrotik'
    BY <1>1 DEF IInv, InvMikrotik, SinDatos
<1>9. SinClientesHuerfanos'
    <2>1. \A d \in Con \ {c} : d \in Registradas(conexiones) => d \in Registradas(conexiones)'
        BY <1>3 DEF Registradas
    <2>. QED
        BY <1>1, <2>1 DEF IInv, SinClientesHuerfanos
<1>. QED
    BY <1>3, <1>4, <1>5, <1>6, <1>7, <1>8, <1>9 DEF IInv

LEMMA PasoDesconectar ==
    ASSUME IInv, NEW n \in Nombres, Desconectar(n)
    PROVE  IInv'
<1> DEFINE c == conexiones[n]
<1>1. /\ c \in Con
      /\ \A d \in Con : cliente'[d] = IF d = c THEN "caido" ELSE cliente[d]
      /\ UNCHANGED <<conectando, con, vigia, peticion, ajenos, reloj>>
    BY DEF Desconectar, IInv, TypeOK
<1>2. /\ conexiones' = [conexiones EXCEPT ![n] = Nadie]
      /\ conexiones' \in [Nombres -> Con \cup {Nadie}]
      /\ servidorLocalhost' \in Nombres \cup {Nadie}
      /\ escuchas' \in [Con -> SUBSET Puertos]
      /\ LocalhostValido'
      /\ PuertosDelPropietario'
    BY <1>1, CerrarConexion DEF Desconectar
<1>3. TypeOK'
    BY <1>1, <1>2 DEF Desconectar, IInv, TypeOK
<1>4. \A m \in Nombres : conexiones'[m] = IF m = n THEN Nadie ELSE conexiones[m]
    BY <1>2 DEF IInv, TypeOK
<1>5. ReservaExclusiva' /\ InvPeticiones'
    <2>1. \A q \in Peticiones :
             /\ peticion[q].fase # "libre" => peticion[q].nombre \in Nombres
             /\ peticion[q].fase = "abierta" => peticion[q].con \in Con
        BY TiposPeticion DEF IInv
    <2>2. ASSUME NEW q \in Peticiones, peticion[q].fase \in {"marcando", "abierta"}
          PROVE  conexiones'[peticion[q].nombre] = Nadie
        <3>1. peticion[q].nombre \in Nombres /\ conexiones[peticion[q].nombre] = Nadie
            BY <2>1, <2>2 DEF IInv, InvPeticiones
        <3>. QED
            BY <1>4, <3>1
    <2>3. ReservaExclusiva'
        BY <1>1, <2>2, ReservaEstable DEF IInv
    <2>4. InvPeticiones'
        <3> SUFFICES ASSUME NEW q \in Peticiones, peticion[q].fase = "abierta"
                     PROVE  /\ con'[peticion[q].con].servidor = peticion[q].nombre
                            /\ cliente'[peticion[q].con] # "nulo"
                            /\ peticion[q].con \notin vigia'
            BY <1>1, <2>2 DEF InvPeticiones
        <3>1. peticion[q].con \in Con
            BY <2>1
        <3>. QED
            BY <1>1, <3>1 DEF IInv, InvPeticiones
    <2>. QED
        BY <2>3, <2>4
<1>6. (InvRegistro /\ InvVigia /\ InvMikrotik)'
    BY <1>1, <1>4 DEF IInv, TypeOK, InvRegistro, InvVigia, InvMikrotik
<1>7. SinClientesHuerfanos'
    <2>1. \A d \in Con \ {c} : d \in Registradas(conexiones) => d \in Registradas(conexiones)'
        BY <1>4 DEF Registradas
    <2>. QED
        BY <1>1, <2>1 DEF IInv, SinClientesHuerfanos
<1>. QED
    BY <1>2, <1>3, <1>5, <1>6, <1>7 DEF IInv

LEMMA PasoDesconectarTodas ==
    ASSUME IInv, DesconectarTodas
    PROVE  IInv'
<1>1. /\ conexiones' = [n \in Nombres |-> Nadie]
      /\ servidorLocalhost' = Nadie
      /\ UNCHANGED <<conectando, con, vigia, peticion, ajenos, reloj>>
      /\ \A c \in Con : cliente'[c] = IF c \in Registradas(conexiones)
                                     THEN "caido" ELSE cliente[c]
    BY DEF DesconectarTodas
\* Only registered connections listened, so nobody does any more.
<1>2. \A c \in Con : escuchas'[c] = {}
    BY SoloRegistradasEscuchan DEF DesconectarTodas, IInv
<1>3. TypeOK'
    BY <1>1 DEF DesconectarTodas, IInv, TypeOK
<1>4. ReservaExclusiva' /\ InvPeticiones'
    <2>1. \A q \in Peticiones :
             /\ peticion[q].fase # "libre" => peticion[q].nombre \in Nombres
             /\ peticion[q].fase = "abierta" => peticion[q].con \in Con
        BY TiposPeticion DEF IInv
    <2>2. \A q \in Peticiones : peticion[q].fase \in {"marcando", "abierta"} =>
             conexiones'[peticion[q].nombre] = Nadie
        BY <1>1, <2>1
    <2>3. ReservaExclusiva'
        BY <1>1, <2>2, ReservaEstable DEF IInv
    <2>. QED
        BY <1>1, <2>1, <2>2, <2>3 DEF IInv, InvPeticiones
<1>5. (InvRegistro /\ InvVigia /\ InvMikrotik)'
    BY <1>1 DEF IInv, TypeOK, InvRegistro, InvVigia, InvMikrotik
<1>6. LocalhostValido'
    BY <1>1 DEF LocalhostValido, Registradas
<1>7. SinClientesHuerfanos'
    BY <1>1 DEF IInv, SinClientesHuerfanos
<1>8. PuertosDelPropietario'
    BY <1>2 DEF PuertosDelPropietario
<1>. QED
    BY <1>3, <1>4, <1>5, <1>6, <1>7, <1>8 DEF IInv

\* A bare reassignment: the handlers that select a server or poll the state.
LEMMA PasoReasignar ==
    ASSUME IInv, NEW loc \in Nombres \cup {Nadie},
           reasignarPuertos(conexiones, loc, escuchas),
           UNCHANGED <<conectando, con, cliente, vigia, peticion, ajenos, reloj>>
    PROVE  IInv'
<1>1. /\ con \in [Con -> DatosConexion]
      /\ conexiones \in [Nombres -> Con \cup {Nadie}]
      /\ escuchas \in [Con -> SUBSET Puertos]
    BY DEF IInv, TypeOK
<1>2. conexiones' = conexiones
    BY DEF reasignarPuertos
<1>3. /\ servidorLocalhost' \in Nombres \cup {Nadie}
      /\ escuchas' \in [Con -> SUBSET Puertos]
    BY <1>1, ReasignarTipos
<1>4. LocalhostValido'
    BY <1>1, ReasignarDestino DEF IInv, InvRegistro
<1>5. PuertosDelPropietario'
    <2>1. \A c \in Con : escuchas[c] # {} => c \in Registradas(conexiones)
        BY SoloRegistradasEscuchan DEF IInv
    <2>2. \A c \in Registradas(conexiones) : con'[c] = con[c]
        OBVIOUS
    <2>. QED
        BY <1>1, <2>1, <2>2, ReasignarPropietarios
<1>6. TypeOK'
    BY <1>2, <1>3 DEF IInv, TypeOK
<1>7. ReservaExclusiva'
    BY <1>2, ReservaEstable DEF IInv, ReservaExclusiva
<1>8. (InvPeticiones /\ InvRegistro /\ InvVigia /\ InvMikrotik)'
    BY <1>2 DEF IInv, InvPeticiones, InvRegistro, InvVigia, InvMikrotik
<1>9. SinClientesHuerfanos'
    BY <1>2 DEF IInv, SinClientesHuerfanos, Registradas
<1>. QED
    BY <1>4, <1>5, <1>6, <1>7, <1>8, <1>9 DEF IInv

LEMMA PasoAjenos ==
    ASSUME IInv, NEW p \in Puertos, AjenoOcupa(p) \/ AjenoLibera(p)
    PROVE  IInv'
<1>1. UNCHANGED <<conexiones, servidorLocalhost, escuchas, conectando, con,
                  cliente, vigia, peticion, reloj>>
    BY DEF AjenoOcupa, AjenoLibera, registro
<1>2. ajenos' \in SUBSET Puertos
    BY DEF AjenoOcupa, AjenoLibera, IInv, TypeOK
<1>3. TypeOK'
    BY <1>1, <1>2 DEF IInv, TypeOK
<1>4. ReservaExclusiva'
    BY <1>1, ReservaEstable DEF IInv, ReservaExclusiva
<1>5. (InvPeticiones /\ InvRegistro /\ InvVigia /\ InvMikrotik)'
    BY <1>1 DEF IInv, InvPeticiones, InvRegistro, InvVigia, InvMikrotik
<1>6. LocalhostValido' /\ SinClientesHuerfanos'
    BY <1>1 DEF IInv, LocalhostValido, SinClientesHuerfanos, Registradas
<1>7. PuertosDelPropietario'
    BY <1>1, PropietariosEstable DEF IInv, registro
<1>. QED
    BY <1>3, <1>4, <1>5, <1>6, <1>7 DEF IInv

-----------------------------------------------------------------------------
(* The theorems.                                                           *)

\* Every reachable state satisfies the inductive invariant.
THEOREM Invariante == Spec => []IInv
<1>1. Init => IInv
    <2> SUFFICES ASSUME Init
                 PROVE  IInv
        OBVIOUS
    <2>1. TypeOK
        BY RelojAssumption
        DEF Init, TypeOK, SinDatos, DatosConexion, Tipos, DatosPeticion
    <2>2. Registradas(conexiones) = {}
        BY DEF Init, Registradas
    <2>3. \A q \in Peticiones : peticion[q].fase = "libre"
        BY DEF Init, Libre, EnFase
    <2>4. ReservaExclusiva /\ InvPeticiones
        BY <2>3 DEF Init, ReservaExclusiva, InvPeticiones
    <2>5. InvRegistro /\ InvVigia /\ InvMikrotik /\ LocalhostValido
        BY <2>2 DEF Init, InvRegistro, InvVigia, InvMikrotik, SinDatos, LocalhostValido
    <2>6. SinClientesHuerfanos /\ PuertosDelPropietario
        BY DEF Init, SinClientesHuerfanos, PuertosDelPropietario
    <2>. QED
        BY <2>1, <2>4, <2>5, <2>6 DEF IInv
<1>2. IInv /\ [Next]_vars => IInv'
    <2> SUFFICES ASSUME IInv, [Next]_vars
                 PROVE  IInv'
        OBVIOUS
    <2>1. CASE \E q \in Peticiones, n \in Nombres : Reservar(q, n)
        BY <2>1, PasoReservar
    <2>2. CASE \E q \in Peticiones : MarcarFalla(q)
        BY <2>2, PasoMarcarFalla
    <2>3. CASE \E q \in Peticiones, c \in Con, tipo \in Tipos, T \in SUBSET Puertos :
                  MarcarOk(q, c, tipo, T)
        BY <2>3, PasoMarcarOk
    <2>4. CASE \E q \in Peticiones : Registrar(q)
        BY <2>4, PasoRegistrar
    <2>5. CASE \E q \in Peticiones : Salir(q)
        BY <2>5, PasoSalir
    <2>6. CASE \E c \in Con : CaerEnlace(c)
        BY <2>6, PasoCaerEnlace
    <2>7. CASE \E c \in Con : Vigia(c)
        BY <2>7, PasoVigia
    <2>8. CASE \E n \in Nombres : Desconectar(n)
        BY <2>8, PasoDesconectar
    <2>9. CASE DesconectarTodas
        BY <2>9, PasoDesconectarTodas
    <2>10. CASE \E n \in Nombres : ElegirLocalhost(n)
        BY <2>10, PasoReasignar DEF ElegirLocalhost
    <2>11. CASE Estado
        <3>1. servidorLocalhost \in Nombres \cup {Nadie}
            BY DEF IInv, TypeOK
        <3>. QED
            BY <2>11, <3>1, PasoReasignar DEF Estado
    <2>12. CASE \E p \in Puertos : AjenoOcupa(p) \/ AjenoLibera(p)
        BY <2>12, PasoAjenos
    <2>13. CASE UNCHANGED vars
        <3>1. UNCHANGED <<conexiones, servidorLocalhost, escuchas, conectando, con,
                          cliente, vigia, peticion, ajenos, reloj>>
            BY <2>13 DEF vars
        <3>2. TypeOK'
            BY <3>1 DEF IInv, TypeOK
        <3>3. ReservaExclusiva'
            BY <3>1, ReservaEstable DEF IInv, ReservaExclusiva
        <3>4. (InvPeticiones /\ InvRegistro /\ InvVigia /\ InvMikrotik)'
            BY <3>1 DEF IInv, InvPeticiones, InvRegistro, InvVigia, InvMikrotik
        <3>5. LocalhostValido' /\ SinClientesHuerfanos'
            BY <3>1 DEF IInv, LocalhostValido, SinClientesHuerfanos, Registradas
        <3>6. PuertosDelPropietario'
            BY <3>1, PropietariosEstable DEF IInv, registro
        <3>. QED
            BY <3>2, <3>3, <3>4, <3>5, <3>6 DEF IInv
    <2>. QED
        BY <2>1, <2>2, <2>3, <2>4, <2>5, <2>6, <2>7, <2>8, <2>9, <2>10, <2>11,
           <2>12, <2>13 DEF Next
<1>. QED
    BY <1>1, <1>2, PTL DEF Spec

\* Every variable keeps its type.
THEOREM TipoCorrecto == Spec => []TypeOK
<1>1. IInv => TypeOK
    BY DEF IInv
<1>. QED
    BY <1>1, Invariante, PTL

\* The reservation of /api/conectar is exclusive although the Dial runs with
\* mu released: no two handlers connect to one server, and the duplicate test
\* of conectar never finds an earlier connection.
THEOREM ConexionUnica == Spec => []ReservaExclusiva
<1>1. IInv => ReservaExclusiva
    BY DEF IInv
<1>. QED
    BY <1>1, Invariante, PTL

\* Whenever a server is connected, exactly one connected server is selected
\* to answer on localhost.
THEOREM SeleccionValida == Spec => []LocalhostValido
<1>1. IInv => LocalhostValido
    BY DEF IInv
<1>. QED
    BY <1>1, Invariante, PTL

\* Every local listener belongs to a registered connection that owns its port
\* at that moment, whatever the history of connections and selections.
THEOREM PuertosBienServidos == Spec => []PuertosDelPropietario
<1>1. IInv => PuertosDelPropietario
    BY DEF IInv
<1>. QED
    BY <1>1, Invariante, PTL

\* No live SSH client is lost: it is registered and watched, or its handler
\* still holds it.
THEOREM SinFugas == Spec => []SinClientesHuerfanos
<1>1. IInv => SinClientesHuerfanos
    BY DEF IInv
<1>. QED
    BY <1>1, Invariante, PTL

\* A live connection is only closed by a request of the user: a watcher woken
\* by the end of an earlier connection to the same server leaves it alone.
THEOREM CierrePedido == Spec => CierreSoloPropio
<1> DEFINE Paso == \A n \in Nombres :
                      /\ conexiones[n] # Nadie
                      /\ cliente[conexiones[n]] = "vivo"
                      /\ conexiones'[n] # conexiones[n]
                      => Desconectar(n) \/ DesconectarTodas
<1>1. IInv /\ [Next]_vars => [Paso]_vars
    <2> SUFFICES ASSUME IInv, Next, NEW n \in Nombres,
                        conexiones[n] # Nadie,
                        cliente[conexiones[n]] = "vivo",
                        conexiones'[n] # conexiones[n]
                 PROVE  Desconectar(n) \/ DesconectarTodas
        OBVIOUS
    <2>1. ASSUME NEW q \in Peticiones, Registrar(q)
          PROVE  FALSE
        <3>1. /\ peticion[q].nombre \in Nombres
              /\ conexiones[peticion[q].nombre] = Nadie
            BY <2>1, TiposPeticion DEF Registrar, IInv, InvPeticiones
        <3>2. conexiones' = [conexiones EXCEPT ![peticion[q].nombre] = peticion[q].con]
            BY <2>1, <3>1 DEF Registrar, reasignarPuertos
        <3>. QED
            BY <3>1, <3>2 DEF IInv, TypeOK
    <2>2. ASSUME NEW c \in Con, Vigia(c)
          PROVE  FALSE
        <3> DEFINE m == con[c].servidor
        <3>1. conexiones[m] = c
            BY <2>2 DEF Vigia, FinVigia, registro
        <3>2. conexiones' = [conexiones EXCEPT ![m] = Nadie]
            BY <2>2, <3>1 DEF Vigia, FinVigia, cerrarConexion, reasignarPuertos
        <3>3. n = m
            BY <3>2 DEF IInv, TypeOK
        <3>. QED
            BY <2>2, <3>1, <3>3 DEF Vigia, FinVigia
    <2>3. ASSUME NEW m \in Nombres, Desconectar(m)
          PROVE  n = m
        BY <2>3 DEF Desconectar, cerrarConexion, reasignarPuertos, IInv, TypeOK
    <2>4. ASSUME NEW m \in Nombres, ElegirLocalhost(m)
          PROVE  FALSE
        BY <2>4 DEF ElegirLocalhost, reasignarPuertos
    <2>5. ~Estado
        BY DEF Estado, reasignarPuertos
    <2>6. \A q \in Peticiones : ~MarcarFalla(q) /\ ~Salir(q)
        BY DEF MarcarFalla, Salir, registro
    <2>7. \A q \in Peticiones, m \in Nombres : ~Reservar(q, m)
        BY DEF Reservar, registro
    <2>8. \A q \in Peticiones, c \in Con, tipo \in Tipos, T \in SUBSET Puertos :
             ~MarcarOk(q, c, tipo, T)
        BY DEF MarcarOk, registro
    <2>9. \A c \in Con : ~CaerEnlace(c)
        BY DEF CaerEnlace, registro
    <2>10. \A p \in Puertos : ~AjenoOcupa(p) /\ ~AjenoLibera(p)
        BY DEF AjenoOcupa, AjenoLibera, registro
    <2>. QED
        BY <2>1, <2>2, <2>3, <2>4, <2>5, <2>6, <2>7, <2>8, <2>9, <2>10 DEF Next
<1>. QED
    BY <1>1, Invariante, PTL DEF Spec, CierreSoloPropio

-----------------------------------------------------------------------------
(* The hand-over of the local ports.                                       *)

\* After a reassignment too a port has one holder: what is released is not
\* taken from anybody, and what is opened was free and has one owner.
LEMMA ReasignarEscuchas ==
    ASSUME NEW reg, NEW loc, NEW esc \in [Con -> SUBSET Puertos],
           \A c, d \in Con : esc[c] \cap esc[d] # {} => c = d,
           \A c \in Con : esc[c] \cap ajenos = {},
           ajenos' = ajenos,
           reasignarPuertos(reg, loc, esc)
    PROVE  InvEscuchas'
<1>1. CASE Registradas(reg) = {}
    BY <1>1 DEF reasignarPuertos, InvEscuchas
<1>2. CASE Registradas(reg) # {}
    <2>1. PICK destino \in destinos(reg, loc) :
              \E deseado \in deseos(reg, destino) :
                 /\ servidorLocalhost' = destino
                 /\ escuchas' = relevar(reg, deseado, esc)
        BY <1>2 DEF reasignarPuertos
    <2>2. PICK deseado \in deseos(reg, destino) :
                 escuchas' = relevar(reg, deseado, esc)
        BY <2>1
    <2> DEFINE sueltas == soltar(reg, deseado, esc)
    <2>3. \A c \in Con : sueltas[c] \subseteq esc[c]
        BY DEF soltar
    <2>4. \A c \in Con :
             escuchas'[c] = sueltas[c] \cup
                {p \in Puertos : deseado[p] = c /\ disponible(p, sueltas)}
        BY <2>2 DEF relevar, abrir
    <2> HIDE DEF sueltas
    <2>5. ASSUME NEW c \in Con, NEW d \in Con,
                 NEW p \in escuchas'[c], p \in escuchas'[d]
          PROVE  c = d
        <3>1. CASE p \in sueltas[c] /\ p \in sueltas[d]
            BY <2>3, <3>1
        <3>2. CASE p \notin sueltas[c] /\ p \notin sueltas[d]
            BY <2>4, <2>5, <3>2
        <3>3. CASE ~(p \in sueltas[c] <=> p \in sueltas[d])
            BY <2>4, <2>5, <3>3 DEF disponible
        <3>. QED
            BY <3>1, <3>2, <3>3
    <2>6. \A c \in Con : escuchas'[c] \cap ajenos' = {}
        BY <2>3, <2>4 DEF disponible
    <2>. QED
        BY <2>5, <2>6 DEF InvEscuchas
<1>. QED
    BY <1>1, <1>2

\* After a reassignment somebody serves every wanted port that no other
\* program holds: the owner that listened, or the one for whom it is opened.
LEMMA ReasignarRelevo ==
    ASSUME NEW reg, NEW loc, NEW esc \in [Con -> SUBSET Puertos],
           Registradas(reg) \subseteq Con,
           NEW p \in Puertos, p \notin ajenos, conTunel(reg, p) # {},
           reasignarPuertos(reg, loc, esc)
    PROVE  abierto(p)'
<1>1. Registradas(reg) # {}
    BY DEF conTunel
<1>2. PICK destino \in destinos(reg, loc) :
          \E deseado \in deseos(reg, destino) :
             escuchas' = relevar(reg, deseado, esc)
    BY <1>1 DEF reasignarPuertos
<1>3. PICK deseado \in deseos(reg, destino) : escuchas' = relevar(reg, deseado, esc)
    BY <1>2
<1> DEFINE sueltas == soltar(reg, deseado, esc)
<1>4. \A c \in Con :
         escuchas'[c] = sueltas[c] \cup
            {s \in Puertos : deseado[s] = c /\ disponible(s, sueltas)}
    BY <1>3 DEF relevar, abrir
<1>5. deseado[p] \in Con
    BY PropietarioRegistrado DEF deseos
<1> HIDE DEF sueltas
<1>. QED
    BY <1>4, <1>5 DEF disponible, abierto

\* The steps of the program that touch no listener nor the registry.
LEMMA EscuchasEstables ==
    ASSUME IInv, [Next]_vars,
           \A q \in Peticiones : ~Registrar(q),
           \A c \in Con : ~Vigia(c),
           \A n \in Nombres : ~Desconectar(n) /\ ~ElegirLocalhost(n),
           ~DesconectarTodas, ~Estado
    PROVE  /\ UNCHANGED registro
           /\ \A c \in Registradas(conexiones) : con'[c] = con[c]
           /\ \/ UNCHANGED ajenos
              \/ \E p \in Puertos : AjenoOcupa(p) \/ AjenoLibera(p)
<1>1. CASE \E q \in Peticiones, c \in Con, tipo \in Tipos, T \in SUBSET Puertos :
              MarcarOk(q, c, tipo, T)
    <2>1. PICK q \in Peticiones, c \in Con, tipo \in Tipos, T \in SUBSET Puertos :
              MarcarOk(q, c, tipo, T)
        BY <1>1
    <2>2. c \notin Registradas(conexiones)
        BY <2>1 DEF MarcarOk, IInv, InvVigia, InvRegistro, Registradas
    <2>3. \A d \in Con \ {c} : con'[d] = con[d]
        BY <2>1 DEF MarcarOk, IInv, TypeOK
    <2>4. UNCHANGED registro /\ UNCHANGED ajenos
        BY <2>1 DEF MarcarOk
    <2>. QED
        BY <2>2, <2>3, <2>4 DEF Registradas, IInv, TypeOK
<1>2. CASE \/ \E q \in Peticiones, n \in Nombres : Reservar(q, n)
           \/ \E q \in Peticiones : MarcarFalla(q) \/ Salir(q)
           \/ \E c \in Con : CaerEnlace(c)
           \/ UNCHANGED vars
    BY <1>2 DEF Reservar, MarcarFalla, Salir, CaerEnlace, vars, registro
<1>3. CASE \E p \in Puertos : AjenoOcupa(p) \/ AjenoLibera(p)
    BY <1>3 DEF AjenoOcupa, AjenoLibera
<1>. QED
    BY <1>1, <1>2, <1>3 DEF Next

\* Who has a tunnel only depends on the registry and the fields of those in it.
LEMMA ConTunelPrima ==
    ASSUME NEW reg, NEW p, conexiones' = reg,
           \A c \in Registradas(reg) : con'[c] = con[c]
    PROVE  conTunel(conexiones, p)' = conTunel(reg, p)
<1>1. Registradas(conexiones)' = Registradas(reg)
    BY DEF Registradas
<1>. QED
    BY <1>1 DEF conTunel

\* What RelevoSinCorte says of one step.
Relevo == \A p \in Puertos : abierto(p) /\ conTunel(conexiones, p)' # {} => abierto(p)'

\* Whatever reassignment the program makes hands the served ports over.
LEMMA ReasignarPaso ==
    ASSUME IInv, InvEscuchas, NEW loc,
           NEW reg \in [Nombres -> Con \cup {Nadie}],
           NEW esc \in [Con -> SUBSET Puertos],
           \A c \in Con : esc[c] \subseteq escuchas[c],
           \A c \in Registradas(reg) : con'[c] = con[c],
           reasignarPuertos(reg, loc, esc),
           ajenos' = ajenos
    PROVE  InvEscuchas' /\ Relevo
<1>1. InvEscuchas'
    <2>1. \A c, d \in Con : esc[c] \cap esc[d] # {} => c = d
        BY DEF InvEscuchas
    <2>2. \A c \in Con : esc[c] \cap ajenos = {}
        BY DEF InvEscuchas
    <2>. QED
        BY <2>1, <2>2, ReasignarEscuchas
<1>2. ASSUME NEW p \in Puertos, abierto(p), conTunel(conexiones, p)' # {}
      PROVE  abierto(p)'
    <2>1. p \notin ajenos
        BY <1>2 DEF abierto, InvEscuchas
    <2>2. conexiones' = reg
        BY DEF reasignarPuertos
    <2>3. conTunel(reg, p) # {}
        BY <1>2, <2>2, ConTunelPrima
    <2>4. Registradas(reg) \subseteq Con
        BY DEF Registradas
    <2>. QED
        BY <2>1, <2>3, <2>4, ReasignarRelevo
<1>. QED
    BY <1>1, <1>2 DEF Relevo

\* A step that changes no listener hands nothing over.
LEMMA EscuchasPaso ==
    ASSUME InvEscuchas, UNCHANGED escuchas,
           UNCHANGED ajenos \/ \E p \in Puertos : AjenoOcupa(p) \/ AjenoLibera(p)
    PROVE  InvEscuchas' /\ Relevo
<1>1. Relevo
    BY DEF Relevo, abierto
<1>2. CASE UNCHANGED ajenos
    BY <1>1, <1>2 DEF InvEscuchas
<1>3. ASSUME NEW p \in Puertos, AjenoOcupa(p)
      PROVE  InvEscuchas'
    <2>1. ajenos' = ajenos \cup {p} /\ \A c \in Con : p \notin escuchas[c]
        BY <1>3 DEF AjenoOcupa, disponible
    <2>. QED
        BY <2>1 DEF InvEscuchas
<1>4. ASSUME NEW p \in Puertos, AjenoLibera(p)
      PROVE  InvEscuchas'
    BY <1>4 DEF AjenoLibera, InvEscuchas
<1>. QED
    BY <1>1, <1>2, <1>3, <1>4

LEMMA CerrarPaso ==
    ASSUME IInv, InvEscuchas, NEW n \in Nombres, conexiones[n] # Nadie,
           cerrarConexion(n),
           \A c \in Con \ {conexiones[n]} : con'[c] = con[c],
           ajenos' = ajenos
    PROVE  InvEscuchas' /\ Relevo
<1> DEFINE reg == [conexiones EXCEPT ![n] = Nadie]
           loc == IF servidorLocalhost = n THEN Nadie ELSE servidorLocalhost
           esc == [escuchas EXCEPT ![conexiones[n]] = {}]
<1>1. reasignarPuertos(reg, loc, esc)
    BY DEF cerrarConexion
<1>2. /\ reg \in [Nombres -> Con \cup {Nadie}]
      /\ esc \in [Con -> SUBSET Puertos]
      /\ \A c \in Con : esc[c] \subseteq escuchas[c]
    BY DEF IInv, TypeOK
<1>3. Registradas(reg) = Registradas(conexiones) \ {conexiones[n]}
    BY DEF IInv, TypeOK, InvRegistro, Registradas
<1>4. \A c \in Registradas(reg) : con'[c] = con[c]
    BY <1>3 DEF Registradas, IInv, TypeOK
<1> HIDE DEF reg, loc, esc
<1>. QED
    BY <1>1, <1>2, <1>4, ReasignarPaso

\* Every step of the program keeps one holder per port, and hands over the
\* ports being served.
LEMMA PasoEscuchas ==
    ASSUME IInv, InvEscuchas, [Next]_vars
    PROVE  InvEscuchas' /\ Relevo
<1>1. /\ conexiones \in [Nombres -> Con \cup {Nadie}]
      /\ escuchas \in [Con -> SUBSET Puertos]
    BY DEF IInv, TypeOK
<1>2. ASSUME NEW q \in Peticiones, Registrar(q)
      PROVE  InvEscuchas' /\ Relevo
    <2> DEFINE c == peticion[q].con
               n == peticion[q].nombre
               reg == [conexiones EXCEPT ![n] = c]
               loc == IF servidorLocalhost = Nadie THEN n ELSE servidorLocalhost
    <2>1. c \in Con /\ n \in Nombres /\ conexiones[n] = Nadie
        BY <1>2, TiposPeticion DEF Registrar, IInv, InvPeticiones
    <2>2. UNCHANGED <<con, ajenos>> /\ reg \in [Nombres -> Con \cup {Nadie}]
        BY <1>1, <1>2, <2>1 DEF Registrar
    <2>3. CASE con[c].tipo = "mikrotik"
        BY <1>2, <2>1, <2>2, <2>3, EscuchasPaso DEF Registrar
    <2>4. CASE con[c].tipo # "mikrotik"
        <3>1. reasignarPuertos(reg, loc, escuchas)
            BY <1>2, <2>1, <2>4 DEF Registrar
        <3> HIDE DEF reg, loc
        <3>. QED
            BY <1>1, <2>2, <3>1, ReasignarPaso
    <2>. QED
        BY <2>3, <2>4
<1>3. ASSUME NEW c \in Con, Vigia(c)
      PROVE  InvEscuchas' /\ Relevo
    <2> DEFINE n == con[c].servidor
    <2>1. c \in vigia /\ ajenos' = ajenos /\ \A d \in Con \ {c} : con'[d] = con[d]
        BY <1>3 DEF Vigia, FinVigia, IInv, TypeOK
    <2>2. CASE conexiones[n] = c
        <3>1. n \in Nombres /\ conexiones[n] # Nadie /\ cerrarConexion(n)
            BY <1>3, <2>1, <2>2, NadieAssumption DEF Vigia, IInv, InvVigia
        <3> HIDE DEF n
        <3>. QED
            BY <2>1, <2>2, <3>1, CerrarPaso
    <2>3. CASE conexiones[n] # c
        BY <1>3, <2>1, <2>3, EscuchasPaso DEF Vigia, registro
    <2>. QED
        BY <2>2, <2>3
<1>4. ASSUME NEW n \in Nombres, Desconectar(n)
      PROVE  InvEscuchas' /\ Relevo
    BY <1>4, CerrarPaso DEF Desconectar
<1>5. ASSUME DesconectarTodas
      PROVE  InvEscuchas' /\ Relevo
    <2>1. \A c \in Con : escuchas'[c] \subseteq escuchas[c]
        BY <1>5 DEF DesconectarTodas
    <2>2. InvEscuchas'
        BY <1>5, <2>1 DEF DesconectarTodas, InvEscuchas
    <2>3. \A p \in Puertos : conTunel(conexiones, p)' = {}
        BY <1>5 DEF DesconectarTodas, conTunel, Registradas
    <2>. QED
        BY <2>2, <2>3 DEF Relevo
<1>6. ASSUME NEW n \in Nombres, ElegirLocalhost(n)
      PROVE  InvEscuchas' /\ Relevo
    BY <1>1, <1>6, ReasignarPaso DEF ElegirLocalhost
<1>7. ASSUME Estado
      PROVE  InvEscuchas' /\ Relevo
    BY <1>1, <1>7, ReasignarPaso DEF Estado
<1>8. CASE /\ \A q \in Peticiones : ~Registrar(q)
           /\ \A c \in Con : ~Vigia(c)
           /\ \A n \in Nombres : ~Desconectar(n) /\ ~ElegirLocalhost(n)
           /\ ~DesconectarTodas /\ ~Estado
    BY <1>8, EscuchasEstables, EscuchasPaso DEF registro
<1>. QED
    BY <1>2, <1>3, <1>4, <1>5, <1>6, <1>7, <1>8

\* A local port has one holder at any time: two connections never listen on
\* it, nor one of them and another program.
THEOREM PuertoDeUno == Spec => []InvEscuchas
<1>1. Init => InvEscuchas
    BY DEF Init, InvEscuchas
<1>2. IInv /\ InvEscuchas /\ [Next]_vars => InvEscuchas'
    BY PasoEscuchas
<1>. QED
    BY <1>1, <1>2, Invariante, PTL DEF Spec

\* A port being served never stops being served while some connected server
\* still has it as a tunnel, whichever connection comes, falls, is closed or
\* is selected.
THEOREM SinCorte == Spec => RelevoSinCorte
<1> DEFINE Paso == \A p \in Puertos :
              abierto(p) /\ conTunel(conexiones, p)' # {} => abierto(p)'
<1>1. IInv /\ InvEscuchas /\ [Next]_vars => [Paso]_vars
    BY PasoEscuchas DEF Relevo
<1>. QED
    BY <1>1, Invariante, PuertoDeUno, PTL DEF Spec, RelevoSinCorte

-----------------------------------------------------------------------------
(* Polling.                                                                *)

\* Names that differ in more than their case: no two servers tie.
SinEmpates == \A m, n \in Nombres : Orden[m] = Orden[n] => m = n

\* Then every port has one owner.
LEMMA PropietarioUnico ==
    ASSUME IInv, SinEmpates, NEW loc, NEW p,
           NEW c \in propietarios(conexiones, loc, p),
           NEW d \in propietarios(conexiones, loc, p)
    PROVE  c = d
<1>1. CASE loc # Nadie /\ conexiones[loc] \in conTunel(conexiones, p)
    BY <1>1 DEF propietarios
<1>2. CASE ~(loc # Nadie /\ conexiones[loc] \in conTunel(conexiones, p))
    <2>1. c \in masAntiguas(conTunel(conexiones, p)) /\ d \in masAntiguas(conTunel(conexiones, p))
        BY <1>2 DEF propietarios
    <2>2. ~conexionAntes(c, d) /\ ~conexionAntes(d, c)
        BY <2>1 DEF masAntiguas
    <2>3. c \in Registradas(conexiones) /\ d \in Registradas(conexiones)
        BY PropietarioRegistrado
    <2>4. /\ con[c].servidor \in Nombres /\ conexiones[con[c].servidor] = c
          /\ con[d].servidor \in Nombres /\ conexiones[con[d].servidor] = d
        BY <2>3 DEF Registradas, IInv, InvRegistro
    <2>5. con[c].desde \in Nat /\ con[d].desde \in Nat
        BY <2>3, RelojAssumption DEF Registradas, IInv, TypeOK, DatosConexion
    <2>6. Orden[con[c].servidor] \in Nat /\ Orden[con[d].servidor] \in Nat
        BY <2>4, OrdenAssumption
    <2>7. Orden[con[c].servidor] = Orden[con[d].servidor]
        BY <2>2, <2>5, <2>6 DEF conexionAntes
    <2>. QED
        BY <2>4, <2>7 DEF SinEmpates
<1>. QED
    BY <1>1, <1>2

\* Without ties /api/estado moves no port that is already served, however
\* often the interface polls it.  With a tie it may: the order of a Go map
\* decides between the two.
THEOREM SondeoEstable ==
    ASSUME SinEmpates
    PROVE  Spec => EstadoEstable
<1> DEFINE Paso == Estado => \A c \in Con : escuchas[c] \subseteq escuchas'[c]
<1>1. IInv /\ [Next]_vars => [Paso]_vars
    <2> SUFFICES ASSUME IInv, Estado, NEW c \in Con, NEW p \in escuchas[c]
                 PROVE  p \in escuchas'[c]
        OBVIOUS
    <2>1. reasignarPuertos(conexiones, servidorLocalhost, escuchas)
        BY DEF Estado
    <2>2. c \in propietarios(conexiones, servidorLocalhost, p)
        BY DEF IInv, PuertosDelPropietario
    <2>3. c \in Registradas(conexiones) /\ c \in conTunel(conexiones, p)
        BY <2>2, PropietarioRegistrado
    <2>4. servidorLocalhost # Nadie /\ conexiones[servidorLocalhost] # Nadie
        BY <2>3 DEF IInv, LocalhostValido
    <2>5. PICK deseado \in deseos(conexiones, servidorLocalhost) :
              escuchas' = relevar(conexiones, deseado, escuchas)
        BY <2>1, <2>3, <2>4 DEF reasignarPuertos, destinos
    <2>6. p \in Puertos
        BY DEF IInv, TypeOK
    <2>7. deseado[p] \in propietarios(conexiones, servidorLocalhost, p)
        BY <2>3, <2>6 DEF deseos
    <2>8. deseado[p] = c
        BY <2>2, <2>7, PropietarioUnico
    <2>. QED
        BY <2>3, <2>5, <2>8 DEF relevar, abrir, soltar
<1>. QED
    BY <1>1, Invariante, PTL DEF Spec, EstadoEstable

-----------------------------------------------------------------------------
(* Conexiones implements PuertosLocales.                                   *)

\* What each variable of PuertosLocales stands for.
Conectados == {n \in Nombres : conexiones[n] # Nadie}
Tuneles == [n \in Nombres |-> IF conexiones[n] = Nadie
                              THEN {} ELSE con[conexiones[n]].tuneles]
Atiende == [p \in Puertos |->
              IF abierto(p)
              THEN con[CHOOSE c \in Con : p \in escuchas[c]].servidor
              ELSE Nadie]

\* Whoever answers on a port is a server the promise allows, and somebody is
\* allowed only if a connection has the tunnel.
LEMMA AtiendePermitido ==
    IInv => \A p \in Puertos :
        /\ Promesa!permitidos(p) # {} => conTunel(conexiones, p) # {}
        /\ abierto(p) => Atiende[p] \in Promesa!permitidos(p) /\ Atiende[p] # Nadie
        /\ ~abierto(p) => Atiende[p] = Nadie
<1> SUFFICES ASSUME IInv, NEW p \in Puertos
             PROVE  /\ Promesa!permitidos(p) # {} => conTunel(conexiones, p) # {}
                    /\ abierto(p) => Atiende[p] \in Promesa!permitidos(p) /\ Atiende[p] # Nadie
                    /\ ~abierto(p) => Atiende[p] = Nadie
    OBVIOUS
<1>1. Promesa!permitidos(p) =
         IF servidorLocalhost # Nadie /\ p \in Tuneles[servidorLocalhost]
         THEN {servidorLocalhost}
         ELSE {n \in Conectados : p \in Tuneles[n]}
    BY DEF Promesa!permitidos, Tuneles, Conectados
<1>2. \A n \in Nombres : p \in Tuneles[n] <=>
         conexiones[n] # Nadie /\ conexiones[n] \in conTunel(conexiones, p)
    BY DEF Tuneles, conTunel, Registradas
<1>3. servidorLocalhost \in Nombres \cup {Nadie} /\ Conectados \subseteq Nombres
    BY DEF IInv, TypeOK, Conectados
<1>4. Promesa!permitidos(p) # {} => conTunel(conexiones, p) # {}
    BY <1>1, <1>2, <1>3
<1>5. ASSUME abierto(p)
      PROVE  Atiende[p] \in Promesa!permitidos(p) /\ Atiende[p] # Nadie
    <2> DEFINE c == CHOOSE d \in Con : p \in escuchas[d]
    <2>1. c \in Con /\ p \in escuchas[c]
        BY <1>5 DEF abierto
    <2>2. Atiende[p] = con[c].servidor
        BY <1>5 DEF Atiende
    <2> HIDE DEF c
    <2>3. c \in propietarios(conexiones, servidorLocalhost, p)
        BY <2>1 DEF IInv, PuertosDelPropietario
    <2>4. c \in Registradas(conexiones) /\ c \in conTunel(conexiones, p)
        BY <2>3, PropietarioRegistrado
    <2>5. con[c].servidor \in Nombres /\ conexiones[con[c].servidor] = c /\ c # Nadie
        BY <2>4 DEF Registradas, IInv, InvRegistro
    <2>6. con[c].servidor \in Conectados /\ p \in Tuneles[con[c].servidor]
        BY <1>2, <2>4, <2>5 DEF Conectados
    <2>7. CASE servidorLocalhost # Nadie /\ p \in Tuneles[servidorLocalhost]
        <3>1. c = conexiones[servidorLocalhost]
            BY <1>2, <1>3, <2>3, <2>7 DEF propietarios
        <3>2. con[c].servidor = servidorLocalhost
            BY <1>3, <2>4, <2>7, <3>1 DEF Registradas, IInv, InvRegistro
        <3>. QED
            BY <1>1, <2>2, <2>7, <3>2
    <2>8. CASE ~(servidorLocalhost # Nadie /\ p \in Tuneles[servidorLocalhost])
        BY <1>1, <2>2, <2>5, <2>6, <2>8, NadieAssumption
    <2>. QED
        BY <2>7, <2>8
<1>6. ~abierto(p) => Atiende[p] = Nadie
    BY DEF Atiende
<1>. QED
    BY <1>4, <1>5, <1>6

\* Any step of the program answers the ports as the promise wants.
LEMMA AtenderPaso ==
    IInv /\ IInv' /\ Relevo => Promesa!Atender
<1>1. IInv' => (\A p \in Puertos :
        /\ Promesa!permitidos(p) # {} => conTunel(conexiones, p) # {}
        /\ abierto(p) => Atiende[p] \in Promesa!permitidos(p) /\ Atiende[p] # Nadie
        /\ ~abierto(p) => Atiende[p] = Nadie)'
    BY AtiendePermitido, PTL
<1> SUFFICES ASSUME IInv, IInv', Relevo, NEW p \in Puertos
             PROVE  /\ Atiende'[p] \in Promesa!permitidos(p)' \cup {Nadie}
                    /\ Atiende[p] # Nadie /\ Promesa!permitidos(p)' # {} => Atiende'[p] # Nadie
    BY DEF Promesa!Atender, Atiende
<1>2. /\ Promesa!permitidos(p)' # {} => conTunel(conexiones, p)' # {}
      /\ abierto(p)' => Atiende'[p] \in Promesa!permitidos(p)' /\ Atiende'[p] # Nadie
      /\ ~abierto(p)' => Atiende'[p] = Nadie
    BY <1>1
<1>3. abierto(p) /\ conTunel(conexiones, p)' # {} => abierto(p)'
    BY DEF Relevo
<1>4. Atiende[p] # Nadie => abierto(p)
    BY AtiendePermitido
<1>. QED
    BY <1>2, <1>3, <1>4

\* The steps of PuertosLocales, over what its variables stand for.
LEMMA PromesaPasos ==
    ASSUME Promesa!Atender
    PROVE  /\ \A n \in Nombres, T \in SUBSET Puertos :
                 /\ n \notin Conectados
                 /\ Conectados' = Conectados \cup {n}
                 /\ Tuneles' = [Tuneles EXCEPT ![n] = T]
                 /\ servidorLocalhost' = IF servidorLocalhost = Nadie
                                         THEN n ELSE servidorLocalhost
                 => Promesa!Next
           /\ \A S \in SUBSET Conectados :
                 /\ S # {}
                 /\ Conectados' = Conectados \ S
                 /\ Tuneles' = [n \in Nombres |-> IF n \in S THEN {} ELSE Tuneles[n]]
                 /\ IF servidorLocalhost \in S
                    THEN IF Conectados' = {} THEN servidorLocalhost' = Nadie
                                             ELSE servidorLocalhost' \in Conectados'
                    ELSE UNCHANGED servidorLocalhost
                 => Promesa!Next
           /\ \A n \in Conectados :
                 /\ servidorLocalhost' = n
                 /\ UNCHANGED <<Conectados, Tuneles>>
                 => Promesa!Next
           /\ UNCHANGED <<Conectados, Tuneles, servidorLocalhost>> => Promesa!Next
<1>1. ASSUME NEW n \in Nombres, NEW T \in SUBSET Puertos,
             n \notin Conectados,
             Conectados' = Conectados \cup {n},
             Tuneles' = [Tuneles EXCEPT ![n] = T],
             servidorLocalhost' = IF servidorLocalhost = Nadie
                                  THEN n ELSE servidorLocalhost
      PROVE  Promesa!Next
    <2>1. Promesa!Conectar(n, T)
        BY <1>1 DEF Promesa!Conectar, Conectados, Tuneles
    <2>. QED
        BY <2>1 DEF Promesa!Next
<1>2. ASSUME NEW S \in SUBSET Conectados,
             S # {},
             Conectados' = Conectados \ S,
             Tuneles' = [n \in Nombres |-> IF n \in S THEN {} ELSE Tuneles[n]],
             IF servidorLocalhost \in S
             THEN IF Conectados' = {} THEN servidorLocalhost' = Nadie
                                      ELSE servidorLocalhost' \in Conectados'
             ELSE UNCHANGED servidorLocalhost
      PROVE  Promesa!Next
    <2>1. Promesa!Desconectar(S)
        BY <1>2 DEF Promesa!Desconectar, Conectados, Tuneles
    <2>. QED
        BY <2>1 DEF Promesa!Next, Conectados
<1>3. ASSUME NEW n \in Conectados,
             servidorLocalhost' = n,
             UNCHANGED <<Conectados, Tuneles>>
      PROVE  Promesa!Next
    <2>1. Promesa!Elegir(n)
        BY <1>3 DEF Promesa!Elegir, Conectados, Tuneles
    <2>. QED
        BY <2>1 DEF Promesa!Next, Conectados
<1>4. ASSUME UNCHANGED <<Conectados, Tuneles, servidorLocalhost>>
      PROVE  Promesa!Next
    <2>1. Promesa!Reintentar
        BY <1>4 DEF Promesa!Reintentar, Conectados, Tuneles
    <2>. QED
        BY <2>1 DEF Promesa!Next
<1>. QED
    BY <1>1, <1>2, <1>3, <1>4

\* The selection, over what is connected.
LEMMA SeleccionConectada ==
    IInv => IF Conectados = {} THEN servidorLocalhost = Nadie
                               ELSE servidorLocalhost \in Conectados
<1> SUFFICES ASSUME IInv
             PROVE  IF Conectados = {} THEN servidorLocalhost = Nadie
                                       ELSE servidorLocalhost \in Conectados
    OBVIOUS
<1>1. CASE servidorLocalhost = Nadie
    <2>1. \A n \in Nombres : conexiones[n] \in {conexiones[m] : m \in Nombres}
        OBVIOUS
    <2>2. \A n \in Nombres : conexiones[n] = Nadie
        BY <1>1, <2>1 DEF IInv, LocalhostValido, Registradas
    <2>. QED
        BY <1>1, <2>2 DEF Conectados
<1>2. CASE servidorLocalhost # Nadie
    BY <1>2 DEF IInv, TypeOK, LocalhostValido, Conectados
<1>. QED
    BY <1>1, <1>2

\* A reassignment leaves a connected selection alone.
LEMMA SeleccionEstable ==
    ASSUME NEW reg \in [Nombres -> Con \cup {Nadie}], NEW loc \in Nombres,
           reg[loc] # Nadie, NEW esc, reasignarPuertos(reg, loc, esc)
    PROVE  servidorLocalhost' = loc
<1>1. Registradas(reg) # {} /\ loc # Nadie
    BY NadieAssumption DEF Registradas
<1>. QED
    BY <1>1 DEF reasignarPuertos, destinos

\* A connection that enters the registry is a Conectar.
LEMMA PromesaRegistrar ==
    ASSUME IInv, NEW q \in Peticiones, Registrar(q), Promesa!Atender
    PROVE  Promesa!Next
<1> DEFINE c == peticion[q].con
           n == peticion[q].nombre
           reg == [conexiones EXCEPT ![n] = c]
           loc == IF servidorLocalhost = Nadie THEN n ELSE servidorLocalhost
<1>1. c \in Con /\ c # Nadie /\ n \in Nombres /\ conexiones[n] = Nadie
    BY TiposPeticion, NadieAssumption DEF Registrar, IInv, InvPeticiones
<1>2. conexiones' = reg /\ con' = con
    BY <1>1 DEF Registrar, reasignarPuertos
<1>3. \A m \in Nombres : conexiones'[m] = IF m = n THEN c ELSE conexiones[m]
    BY <1>1, <1>2 DEF IInv, TypeOK
<1>4. n \notin Conectados /\ Conectados' = Conectados \cup {n}
    BY <1>1, <1>3 DEF Conectados
<1>5. Tuneles' = [Tuneles EXCEPT ![n] = con[c].tuneles]
    <2> HIDE DEF n, c
    <2>1. \A m \in Nombres :
             Tuneles'[m] = IF m = n THEN con[c].tuneles ELSE Tuneles[m]
        BY <1>1, <1>2, <1>3 DEF Tuneles
    <2>. QED
        BY <1>1, <2>1 DEF Tuneles
<1>6. con[c].tuneles \in SUBSET Puertos
    BY <1>1 DEF IInv, TypeOK, DatosConexion
<1>7. servidorLocalhost' = loc
    <2>1. CASE con[c].tipo = "mikrotik"
        BY <1>1, <2>1 DEF Registrar
    <2>2. CASE con[c].tipo # "mikrotik"
        <3>1. reasignarPuertos(reg, loc, escuchas)
            BY <1>1, <2>2 DEF Registrar
        <3>2. reg \in [Nombres -> Con \cup {Nadie}] /\ loc \in Nombres
            BY <1>1 DEF IInv, TypeOK
        <3>3. reg[loc] # Nadie
            BY <1>1, NadieAssumption DEF IInv, TypeOK, LocalhostValido
        <3> HIDE DEF reg, loc
        <3>. QED
            BY <3>1, <3>2, <3>3, SeleccionEstable
    <2>. QED
        BY <2>1, <2>2
<1>. QED
    BY <1>1, <1>4, <1>5, <1>6, <1>7, PromesaPasos

\* A connection that leaves it, closed by the user or by its watcher, is a
\* Desconectar.
LEMMA PromesaCerrar ==
    ASSUME IInv, IInv', NEW n \in Nombres, conexiones[n] # Nadie, cerrarConexion(n),
           \A c \in Con \ {conexiones[n]} : con'[c] = con[c],
           Promesa!Atender
    PROVE  Promesa!Next
<1> DEFINE reg == [conexiones EXCEPT ![n] = Nadie]
           esc == [escuchas EXCEPT ![conexiones[n]] = {}]
<1>1. conexiones' = reg
    BY DEF cerrarConexion, reasignarPuertos
<1>2. \A m \in Nombres : conexiones'[m] = IF m = n THEN Nadie ELSE conexiones[m]
    BY <1>1 DEF IInv, TypeOK
<1>3. {n} \in SUBSET Conectados /\ Conectados' = Conectados \ {n}
    BY <1>2 DEF Conectados
<1>4. \A m \in Nombres \ {n} :
         conexiones[m] # Nadie => con'[conexiones[m]] = con[conexiones[m]]
    BY DEF IInv, TypeOK, InvRegistro
<1>5. Tuneles' = [m \in Nombres |-> IF m \in {n} THEN {} ELSE Tuneles[m]]
    BY <1>2, <1>4 DEF Tuneles
<1>6. IF Conectados' = {} THEN servidorLocalhost' = Nadie
                          ELSE servidorLocalhost' \in Conectados'
    <2>1. IInv' => (IF Conectados = {} THEN servidorLocalhost = Nadie
                                       ELSE servidorLocalhost \in Conectados)'
        BY SeleccionConectada, PTL
    <2>. QED
        BY <2>1
<1>7. servidorLocalhost # n => servidorLocalhost' = servidorLocalhost
    <2> SUFFICES ASSUME servidorLocalhost # n
                 PROVE  servidorLocalhost' = servidorLocalhost
        OBVIOUS
    <2>1. servidorLocalhost \in Nombres /\ conexiones[servidorLocalhost] # Nadie
        BY SeleccionConectada DEF Conectados
    <2>2. reasignarPuertos(reg, servidorLocalhost, esc)
        BY DEF cerrarConexion
    <2>3. reg \in [Nombres -> Con \cup {Nadie}] /\ reg[servidorLocalhost] # Nadie
        BY <2>1 DEF IInv, TypeOK
    <2> HIDE DEF reg, esc
    <2>. QED
        BY <2>1, <2>2, <2>3, SeleccionEstable
<1>. QED
    BY <1>3, <1>5, <1>6, <1>7, PromesaPasos

\* What the program does to connections nobody has registered yet, to the
\* reservations, to the SSH clients and to other programs is not seen there.
LEMMA PromesaTartamudeo ==
    ASSUME IInv, UNCHANGED registro,
           \A c \in Registradas(conexiones) : con'[c] = con[c]
    PROVE  UNCHANGED Promesa!vars
<1>1. UNCHANGED <<conexiones, servidorLocalhost, escuchas>>
    BY DEF registro
<1>2. Conectados' = Conectados
    BY <1>1 DEF Conectados
<1>3. \A n \in Nombres : conexiones[n] # Nadie => con'[conexiones[n]] = con[conexiones[n]]
    BY DEF Registradas
<1>4. Tuneles' = Tuneles
    BY <1>1, <1>3 DEF Tuneles
<1>5. ASSUME NEW p \in Puertos
      PROVE  Atiende'[p] = Atiende[p]
    <2> DEFINE c == CHOOSE d \in Con : p \in escuchas[d]
    <2>1. c' = c /\ abierto(p)' = abierto(p)
        BY <1>1 DEF abierto
    <2>2. ASSUME abierto(p)
          PROVE  con'[c] = con[c]
        <3>1. c \in Con /\ escuchas[c] # {}
            BY <2>2 DEF abierto
        <3> HIDE DEF c
        <3>2. c \in Registradas(conexiones)
            BY <3>1, SoloRegistradasEscuchan DEF IInv
        <3>. QED
            BY <3>2
    <2>3. /\ Atiende[p] = IF abierto(p) THEN con[c].servidor ELSE Nadie
          /\ Atiende'[p] = IF abierto(p)' THEN con'[c'].servidor ELSE Nadie
        BY DEF Atiende
    <2> HIDE DEF c
    <2>. QED
        BY <2>1, <2>2, <2>3
<1>6. Atiende' = Atiende
    BY <1>5 DEF Atiende
<1>. QED
    BY <1>1, <1>2, <1>4, <1>6 DEF Promesa!vars, Conectados, Tuneles, Atiende

\* Every step of the program is a step of the promise, or is not seen there.
LEMMA PromesaPaso ==
    ASSUME IInv, IInv', InvEscuchas, [Next]_vars
    PROVE  [Promesa!Next]_(Promesa!vars)
<1>1. Promesa!Atender
    BY PasoEscuchas, AtenderPaso
<1>2. ASSUME NEW q \in Peticiones, Registrar(q)
      PROVE  Promesa!Next
    BY <1>1, <1>2, PromesaRegistrar
<1>3. ASSUME NEW c \in Con, Vigia(c)
      PROVE  [Promesa!Next]_(Promesa!vars)
    <2> DEFINE n == con[c].servidor
    <2>1. c \in vigia /\ \A d \in Con \ {c} : con'[d] = con[d]
        BY <1>3 DEF Vigia, FinVigia, IInv, TypeOK
    <2>2. CASE conexiones[n] = c
        <3>1. n \in Nombres /\ conexiones[n] # Nadie /\ cerrarConexion(n)
            BY <1>3, <2>1, <2>2, NadieAssumption DEF Vigia, IInv, InvVigia
        <3> HIDE DEF n
        <3>. QED
            BY <1>1, <2>1, <2>2, <3>1, PromesaCerrar
    <2>3. CASE conexiones[n] # c
        <3>1. UNCHANGED registro
            BY <1>3, <2>3 DEF Vigia
        <3>2. c \notin Registradas(conexiones)
            BY <2>3, NadieAssumption DEF Registradas, IInv, InvRegistro
        <3>3. \A d \in Registradas(conexiones) : con'[d] = con[d]
            BY <2>1, <3>2 DEF Registradas, IInv, TypeOK
        <3>. QED
            BY <3>1, <3>3, PromesaTartamudeo
    <2>. QED
        BY <2>2, <2>3
<1>4. ASSUME NEW n \in Nombres, Desconectar(n)
      PROVE  Promesa!Next
    BY <1>1, <1>4, PromesaCerrar DEF Desconectar
<1>5. ASSUME DesconectarTodas
      PROVE  Promesa!Next
    <2>1. /\ \A n \in Nombres : conexiones'[n] = Nadie
          /\ servidorLocalhost' = Nadie
          /\ con' = con
        BY <1>5 DEF DesconectarTodas
    <2>2. Conectados # {}
        <3>1. PICK n \in Nombres : conexiones[n] # Nadie
            BY <1>5 DEF DesconectarTodas, Registradas
        <3>. QED
            BY <3>1 DEF Conectados
    <2>3. Conectados' = {}
        BY <2>1 DEF Conectados
    <2>4. Tuneles' = [n \in Nombres |-> IF n \in Conectados THEN {} ELSE Tuneles[n]]
        BY <2>1 DEF Tuneles, Conectados
    <2>5. servidorLocalhost \in Conectados
        BY <2>2, SeleccionConectada
    <2>. QED
        BY <1>1, <2>1, <2>2, <2>3, <2>4, <2>5, PromesaPasos
<1>6. ASSUME NEW n \in Nombres, ElegirLocalhost(n)
      PROVE  Promesa!Next
    <2>1. conexiones' = conexiones /\ con' = con
        BY <1>6 DEF ElegirLocalhost, reasignarPuertos
    <2>2. servidorLocalhost' = n
        BY <1>6, SeleccionEstable DEF ElegirLocalhost, IInv, TypeOK
    <2>3. n \in Conectados
        BY <1>6 DEF ElegirLocalhost, Conectados
    <2>4. UNCHANGED <<Conectados, Tuneles>>
        BY <2>1 DEF Conectados, Tuneles
    <2>. QED
        BY <1>1, <2>2, <2>3, <2>4, PromesaPasos
<1>7. ASSUME Estado
      PROVE  Promesa!Next
    <2>1. conexiones' = conexiones /\ con' = con
        BY <1>7 DEF Estado, reasignarPuertos
    <2>2. servidorLocalhost' = servidorLocalhost
        <3>1. CASE servidorLocalhost = Nadie
            BY <1>7, <3>1 DEF Estado, reasignarPuertos, IInv, LocalhostValido
        <3>2. CASE servidorLocalhost # Nadie
            BY <1>7, <3>2, SeleccionEstable DEF Estado, IInv, TypeOK, LocalhostValido
        <3>. QED
            BY <3>1, <3>2
    <2>3. UNCHANGED <<Conectados, Tuneles, servidorLocalhost>>
        BY <2>1, <2>2 DEF Conectados, Tuneles
    <2>. QED
        BY <1>1, <2>3, PromesaPasos
<1>8. CASE /\ \A q \in Peticiones : ~Registrar(q)
           /\ \A c \in Con : ~Vigia(c)
           /\ \A n \in Nombres : ~Desconectar(n) /\ ~ElegirLocalhost(n)
           /\ ~DesconectarTodas /\ ~Estado
    BY <1>8, EscuchasEstables, PromesaTartamudeo
<1>. QED
    BY <1>2, <1>3, <1>4, <1>5, <1>6, <1>7, <1>8

\* The connections implement the promise about localhost: whoever answers on
\* a port, and every change of it, is one PuertosLocales allows.
THEOREM Implementa == Spec => ImplementaPromesa
<1>1. Init => Promesa!Init
    <2> SUFFICES ASSUME Init
                 PROVE  Promesa!Init
        OBVIOUS
    <2>1. Conectados = {} /\ Tuneles = [n \in Nombres |-> {}]
        BY DEF Init, Conectados, Tuneles
    <2>2. \A p \in Puertos : ~abierto(p)
        BY DEF Init, abierto
    <2>3. Atiende = [p \in Puertos |-> Nadie]
        BY <2>2 DEF Atiende
    <2>4. servidorLocalhost = Nadie
        BY DEF Init
    <2>. QED
        BY <2>1, <2>3, <2>4 DEF Promesa!Init, Conectados, Tuneles, Atiende
<1>2. IInv /\ IInv' /\ InvEscuchas /\ [Next]_vars => [Promesa!Next]_(Promesa!vars)
    BY PromesaPaso
<1>. QED
    BY <1>1, <1>2, Invariante, PuertoDeUno, PTL DEF Spec, ImplementaPromesa, Promesa!Spec
=============================================================================
