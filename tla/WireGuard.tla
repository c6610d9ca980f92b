------------------------------ MODULE WireGuard ------------------------------
(***************************************************************************)
(* The WireGuard client: the profiles of wireguard.json, the configuration *)
(* files of wireguard-runtime/ and the tunnels of the system, which is     *)
(* Windows (one service per tunnel) or Linux (wg-quick).                   *)
(*                                                                         *)
(* wgMu is held to load and save the profiles and for nothing else: the    *)
(* handlers that bring a tunnel up, take it down or delete its profile     *)
(* copy the profile and then work for as long as an administrator prompt   *)
(* is on the screen.  Tunnels outlive the program, and on Windows the      *)
(* computer's restart.                                                     *)
(***************************************************************************)
EXTENDS Naturals, Sequences

CONSTANTS
    Ids,         \* identifiers of profiles
    Textos,      \* lines that run commands: hooks
    Pubs,        \* public keys of peers
    Iniciales,   \* profiles there may be at the beginning
    Formularios, \* what the user may save
    Paquetes,    \* profiles of the backups the user may import
    Importables, \* .conf files the user may import
    Tareas,      \* concurrent HTTP handlers
    AlArrancar,  \* the goroutine of wireguardAutoConnect
    Ninguno,     \* no profile, no file, no hooks, no preshared key
    Roto,        \* a file that no engine accepts
    MaxAverias,  \* bound on averias
    MaxEdiciones \* bound on ediciones

\* A preshared key is the public key of the peer it was given for.  Table, DNS
\* and the host of an Endpoint are free text, which a form or a backup may break
\* into lines: tabla is what they add to the file besides their own.
Peer == [pub : Pubs, psk : Pubs \cup {Ninguno}]
Perfil == [texto : Textos, hooks : BOOLEAN, tabla : SUBSET Textos, auto : BOOLEAN,
           peers : Seq(Peer)]
Almacen == [Ids -> Perfil \cup {Ninguno}]

\* A configuration file: the hooks that are written in it, what the free text
\* added to it, and its peers.
Conf == [hooks : Textos \cup {Ninguno}, tabla : SUBSET Textos, peers : Seq(Peer)]

\* A form says of each peer whether the user typed a preshared key.
Formulario == [texto : Textos, hooks : BOOLEAN, tabla : SUBSET Textos,
               auto : BOOLEAN, peers : Seq([pub : Pubs, nueva : BOOLEAN])]

\* Profiles and files keep the keys of their peers, wherever they come from.
propias(peers) == \A i \in DOMAIN peers : peers[i].psk \in {Ninguno, peers[i].pub}

ASSUME CotasAssumption == MaxAverias \in Nat /\ MaxEdiciones \in Nat
ASSUME NingunoAssumption ==
    /\ Ninguno \notin Textos \cup Pubs \cup Perfil \cup Conf
    /\ Roto \notin {Ninguno} \cup Perfil \cup Conf
    /\ AlArrancar \notin Tareas
ASSUME EntradasAssumption ==
    /\ Formularios \subseteq Formulario
    /\ Paquetes \cup Iniciales \subseteq Almacen
    /\ \A a \in Paquetes \cup Iniciales : \A i \in Ids : a[i] # Ninguno => propias(a[i].peers)
    /\ \A c \in Importables :
          c \in [texto : Textos, peers : Seq(Peer)] /\ propias(c.peers)

VARIABLES
    perfiles,    \* wireguard.json
    conocidos,   \* identifiers already used
    fichero,     \* the runtime configuration of each profile
    tunel,       \* the service or interface of each profile
    tarea,       \* the handlers
    arranque,    \* profiles wireguardAutoConnect still has to look at
    porArrancar, \* wireguardAutoConnect has not read the profiles yet
    sistema,     \* the operating system
    ediciones,   \* history: changes of the profiles by the user
    averias,     \* history: tunnels fallen, disks full, ends of the program,
                 \* restarts of the computer
    autorizados, \* history: the hooks the user saved as allowed
    sinRevisar,  \* history: what came in the free text of a backup
    cruzados,    \* history: profiles two handlers worked on at the same time
    huerfanos    \* history: profiles that went, not by deletion, with their
                 \* tunnel installed or about to be

cuentas == <<ediciones, averias>>
historia == <<autorizados, sinRevisar, cruzados, huerfanos>>
inicio == <<arranque, porArrancar>>
vars == <<perfiles, conocidos, fichero, tunel, tarea, inicio, sistema, cuentas,
          historia>>

Hilos == Tareas \cup {AlArrancar}
Vacio == [i \in Ids |-> Ninguno]
NoHay == [servicio |-> "no", auto |-> FALSE, conf |-> Ninguno]
TareaLibre == [op |-> "ninguna", paso |-> "libre", id |-> Ninguno,
               copia |-> Ninguno, viva |-> TRUE]
Elevados == {"reemplazar", "crear", "arrancar", "esperar", "quick", "bajar"}

windows == sistema = "windows"
existe(i) == tunel[i].servicio # "no"
\* A service that is deleted while it runs is "marcado": it goes when it ends.
corriendo(i) == tunel[i].servicio \in {"corriendo", "marcado"}
sinServicio(i) == [tunel EXCEPT ![i] = NoHay]
parado(i) == IF tunel[i].servicio = "marcado" THEN sinServicio(i)
             ELSE [tunel EXCEPT ![i].servicio = "parado", ![i].conf = Ninguno]
borrado(i) == IF corriendo(i) THEN [tunel EXCEPT ![i].servicio = "marcado"]
              ELSE sinServicio(i)
ocupado(h) == tarea[h].paso # "libre"
ocupada(i) == \E h \in Hilos : ocupado(h) /\ tarea[h].id = i

editar == ediciones < MaxEdiciones /\ ediciones' = ediciones + 1
averiar == averias < MaxAverias /\ averias' = averias + 1
pasar(h, p) == tarea' = [tarea EXCEPT ![h].paso = p]
acabar(h) == tarea' = [tarea EXCEPT ![h] = TareaLibre]

\* Profiles that are not in a, with a tunnel installed or a handler at work.
sueltos(a) ==
    {i \in Ids : /\ perfiles[i] # Ninguno /\ a[i] = Ninguno
                 /\ existe(i) \/ ocupada(i) \/ arranque[i] # Ninguno}
huerfanar(a) == huerfanos' = huerfanos \cup sueltos(a)

\* What the user allows by saving a profile: what its form shows, its hooks if
\* they are allowed.
permitidos(p) == p.tabla \cup IF p.hooks THEN {p.texto} ELSE {}

Init ==
    /\ perfiles \in Iniciales
    /\ conocidos = {i \in Ids : perfiles[i] # Ninguno}
    /\ fichero = Vacio
    /\ tunel = [i \in Ids |-> NoHay]
    /\ tarea = [h \in Hilos |-> TareaLibre]
    /\ arranque = Vacio
    /\ porArrancar = TRUE
    /\ sistema \in {"windows", "linux"}
    /\ ediciones = 0 /\ averias = 0
    /\ autorizados = UNION {permitidos(perfiles[i]) : i \in
                              {j \in Ids : perfiles[j] # Ninguno}}
    /\ sinRevisar = {}
    /\ cruzados = {} /\ huerfanos = {}

-----------------------------------------------------------------------------
(* The profiles, each operation in one piece under wgMu.                   *)

\* Mutant: the key of the position, whoever is there now.
conservarPskPorPosicion(previos, f, i) ==
    IF f.peers[i].nueva THEN f.peers[i].pub
    ELSE IF i \in DOMAIN previos THEN previos[i].psk ELSE Ninguno

\* An empty field keeps the key of the peer in the same position.
conservarPsk(previos, f, i) ==
    IF f.peers[i].nueva THEN f.peers[i].pub
    ELSE IF i \in DOMAIN previos /\ previos[i].pub = f.peers[i].pub
    THEN previos[i].psk ELSE Ninguno

guardado(f, previos) ==
    [texto |-> f.texto, hooks |-> f.hooks, tabla |-> f.tabla, auto |-> f.auto,
     peers |-> [i \in DOMAIN f.peers |->
        [pub |-> f.peers[i].pub, psk |-> conservarPsk(previos, f, i)]]]

\* POST /api/wireguard/perfiles, with the identifier of a profile or none.
Guardar(i, f) ==
    /\ editar
    /\ perfiles[i] # Ninguno \/ i \notin conocidos
    /\ LET previos == IF perfiles[i] = Ninguno THEN <<>> ELSE perfiles[i].peers
       IN perfiles' = [perfiles EXCEPT ![i] = guardado(f, previos)]
    /\ conocidos' = conocidos \cup {i}
    /\ autorizados' = autorizados \cup permitidos(f)
    /\ UNCHANGED <<fichero, tunel, tarea, inicio, sistema, averias, sinRevisar,
                   cruzados, huerfanos>>

\* manejarWGImport: a new profile, whose hooks are kept but not allowed.  The
\* file is read by lines, so that its free text adds none.
ImportarConf(i, c) ==
    /\ editar
    /\ i \notin conocidos
    /\ perfiles' = [perfiles EXCEPT ![i] =
          [texto |-> c.texto, hooks |-> FALSE, tabla |-> {}, auto |-> FALSE,
           peers |-> c.peers]]
    /\ conocidos' = conocidos \cup {i}
    /\ UNCHANGED <<fichero, tunel, tarea, inicio, sistema, averias, historia>>

\* Mutant: a profile comes back with the hooks its backup allows.
restauradoConHooks(p) == p

\* wgImportFromBackup: whatever the backup says, its hooks are not allowed.  Its
\* free text is taken as it comes.
restaurado(p) == [p EXCEPT !.hooks = FALSE]

ImportarCopia(a, reemplazar) ==
    LET nuevo == [i \in Ids |->
            IF a[i] # Ninguno THEN restaurado(a[i])
            ELSE IF reemplazar THEN Ninguno ELSE perfiles[i]] IN
    /\ editar
    /\ perfiles' = nuevo
    /\ conocidos' = conocidos \cup {i \in Ids : a[i] # Ninguno}
    /\ sinRevisar' = sinRevisar \cup
          UNION {a[i].tabla : i \in {j \in Ids : a[j] # Ninguno}}
    /\ huerfanar(nuevo)
    /\ UNCHANGED <<fichero, tunel, tarea, inicio, sistema, averias, autorizados,
                   cruzados>>

\* saveWGStore truncates the file before it writes it; a file that cannot be
\* read counts as no profiles.
PerderAlmacen ==
    /\ averiar
    /\ perfiles' = Vacio
    /\ huerfanar(Vacio)
    /\ UNCHANGED <<conocidos, fichero, tunel, tarea, inicio, sistema, ediciones,
                   autorizados, sinRevisar, cruzados>>

-----------------------------------------------------------------------------
(* The beginning of the handlers that work on a tunnel.                    *)

cruzar(h, i) ==
    cruzados' = IF (\E g \in Hilos \ {h} : ocupado(g) /\ tarea[g].id = i)
                   \/ (h # AlArrancar /\ arranque[i] # Ninguno)
                THEN cruzados \cup {i} ELSE cruzados
empezar(h, op, i, p) ==
    /\ tarea' = [tarea EXCEPT ![h] = [TareaLibre EXCEPT !.op = op,
                    !.paso = "mirar", !.id = i, !.copia = p]]
    /\ cruzar(h, i)

\* Mutant: the copy of a profile that is not there is used all the same.
LeerSinBuscar(h, op, i) ==
    /\ ~ocupado(h)
    /\ empezar(h, op, i, perfiles[i])
    /\ UNCHANGED <<perfiles, conocidos, fichero, tunel, inicio, sistema, cuentas,
                   autorizados, sinRevisar, huerfanos>>

\* wgProfileByID, for the handlers of connecting, disconnecting, deleting.
Leer(h, op, i) ==
    /\ ~ocupado(h)
    /\ perfiles[i] # Ninguno
    /\ empezar(h, op, i, perfiles[i])
    /\ UNCHANGED <<perfiles, conocidos, fichero, tunel, inicio, sistema, cuentas,
                   autorizados, sinRevisar, huerfanos>>

\* wireguardAutoConnect copies the list once, and does nothing without an
\* engine.
AutoLeer ==
    /\ porArrancar
    /\ porArrancar' = FALSE
    /\ arranque' \in {Vacio, [i \in Ids |->
          IF perfiles[i] # Ninguno /\ perfiles[i].auto THEN perfiles[i]
          ELSE Ninguno]}
    /\ cruzados' = cruzados \cup {i \in Ids : arranque'[i] # Ninguno /\ ocupada(i)}
    /\ UNCHANGED <<perfiles, conocidos, fichero, tunel, tarea, sistema, cuentas,
                   autorizados, sinRevisar, huerfanos>>

AutoSiguiente(i) ==
    /\ ~ocupado(AlArrancar)
    /\ arranque[i] # Ninguno
    /\ arranque' = [arranque EXCEPT ![i] = Ninguno]
    /\ empezar(AlArrancar, "conectar", i, arranque[i])
    /\ UNCHANGED <<perfiles, conocidos, fichero, tunel, porArrancar, sistema,
                   cuentas, autorizados, sinRevisar, huerfanos>>

-----------------------------------------------------------------------------
(* Connecting: manejarWGConnect, and each turn of wireguardAutoConnect.     *)

resto == <<perfiles, conocidos, inicio, sistema, cuentas, historia>>

\* Mutant: the file is written whether or not the tunnel is up.
MirarSiempre(h) ==
    /\ tarea[h].paso = "mirar"
    /\ tarea[h].op = "conectar"
    /\ pasar(h, "escribir")
    /\ UNCHANGED <<fichero, tunel, resto>>

Mirar(h) ==
    /\ tarea[h].paso = "mirar"
    /\ tarea[h].op = "conectar"
    /\ IF corriendo(tarea[h].id) THEN acabar(h) ELSE pasar(h, "escribir")
    /\ UNCHANGED <<fichero, tunel, resto>>

\* wgProfileConfig: hooks are written only if they are allowed, the free text
\* as it is.
wgProfileConfig(p) ==
    [hooks |-> IF p.hooks THEN p.texto ELSE Ninguno, tabla |-> p.tabla,
     peers |-> p.peers]

\* wgWriteRuntimeConfig.  A key that cannot be deciphered ends it before the
\* file is touched.
Escribir(h) ==
    /\ tarea[h].paso = "escribir"
    /\ LET i == tarea[h].id IN
       \/ /\ fichero' = [fichero EXCEPT ![i] = wgProfileConfig(tarea[h].copia)]
          /\ pasar(h, "subir")
          /\ UNCHANGED averias
       \/ acabar(h) /\ UNCHANGED <<fichero, averias>>
       \/ /\ averiar
          /\ fichero' = [fichero EXCEPT ![i] = Roto]
          /\ acabar(h)
    /\ UNCHANGED <<perfiles, conocidos, tunel, inicio, sistema, ediciones,
                   historia>>

\* wgConnectProfile: nothing to do if the tunnel is up; otherwise the user is
\* asked for permission, and may refuse.
Subir(h) ==
    /\ tarea[h].paso = "subir"
    /\ \/ /\ ~corriendo(tarea[h].id)
          /\ pasar(h, IF windows THEN "reemplazar" ELSE "quick")
       \/ acabar(h)
    /\ UNCHANGED <<fichero, tunel, resto>>

levantar(i) ==
    [tunel EXCEPT ![i].servicio = "corriendo", ![i].conf = fichero[i]]

\* Linux: wg-quick up, which fails when the interface exists.
Quick(h) ==
    /\ tarea[h].paso = "quick"
    /\ LET i == tarea[h].id IN
       \/ ~existe(i) /\ fichero[i] \in Conf /\ tunel' = levantar(i)
       \/ UNCHANGED tunel
    /\ acabar(h)
    /\ UNCHANGED <<fichero, resto>>

\* Windows, wgAdminInstallService: the old service is stopped and deleted, each
\* of which may fail unseen, and may be still there after the wait.
Reemplazar(h) ==
    /\ tarea[h].paso = "reemplazar"
    /\ LET i == tarea[h].id IN
       tunel' \in IF existe(i) THEN {sinServicio(i), parado(i), borrado(i), tunel}
                  ELSE {tunel}
    /\ pasar(h, "crear")
    /\ UNCHANGED <<fichero, resto>>

\* One that does not take its settings is deleted, unless that fails too.
Crear(h) ==
    /\ tarea[h].paso = "crear"
    /\ LET i == tarea[h].id IN
       \/ /\ ~existe(i)
          /\ tunel' = [tunel EXCEPT ![i] = [servicio |-> "parado", conf |-> Ninguno,
                                            auto |-> tarea[h].copia.auto]]
          /\ pasar(h, "arrancar") \/ acabar(h)
       \/ acabar(h) /\ UNCHANGED tunel
    /\ UNCHANGED <<fichero, resto>>

\* The service reads the file when it starts, and may end at once; one that
\* cannot be started is deleted, unless that fails too.
Arrancar(h) ==
    /\ tarea[h].paso = "arrancar"
    /\ LET i == tarea[h].id IN
       \/ /\ existe(i) /\ ~corriendo(i)
          /\ \/ fichero[i] \in Conf /\ tunel' = levantar(i)
             \/ UNCHANGED tunel
          /\ pasar(h, "esperar")
       \/ tunel' \in {tunel, borrado(i)} /\ acabar(h)
    /\ UNCHANGED <<fichero, resto>>

\* Until it is running; after twenty seconds it is stopped and deleted.
Esperar(h) ==
    /\ tarea[h].paso = "esperar"
    /\ LET i == tarea[h].id IN
       tunel' \in IF corriendo(i) THEN {tunel}
                  ELSE {tunel, sinServicio(i)}
    /\ acabar(h)
    /\ UNCHANGED <<fichero, resto>>

-----------------------------------------------------------------------------
(* Disconnecting and deleting.                                             *)

MirarDesconectar(h) ==
    /\ tarea[h].paso = "mirar"
    /\ tarea[h].op = "desconectar"
    /\ pasar(h, IF existe(tarea[h].id) THEN "bajar" ELSE "limpiar")
    /\ UNCHANGED <<fichero, tunel, resto>>

\* wgDisconnectProfile, with permission: the service is stopped, which may fail
\* unseen, and deleted; or wg-quick down reads the file.  A failure of the
\* latter, and a refusal, end it.
Bajar(h) ==
    /\ tarea[h].paso = "bajar"
    /\ LET i == tarea[h].id IN
       \/ /\ \/ windows /\ tunel' \in {sinServicio(i), borrado(i)}
             \/ ~windows /\ existe(i) /\ fichero[i] \in Conf /\ tunel' = sinServicio(i)
          /\ IF tarea[h].viva THEN pasar(h, "limpiar") ELSE acabar(h)
       \/ /\ tunel' \in {tunel, IF windows /\ existe(i) THEN parado(i) ELSE tunel}
          /\ acabar(h)
    /\ UNCHANGED <<fichero, resto>>

Limpiar(h) ==
    /\ tarea[h].paso = "limpiar"
    /\ fichero' = [fichero EXCEPT ![tarea[h].id] = Ninguno]
    /\ acabar(h)
    /\ UNCHANGED <<tunel, resto>>

\* Mutant: the tunnel is not looked at before its profile is deleted.
MirarEliminarSinMirar(h) ==
    /\ tarea[h].paso = "mirar"
    /\ tarea[h].op = "eliminar"
    /\ pasar(h, "borrar")
    /\ UNCHANGED <<fichero, tunel, resto>>

\* "desconecta el túnel antes de eliminarlo", seen without wgMu.
MirarEliminar(h) ==
    /\ tarea[h].paso = "mirar"
    /\ tarea[h].op = "eliminar"
    /\ IF corriendo(tarea[h].id) THEN acabar(h) ELSE pasar(h, "borrar")
    /\ UNCHANGED <<fichero, tunel, resto>>

\* Under wgMu again; the file goes first, and the save may fail.
Borrar(h) ==
    /\ tarea[h].paso = "borrar"
    /\ LET i == tarea[h].id IN
       IF perfiles[i] = Ninguno
       THEN UNCHANGED <<perfiles, fichero, averias, huerfanos>>
       ELSE /\ fichero' = [fichero EXCEPT ![i] = Ninguno]
            /\ \/ /\ perfiles' = [perfiles EXCEPT ![i] = Ninguno]
                  /\ UNCHANGED <<averias, huerfanos>>
               \/ /\ averiar
                  /\ perfiles' \in {perfiles, Vacio}
                  /\ huerfanar(perfiles')
    /\ acabar(h)
    /\ UNCHANGED <<conocidos, tunel, inicio, sistema, ediciones, autorizados,
                   sinRevisar, cruzados>>

-----------------------------------------------------------------------------
(* The world.                                                              *)

\* A service ends by itself; somebody removes an interface.
CaerTunel(i) ==
    /\ averiar
    /\ corriendo(i)
    /\ tunel' = IF windows THEN parado(i) ELSE sinServicio(i)
    /\ UNCHANGED <<perfiles, conocidos, fichero, tarea, inicio, sistema, ediciones,
                   historia>>

\* The program ends, maybe while it saves, and is started again.  Tunnels
\* stay, and so do the processes that were given permission.
Morir ==
    /\ averiar
    /\ tarea' = [h \in Hilos |-> IF tarea[h].paso \in Elevados
                                 THEN [tarea[h] EXCEPT !.viva = FALSE]
                                 ELSE TareaLibre]
    /\ perfiles' \in {perfiles, Vacio}
    /\ huerfanar(perfiles')
    /\ arranque' = Vacio
    /\ porArrancar' = TRUE
    /\ UNCHANGED <<conocidos, fichero, tunel, sistema, ediciones, autorizados,
                   sinRevisar, cruzados>>

\* The computer restarts: on Windows the services with automatic start come
\* up with the file they find.
Reiniciar ==
    /\ averiar
    /\ tarea' = [h \in Hilos |-> TareaLibre]
    /\ tunel' = [i \in Ids |->
          IF ~windows \/ tunel[i].servicio \in {"no", "marcado"} THEN NoHay
          ELSE IF tunel[i].auto /\ fichero[i] \in Conf THEN levantar(i)[i]
          ELSE parado(i)[i]]
    /\ arranque' = Vacio
    /\ porArrancar' = TRUE
    /\ UNCHANGED <<perfiles, conocidos, fichero, sistema, ediciones, historia>>

Usuario ==
    \/ \E i \in Ids, f \in Formularios : Guardar(i, f)
    \/ \E i \in Ids, c \in Importables : ImportarConf(i, c)
    \/ \E a \in Paquetes, r \in BOOLEAN : ImportarCopia(a, r)

Peticion(h) ==
    \/ \E i \in Ids, op \in {"conectar", "desconectar", "eliminar"} :
          Leer(h, op, i)
    \/ MirarDesconectar(h) \/ Bajar(h) \/ Limpiar(h)
    \/ MirarEliminar(h) \/ Borrar(h)

Conexion(h) ==
    \/ Mirar(h) \/ Escribir(h) \/ Subir(h) \/ Quick(h)
    \/ Reemplazar(h) \/ Crear(h) \/ Arrancar(h) \/ Esperar(h)

Mundo ==
    \/ PerderAlmacen
    \/ \E i \in Ids : CaerTunel(i)
    \/ Morir
    \/ Reiniciar

Next ==
    \/ Usuario
    \/ \E h \in Tareas : Peticion(h)
    \/ \E h \in Hilos : Conexion(h)
    \/ AutoLeer
    \/ \E i \in Ids : AutoSiguiente(i)
    \/ Mundo

Spec == Init /\ [][Next]_vars
-----------------------------------------------------------------------------
(* Properties.                                                             *)

Ops == {"ninguna", "conectar", "desconectar", "eliminar"}
Pasos == {"libre", "mirar", "escribir", "subir", "limpiar", "borrar"} \cup Elevados
Tarea == [op : Ops, paso : Pasos, id : Ids \cup {Ninguno},
          copia : Perfil \cup {Ninguno}, viva : BOOLEAN]
Tunel == [servicio : {"no", "parado", "corriendo", "marcado"}, auto : BOOLEAN,
          conf : Conf \cup {Ninguno}]

\* Every variable has its type, a handler at work has found its profile, and a
\* tunnel that is up has a configuration.
TypeOK ==
    /\ perfiles \in Almacen /\ arranque \in Almacen
    /\ conocidos \subseteq Ids
    /\ fichero \in [Ids -> Conf \cup {Ninguno, Roto}]
    /\ tunel \in [Ids -> Tunel]
    /\ \A i \in Ids : corriendo(i) => tunel[i].conf \in Conf
    /\ tarea \in [Hilos -> Tarea]
    /\ \A h \in Hilos : ocupado(h) => tarea[h].id \in Ids /\ tarea[h].copia \in Perfil
    /\ porArrancar \in BOOLEAN
    /\ sistema \in {"windows", "linux"}
    /\ ediciones \in 0 .. MaxEdiciones /\ averias \in 0 .. MaxAverias
    /\ autorizados \subseteq Textos /\ sinRevisar \subseteq Textos
    /\ cruzados \subseteq Ids /\ huerfanos \subseteq Ids

\* README.md, "WireGuard": imported hooks are kept but disabled until the user
\* allows them.  No file and no tunnel ever has hooks that the user did not
\* save as allowed, whatever was imported while a handler was connecting, and
\* after any restart.  The other lines that run commands, those of the free
\* text, were saved by the user too, or came in a backup: nobody looks at these
\* (wireguard_client.go:1055), and they reach the file as they are.
HooksAutorizados ==
    \A i \in Ids : \A c \in {fichero[i], tunel[i].conf} \cap Conf :
        /\ c.hooks \in autorizados \cup {Ninguno}
        /\ c.tabla \subseteq autorizados \cup sinRevisar

\* "desconecta el túnel antes de eliminarlo": a tunnel that is up has a
\* profile, through which it can be taken down; except when two handlers
\* worked on the profile at once, or an import or a lost file took it away.
TunelConPerfil ==
    \A i \in Ids : corriendo(i) /\ perfiles[i] = Ninguno =>
        i \in cruzados \cup huerfanos

\* The file of a tunnel that is up is the one it came up with, so that
\* wg-quick down undoes what wg-quick up did and a restart of the computer
\* brings the same tunnel, however the profile was edited, imported or
\* restored meanwhile; except when two handlers worked on it at once.  A service
\* that was deleted and could not be stopped is not of these: it has no file, and
\* no restart brings it.
BajadaCoherente ==
    \A i \in Ids :
        tunel[i].servicio = "corriendo" /\ i \notin cruzados =>
            fichero[i] = tunel[i].conf

pskPropias(c) == c \in Perfil \cup Conf => propias(c.peers)

\* A preshared key never ends up with another peer, however the user adds,
\* removes or moves peers, in the store or in what the engine reads.
PskDeSuPeer ==
    \A i \in Ids : \A c \in {perfiles[i], fichero[i], tunel[i].conf} : pskPropias(c)

\* frontend/src/main.ts, the field of a preshared key: "Guardada cifrada,
\* vacío = conservar".  A peer that had a key has one after saving.
PskConservada ==
    [][\A i \in Ids : (perfiles[i] \in Perfil /\ perfiles'[i] \in Perfil) =>
          \A j \in DOMAIN perfiles[i].peers, k \in DOMAIN perfiles'[i].peers :
              (/\ perfiles[i].peers[j].psk # Ninguno
               /\ perfiles'[i].peers[k].pub = perfiles[i].peers[j].pub)
              => perfiles'[i].peers[k].psk # Ninguno]_vars
=============================================================================
