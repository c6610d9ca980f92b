------------------------------ MODULE Perfiles ------------------------------
(***************************************************************************)
(* The store of profiles (conexiones.json), the files of keys/ and the     *)
(* handlers that work on a profile for many seconds with no lock held:     *)
(* /api/conectar up to the saving of the fingerprint, the two ways of      *)
(* creating a key, and the use of a key the user has.                      *)
(*                                                                         *)
(* Each of them copies a profile under mu, talks to a server, and at the   *)
(* end loads the store again under mu, changes its profile and saves.      *)
(* Between the two the user edits, deletes and imports profiles, other     *)
(* handlers write the same files and the same authorized_keys, links fall, *)
(* a server is installed again and the program dies.                       *)
(*                                                                         *)
(* A key created by the program is the number of the request that created  *)
(* it, which also stands for the comment of its line in authorized_keys.   *)
(***************************************************************************)
EXTENDS Naturals, FiniteSets

CONSTANTS
    Nombres,     \* names of profiles
    Hosts,       \* servers
    Tareas,      \* concurrent HTTP handlers
    Paquetes,    \* backups the user may import
    Ninguno,     \* no profile, no key, no fingerprint, no server
    MaxTokens,   \* bound on the requests that install a key
    MaxAverias,  \* bound on averias
    MaxEdiciones \* bound on ediciones

ASSUME CotasAssumption ==
    MaxTokens \in Nat /\ MaxAverias \in Nat /\ MaxEdiciones \in Nat

Tokens == 1 .. MaxTokens
Propia == 0                        \* the key the user had before
Claves == Tokens \cup {Propia}
Huellas == Hosts \X (0 .. MaxAverias)
Lineas == [clave : Claves, token : Tokens]

\* Paths: the file of the user, the file a backup restores it to, the file
\* named after the profile, and those named after the moment.
Local == <<"local">>
Restaurada == <<"restaurada">>
Fija(n) == <<"fija", n>>
Fechada(t) == <<"fechada", t>>
Rutas == {Local, Restaurada} \cup {Fija(n) : n \in Nombres}
         \cup {Fechada(t) : t \in Tokens}

\* A profile as saved.
Perfil == [host : Hosts, huella : Huellas \cup {Ninguno},
           key : Rutas \cup {Ninguno}]
ASSUME NingunoAssumption ==
    /\ Ninguno \notin Hosts \cup Perfil
    /\ Ninguno \notin Claves /\ Ninguno \notin Rutas
    /\ Ninguno \notin Huellas /\ \A L \in SUBSET Lineas : L # Ninguno

Almacen == [Nombres -> Perfil \cup {Ninguno}]
Vacio == [n \in Nombres |-> Ninguno]
Disco == [Rutas -> Claves \cup {Ninguno}]

ASSUME PaquetesAssumption ==
    Paquetes \subseteq [perfiles : Almacen, keys : Disco]

\* A backup is older than the keys made here, and a file named after a moment
\* is named after a moment of its own.
ASSUME PaquetesAnterioresAssumption ==
    \A p \in Paquetes :
        /\ \A r \in Rutas : p.keys[r] \in {Propia, Ninguno}
        /\ \A t \in Tokens :
              /\ p.keys[Fechada(t)] = Ninguno
              /\ \A n \in Nombres : p.perfiles[n] # Ninguno =>
                    p.perfiles[n].key # Fechada(t)

VARIABLES
    perfiles,    \* conexiones.json
    disco,       \* the usable private keys among the files
    autorizadas, \* authorized_keys of each server
    gwtmp,       \* authorized_keys.gwtmp of each server
    instalacion, \* how often each server was installed again
    sesiones,    \* the connection of each profile, as the fingerprint it saw
    tarea,       \* the handlers
    usados,      \* keys created or installed
    ediciones,   \* history: edits, deletions and imports
    averias,     \* history: links fallen, disks full, servers installed again,
                 \* ends of the program
    pedido,      \* history: the host the user last gave each profile
    guardadas,   \* history: server where the key of a saved request was tested
    sueltas,     \* history: requests whose link or whose command failed, or
                 \* with no rollback
    perturbados, \* history: servers installed again, or whose authorized_keys
                 \* changed while another handler was rewriting it
    recortados,  \* history: servers whose authorized_keys a full disk cut
    compartidas  \* history: moments two requests named their files after

remoto == <<autorizadas, gwtmp, instalacion>>
cuentas == <<ediciones, averias>>
historia == <<pedido, guardadas, sueltas, perturbados, recortados, compartidas>>
incidentes == <<sueltas, perturbados, recortados, compartidas>>
vars == <<perfiles, disco, remoto, sesiones, tarea, usados, cuentas, historia>>

Operaciones == {"conectar", "crear", "crearKey", "usarKey"}
Herramientas == {"crearKey", "usarKey"}
Pasos == {"libre", "marcar", "huella", "registrar", "sesion", "instalar",
          "escribir", "probar", "guardar", "filtrar", "mover"}

TareaLibre == [op |-> Ninguno, paso |-> "libre", nombre |-> Ninguno,
               copia |-> Ninguno, cli |-> Ninguno,
               viva |-> FALSE, token |-> Ninguno, clave |-> Ninguno,
               agregada |-> FALSE, ruta |-> Ninguno]

huella(s) == <<s, instalacion[s]>>
admite(s, k) == \E l \in autorizadas[s] : l.clave = k
ocupado(h) == tarea[h].paso # "libre"
servidor(h) == tarea[h].cli[1]
linea(h) == [clave |-> tarea[h].clave, token |-> tarea[h].token]

editar == ediciones < MaxEdiciones /\ ediciones' = ediciones + 1
averiar ==
    /\ averias < MaxAverias
    /\ averias' = averias + 1
    /\ UNCHANGED ediciones

pasar(h, p) == tarea' = [tarea EXCEPT ![h].paso = p]
acabar(h) == tarea' = [tarea EXCEPT ![h] = TareaLibre]
empezar(h, op, p, n, c) ==
    tarea' = [tarea EXCEPT ![h] =
        [TareaLibre EXCEPT !.op = op, !.paso = p, !.nombre = n, !.copia = c]]

Init ==
    /\ perfiles \in [Nombres -> {Ninguno} \cup
          {[host |-> s, huella |-> f, key |-> Ninguno] :
              s \in Hosts, f \in {Ninguno} \cup (Hosts \X {0})}]
    /\ \A n \in Nombres : perfiles[n] # Ninguno =>
          perfiles[n].huella \in {Ninguno, <<perfiles[n].host, 0>>}
    /\ disco = [r \in Rutas |-> IF r = Local THEN Propia ELSE Ninguno]
    /\ autorizadas = [s \in Hosts |-> {}]
    /\ gwtmp = [s \in Hosts |-> Ninguno]
    /\ instalacion = [s \in Hosts |-> 0]
    /\ sesiones = [n \in Nombres |-> Ninguno]
    /\ tarea = [h \in Tareas |-> TareaLibre]
    /\ usados = 0
    /\ ediciones = 0
    /\ averias = 0
    /\ pedido = [n \in Nombres |-> IF perfiles[n] = Ninguno THEN Ninguno
                                   ELSE perfiles[n].host]
    /\ guardadas = [t \in Tokens |-> Ninguno]
    /\ sueltas = {}
    /\ perturbados = {}
    /\ recortados = {}
    /\ compartidas = {}

-----------------------------------------------------------------------------
(* What the user does to the store, each in one piece under mu.            *)

apuntar(almacen) ==
    pedido' = [n \in Nombres |-> IF almacen[n] = Ninguno THEN Ninguno
                                 ELSE almacen[n].host]

\* The fingerprint a profile has, whatever becomes of its host.
huellaGuardada(n) ==
    IF perfiles[n] = Ninguno THEN Ninguno ELSE perfiles[n].huella

\* POST /api/servidores.
Editar(n, s, k) ==
    /\ editar
    /\ perfiles' = [perfiles EXCEPT ![n] =
          [host |-> s, huella |-> huellaGuardada(n), key |-> k]]
    /\ pedido' = [pedido EXCEPT ![n] = s]
    /\ UNCHANGED <<disco, remoto, sesiones, tarea, usados, averias, guardadas,
                   incidentes>>

Borrar(n) ==
    /\ editar
    /\ perfiles' = [perfiles EXCEPT ![n] = Ninguno]
    /\ pedido' = [pedido EXCEPT ![n] = Ninguno]
    /\ UNCHANGED <<disco, remoto, sesiones, tarea, usados, averias, guardadas,
                   incidentes>>

\* Mutant: the backup is restored without the name of the file.
destinoSinNombre(r) == IF r = Local THEN <<"keys">> ELSE r

\* manejarImportar: the keys are written first, under the base name they had.
destino(r) == IF r = Local THEN Restaurada ELSE r
restaurarKeys(keys) ==
    [r \in Rutas |->
        IF \E v \in Rutas : destino(v) = r /\ keys[v] # Ninguno
        THEN keys[CHOOSE v \in Rutas : destino(v) = r /\ keys[v] # Ninguno]
        ELSE disco[r]]
reapuntar(p, keys) ==
    IF p.key # Ninguno /\ keys[p.key] # Ninguno
    THEN [p EXCEPT !.key = destino(p.key)] ELSE p
fundir(p, reemplazar) ==
    [n \in Nombres |->
        IF p.perfiles[n] # Ninguno THEN reapuntar(p.perfiles[n], p.keys)
        ELSE IF reemplazar THEN Ninguno ELSE perfiles[n]]

Importar(p, reemplazar) ==
    /\ editar
    /\ disco' = restaurarKeys(p.keys)
    /\ perfiles' = fundir(p, reemplazar)
    /\ apuntar(fundir(p, reemplazar))
    /\ UNCHANGED <<remoto, sesiones, tarea, usados, averias, guardadas,
                   incidentes>>

\* os.WriteFile truncates before it writes: when the disk is full the store
\* is left with nothing that cargar can read.
PerderAlmacen ==
    /\ averiar
    /\ perfiles' = Vacio
    /\ apuntar(Vacio)
    /\ UNCHANGED <<disco, remoto, sesiones, tarea, usados, guardadas, incidentes>>

-----------------------------------------------------------------------------
(* /api/conectar.                                                          *)

Conectar(h, n) ==
    /\ ~ocupado(h)
    /\ perfiles[n] # Ninguno
    /\ sesiones[n] = Ninguno
    /\ \A g \in Tareas : ~(tarea[g].op = "conectar" /\ tarea[g].nombre = n)
    /\ empezar(h, "conectar", "marcar", n, perfiles[n])
    /\ UNCHANGED <<perfiles, disco, remoto, sesiones, usados, cuentas,
                   historia>>

\* The callback of the host key, the same in conectar and in
\* manejarCrearInstalarKey.  A request that does not accept a new fingerprint
\* ends here, as one that fails for any other reason.
huellaVale(c) == c.huella \in {Ninguno, huella(c.host)}

\* A password is right or the dialling fails; a key is in a file and allowed.
entra(h) ==
    LET c == tarea[h].copia IN
    (tarea[h].op = "conectar" /\ c.key # Ninguno) =>
        disco[c.key] # Ninguno /\ admite(c.host, disco[c.key])

Marcar(h) ==
    /\ tarea[h].paso = "marcar"
    /\ tarea[h].op = "conectar"
    /\ LET c == tarea[h].copia IN
       \/ /\ huellaVale(c) /\ entra(h)
          /\ tarea' = [tarea EXCEPT ![h].cli = huella(c.host), ![h].viva = TRUE,
                ![h].copia = Ninguno,
                ![h].paso = IF c.huella = Ninguno THEN "huella"
                            ELSE "registrar"]
       \/ acabar(h)
    /\ UNCHANGED <<perfiles, disco, remoto, sesiones, usados, cuentas,
                   historia>>

\* Mutant: the fingerprint is not looked at again before it is saved.
ponerHuellaSinMirar(h) ==
    LET n == tarea[h].nombre IN
    IF perfiles[n] # Ninguno
    THEN [perfiles EXCEPT ![n].huella = tarea[h].cli] ELSE perfiles

\* The store is read again; a save that fails is not noticed.
ponerHuella(h) ==
    LET n == tarea[h].nombre IN
    IF perfiles[n] # Ninguno /\ perfiles[n].huella = Ninguno
    THEN [perfiles EXCEPT ![n].huella = tarea[h].cli]
    ELSE perfiles

GuardarHuella(h) ==
    /\ tarea[h].paso = "huella"
    /\ perfiles' = ponerHuella(h)
    /\ pasar(h, "registrar")
    /\ UNCHANGED <<disco, remoto, sesiones, usados, cuentas,
                   historia>>

Registrar(h) ==
    /\ tarea[h].paso = "registrar"
    /\ sesiones' = [sesiones EXCEPT ![tarea[h].nombre] =
          IF tarea[h].viva THEN tarea[h].cli ELSE Ninguno]
    /\ acabar(h)
    /\ UNCHANGED <<perfiles, disco, remoto, usados, cuentas, historia>>

-----------------------------------------------------------------------------
(* The beginning of each way of giving a profile a key.                    *)

\* manejarCrearInstalarKey reads the saved fingerprint and nothing else; the
\* server is the one in the request.
Crear(h, n, s) ==
    /\ ~ocupado(h)
    /\ empezar(h, "crear", "marcar", n,
               [host |-> s, huella |-> huellaGuardada(n), key |-> Ninguno])
    /\ UNCHANGED <<perfiles, disco, remoto, sesiones, usados, cuentas,
                   historia>>

\* The answer of the server, then a fresh key.  No failure of this handler
\* takes the line back.
CrearMarcar(h) ==
    /\ tarea[h].paso = "marcar"
    /\ tarea[h].op = "crear"
    /\ LET c == tarea[h].copia
           t == usados + 1 IN
       \/ /\ huellaVale(c)
          /\ usados < MaxTokens
          /\ usados' = t
          /\ sueltas' = sueltas \cup {t}
          /\ tarea' = [tarea EXCEPT ![h].cli = huella(c.host), ![h].viva = TRUE,
                ![h].token = t, ![h].clave = t, ![h].paso = "instalar",
                ![h].ruta = Fija(tarea[h].nombre)]
       \/ acabar(h) /\ UNCHANGED <<usados, sueltas>>
    /\ UNCHANGED <<perfiles, disco, remoto, sesiones, cuentas, pedido, guardadas,
                   perturbados, recortados, compartidas>>

\* manejarToolCrearKey and manejarToolUsarKey want a verified fingerprint.
CrearKey(h, n) ==
    /\ ~ocupado(h)
    /\ perfiles[n] # Ninguno /\ perfiles[n].huella # Ninguno
    /\ empezar(h, "crearKey", "sesion", n, [perfiles[n] EXCEPT !.key = Ninguno])
    /\ UNCHANGED <<perfiles, disco, remoto, sesiones, usados, cuentas,
                   historia>>

UsarKey(h, n, r) ==
    /\ ~ocupado(h)
    /\ perfiles[n] # Ninguno /\ perfiles[n].huella # Ninguno
    /\ disco[r] # Ninguno
    /\ tarea' = [tarea EXCEPT ![h] =
          [TareaLibre EXCEPT !.op = "usarKey", !.paso = "sesion", !.nombre = n,
                !.copia = [perfiles[n] EXCEPT !.key = Ninguno],
                !.clave = disco[r], !.ruta = r]]
    /\ UNCHANGED <<perfiles, disco, remoto, sesiones, usados, cuentas,
                   historia>>

\* clienteConexionActiva, under another mu than the profile.
Sesion(h) ==
    /\ tarea[h].paso = "sesion"
    /\ LET s == sesiones[tarea[h].nombre]
           t == usados + 1
           nueva == tarea[h].op = "crearKey" IN
       \/ /\ s # Ninguno
          /\ usados < MaxTokens
          /\ usados' = t
          /\ tarea' = [tarea EXCEPT ![h].cli = s, ![h].viva = TRUE,
                ![h].token = t, ![h].paso = "instalar",
                ![h].clave = IF nueva THEN t ELSE @]
       \/ acabar(h) /\ UNCHANGED usados
    /\ UNCHANGED <<perfiles, disco, remoto, sesiones, cuentas, historia>>

-----------------------------------------------------------------------------
(* The steps the three ways share.                                         *)

\* Another handler has filtered authorized_keys of s and not moved it yet.
cruce(h, s) == \E g \in Tareas \ {h} : tarea[g].paso = "mover" /\ servidor(g) = s
marcarCruce(h, s) ==
    perturbados' = IF cruce(h, s) THEN perturbados \cup {s} ELSE perturbados

\* The files a handler may write its key to.  manejarToolCrearKey names its own
\* after the second, as a request of the same second does: its number stands for
\* the moment, or that of the other.
destinos(h) ==
    IF tarea[h].op = "crearKey" THEN {Fechada(t) : t \in 1 .. usados}
    ELSE {tarea[h].ruta}
coinciden(h, r) == {t \in Tokens \ {tarea[h].token} : r = Fechada(t)}

\* instalarPublicaEnSesion: the key is not added twice.  The last printf answers
\* that it was added even when the disk was full for the line.  An error of the
\* command ends the handler with no rollback, done or not.
Instalar(h) ==
    /\ tarea[h].paso = "instalar"
    /\ LET s == servidor(h)
           nueva == ~admite(s, tarea[h].clave)
           puesta == IF nueva THEN [autorizadas EXCEPT ![s] = @ \cup {linea(h)}]
                     ELSE autorizadas IN
       \/ /\ tarea[h].viva
          /\ \/ autorizadas' = puesta /\ UNCHANGED cuentas
             \/ tarea[h].op \in Herramientas /\ averiar /\ UNCHANGED autorizadas
          /\ \E r \in destinos(h) :
                /\ tarea' = [tarea EXCEPT ![h].agregada = nueva, ![h].ruta = r,
                      ![h].paso = IF tarea[h].op = "usarKey" THEN "probar"
                                  ELSE "escribir"]
                /\ compartidas' = compartidas \cup coinciden(h, r)
          /\ marcarCruce(h, s)
          /\ UNCHANGED sueltas
       \/ /\ autorizadas' \in {autorizadas, IF tarea[h].viva THEN puesta
                                            ELSE autorizadas}
          /\ sueltas' = sueltas \cup {tarea[h].token}
          /\ acabar(h)
          /\ marcarCruce(h, s)
          /\ UNCHANGED <<compartidas, cuentas>>
    /\ UNCHANGED <<perfiles, disco, gwtmp, instalacion, sesiones, usados, pedido,
                   guardadas, recortados>>

\* Mutant: a tool that fails does not take its line back.
desistirSinQuitar(h) == acabar(h)

\* What a handler does when it fails: manejarCrearInstalarKey ends, the
\* tools take back the line they added.
desistir(h) ==
    IF tarea[h].op \in Herramientas /\ tarea[h].agregada
    THEN tarea' = [tarea EXCEPT ![h].paso = "filtrar", ![h].copia = Ninguno,
                                ![h].clave = Ninguno, ![h].ruta = Ninguno]
    ELSE acabar(h)
borrarKey(h) ==
    disco' = IF tarea[h].op = "usarKey" THEN disco
             ELSE [disco EXCEPT ![tarea[h].ruta] = Ninguno]

Escribir(h) ==
    /\ tarea[h].paso = "escribir"
    /\ \/ /\ disco' = [disco EXCEPT ![tarea[h].ruta] = tarea[h].clave]
          /\ pasar(h, "probar")
          /\ UNCHANGED cuentas
       \/ /\ averiar
          /\ disco' \in {disco, [disco EXCEPT ![tarea[h].ruta] = Ninguno]}
          /\ desistir(h)
    /\ UNCHANGED <<perfiles, remoto, sesiones, usados, historia>>

\* A second connection with the key in memory, to the server of the copy.
esperada(h) ==
    IF tarea[h].copia.huella # Ninguno THEN tarea[h].copia.huella
    ELSE tarea[h].cli
superaPrueba(h) ==
    LET s == tarea[h].copia.host IN
    huella(s) = esperada(h) /\ admite(s, tarea[h].clave)

Probar(h) ==
    /\ tarea[h].paso = "probar"
    /\ \/ superaPrueba(h) /\ pasar(h, "guardar") /\ UNCHANGED disco
       \/ borrarKey(h) /\ desistir(h)
    /\ UNCHANGED <<perfiles, remoto, sesiones, usados, cuentas,
                   historia>>

\* Mutant: a tool saves the profile it copied at the beginning.
conKeyVieja(h) ==
    LET n == tarea[h].nombre
        c == [tarea[h].copia EXCEPT !.key = tarea[h].ruta] IN
    [perfiles EXCEPT ![n] = c]

\* The store is read again, and only this profile changes.
conKey(h) ==
    LET n == tarea[h].nombre
        c == tarea[h].copia IN
    IF tarea[h].op = "crear"
    THEN [perfiles EXCEPT ![n] =
            [host |-> c.host, key |-> tarea[h].ruta,
             huella |-> IF huellaGuardada(n) = Ninguno THEN tarea[h].cli
                        ELSE huellaGuardada(n)]]
    ELSE [perfiles EXCEPT ![n].key = tarea[h].ruta]

Guardar(h) ==
    /\ tarea[h].paso = "guardar"
    /\ tarea[h].op \in Herramientas => perfiles[tarea[h].nombre] # Ninguno
    /\ perfiles' = conKey(h)
    /\ pedido' = IF tarea[h].op = "crear"
                 THEN [pedido EXCEPT ![tarea[h].nombre] = tarea[h].copia.host]
                 ELSE pedido
    /\ guardadas' = [guardadas EXCEPT ![tarea[h].token] = tarea[h].copia.host]
    /\ acabar(h)
    /\ UNCHANGED <<disco, remoto, sesiones, usados, cuentas, incidentes>>

\* The profile is gone, or the tunnels of the request are not valid, or the
\* store cannot be written.
GuardarFalla(h) ==
    /\ tarea[h].paso = "guardar"
    /\ \/ /\ tarea[h].op \in Herramientas
          /\ perfiles[tarea[h].nombre] = Ninguno
          /\ UNCHANGED <<perfiles, pedido, cuentas>>
       \/ /\ tarea[h].op = "crear"
          /\ UNCHANGED <<perfiles, pedido, cuentas>>
       \/ /\ averiar
          /\ \/ UNCHANGED <<perfiles, pedido>>
             \/ perfiles' = Vacio /\ apuntar(Vacio)
    /\ IF tarea[h].op = "crearKey" THEN borrarKey(h) ELSE UNCHANGED disco
    /\ desistir(h)
    /\ UNCHANGED <<remoto, sesiones, usados, guardadas, incidentes>>

\* Mutant: grep -v with the comment all the lines of the program share.
FiltrarTodas(h) ==
    /\ tarea[h].paso = "filtrar"
    /\ gwtmp' = IF tarea[h].viva THEN [gwtmp EXCEPT ![servidor(h)] = {}]
                ELSE gwtmp
    /\ IF tarea[h].viva THEN pasar(h, "mover") ELSE acabar(h)
    /\ UNCHANGED <<perfiles, disco, autorizadas, instalacion, sesiones, usados,
                   cuentas, historia>>

\* quitarPublicaGestionada: grep -v to a file of fixed name, then mv.  The
\* errors are ignored: the disk is full and the copy is cut, or cannot be created
\* at all, or the command does not run.
Filtrar(h) ==
    LET s == servidor(h)
        resto == {l \in autorizadas[s] : l.token # tarea[h].token} IN
    /\ tarea[h].paso = "filtrar"
    /\ \/ /\ tarea[h].viva
          /\ gwtmp' = [gwtmp EXCEPT ![s] = resto]
          /\ pasar(h, "mover")
          /\ UNCHANGED <<cuentas, sueltas, recortados>>
       \/ /\ tarea[h].viva
          /\ averiar
          /\ \E parte \in SUBSET resto : gwtmp' = [gwtmp EXCEPT ![s] = parte]
          /\ recortados' = recortados \cup {s}
          /\ pasar(h, "mover")
          /\ UNCHANGED sueltas
       \/ /\ tarea[h].viva
          /\ averiar
          /\ gwtmp[s] = Ninguno
          /\ sueltas' = sueltas \cup {tarea[h].token}
          /\ pasar(h, "mover")
          /\ UNCHANGED <<gwtmp, recortados>>
       \/ /\ IF tarea[h].viva THEN averiar ELSE UNCHANGED cuentas
          /\ sueltas' = sueltas \cup {tarea[h].token}
          /\ acabar(h)
          /\ UNCHANGED <<gwtmp, recortados>>
    /\ UNCHANGED <<perfiles, disco, autorizadas, instalacion, sesiones, usados,
                   pedido, guardadas, perturbados, compartidas>>

Mover(h) ==
    /\ tarea[h].paso = "mover"
    /\ LET s == servidor(h) IN
       /\ autorizadas' = [autorizadas EXCEPT ![s] =
              IF gwtmp[s] = Ninguno THEN @ ELSE gwtmp[s]]
       /\ gwtmp' = [gwtmp EXCEPT ![s] = Ninguno]
       /\ marcarCruce(h, s)
    /\ acabar(h)
    /\ UNCHANGED <<perfiles, disco, instalacion, sesiones, usados, cuentas,
                   pedido, guardadas, sueltas, recortados, compartidas>>

-----------------------------------------------------------------------------
(* The world.                                                              *)

tokensDe(T) == {tarea[h].token : h \in T} \ {Ninguno}

\* A command that already runs on the server goes on without its link.
cortar(T) == [h \in Tareas |-> IF h \in T THEN [tarea[h] EXCEPT !.viva = FALSE]
                               ELSE tarea[h]]

\* The connection of a profile ends, by itself or because the user says so.
CaerSesion(n) ==
    LET T == {h \in Tareas : tarea[h].nombre = n /\ tarea[h].op \in Herramientas
                                                 /\ tarea[h].viva} IN
    /\ averiar
    /\ sesiones[n] # Ninguno
    /\ sesiones' = [sesiones EXCEPT ![n] = Ninguno]
    /\ tarea' = cortar(T)
    /\ sueltas' = sueltas \cup tokensDe(T)
    /\ UNCHANGED <<perfiles, disco, remoto, usados, pedido, guardadas,
                   perturbados, recortados, compartidas>>

CaerCliente(h) ==
    /\ tarea[h].viva /\ tarea[h].op \notin Herramientas
    /\ averiar
    /\ tarea' = cortar({h})
    /\ UNCHANGED <<perfiles, disco, remoto, sesiones, usados, historia>>

\* The server is installed again: another host key, no authorized_keys, and
\* nothing that ran on it goes on.
Reinstalar(s) ==
    LET T == {h \in Tareas : tarea[h].cli # Ninguno /\ servidor(h) = s} IN
    /\ averiar
    /\ instalacion' = [instalacion EXCEPT ![s] = @ + 1]
    /\ autorizadas' = [autorizadas EXCEPT ![s] = {}]
    /\ gwtmp' = [gwtmp EXCEPT ![s] = Ninguno]
    /\ sesiones' = [n \in Nombres |->
          IF sesiones[n] # Ninguno /\ sesiones[n][1] = s THEN Ninguno
          ELSE sesiones[n]]
    /\ tarea' = cortar(T)
    /\ perturbados' = perturbados \cup {s}
    /\ UNCHANGED <<perfiles, disco, usados, pedido, guardadas, sueltas, recortados,
                   compartidas>>

\* The program ends and starts again.  In the middle of guardar the store is
\* left truncated.
Morir ==
    LET fuera == {h \in Tareas : tarea[h].paso # "mover"} IN
    /\ averiar
    /\ \E h \in Tareas : ocupado(h)
    /\ \/ UNCHANGED <<perfiles, pedido>>
       \/ /\ \E h \in Tareas : tarea[h].paso \in {"huella", "guardar"}
          /\ perfiles' = Vacio /\ apuntar(Vacio)
    /\ tarea' = [h \in Tareas |->
          IF h \in fuera THEN TareaLibre ELSE [tarea[h] EXCEPT !.viva = FALSE]]
    /\ sesiones' = [n \in Nombres |-> Ninguno]
    /\ sueltas' = sueltas \cup tokensDe(fuera)
    /\ UNCHANGED <<disco, remoto, usados, guardadas, perturbados, recortados,
                   compartidas>>

Usuario ==
    \/ \E n \in Nombres, s \in Hosts : \E k \in {Ninguno} \cup
          (IF perfiles[n] = Ninguno THEN {Local} ELSE {perfiles[n].key}) :
          Editar(n, s, k)
    \/ \E n \in Nombres : Borrar(n)
    \/ \E p \in Paquetes, r \in BOOLEAN : Importar(p, r)

Peticion(h) ==
    \/ \E n \in Nombres : Conectar(h, n)
    \/ Marcar(h) \/ GuardarHuella(h) \/ Registrar(h)
    \/ \E n \in Nombres, s \in Hosts : Crear(h, n, s)
    \/ CrearMarcar(h)
    \/ \E n \in Nombres : CrearKey(h, n)
    \/ \E n \in Nombres : \E r \in {Local, Fija(n)} : UsarKey(h, n, r)
    \/ Sesion(h) \/ Instalar(h) \/ Escribir(h) \/ Probar(h)
    \/ Guardar(h) \/ GuardarFalla(h) \/ Filtrar(h) \/ Mover(h)

Mundo ==
    \/ PerderAlmacen
    \/ \E n \in Nombres : CaerSesion(n)
    \/ \E h \in Tareas : CaerCliente(h)
    \/ \E s \in Hosts : Reinstalar(s)
    \/ Morir

Next == Usuario \/ (\E h \in Tareas : Peticion(h)) \/ Mundo

Spec == Init /\ [][Next]_vars

-----------------------------------------------------------------------------
(* Properties.                                                             *)

Tarea == [op : Operaciones \cup {Ninguno}, paso : Pasos,
          nombre : Nombres \cup {Ninguno}, copia : Perfil \cup {Ninguno},
          cli : Huellas \cup {Ninguno}, viva : BOOLEAN,
          token : Tokens \cup {Ninguno}, clave : Claves \cup {Ninguno},
          agregada : BOOLEAN, ruta : Rutas \cup {Ninguno}]

\* Every variable has its type.
TypeOK ==
    /\ perfiles \in Almacen
    /\ disco \in Disco
    /\ autorizadas \in [Hosts -> SUBSET Lineas]
    /\ gwtmp \in [Hosts -> (SUBSET Lineas) \cup {Ninguno}]
    /\ instalacion \in [Hosts -> 0 .. MaxAverias]
    /\ sesiones \in [Nombres -> Huellas \cup {Ninguno}]
    /\ tarea \in [Tareas -> Tarea]
    /\ usados \in 0 .. MaxTokens
    /\ ediciones \in 0 .. MaxEdiciones
    /\ averias \in 0 .. MaxAverias
    /\ pedido \in [Nombres -> Hosts \cup {Ninguno}]
    /\ guardadas \in [Tokens -> Hosts \cup {Ninguno}]
    /\ sueltas \subseteq Tokens
    /\ perturbados \subseteq Hosts
    /\ recortados \subseteq Hosts
    /\ compartidas \subseteq Tokens

\* Whatever the long handlers took with them when they began, the store says
\* of every profile what its last edit, deletion or import said: a handler
\* neither brings back a profile that was deleted while it was dialling, nor
\* undoes the new host of one, nor touches the others.
UltimaPalabra ==
    \A n \in Nombres :
        /\ perfiles[n] = Ninguno <=> pedido[n] = Ninguno
        /\ perfiles[n] # Ninguno => perfiles[n].host = pedido[n]

\* TOFU: the fingerprint of a profile, once there, is never replaced by what
\* a handler brings from a server, even when two handlers saw the profile
\* without one and met different servers.  Only the user changes it, with an
\* import or a profile created anew.
HuellaFirme ==
    [][\A n \in Nombres :
          (/\ tarea' # tarea
           /\ perfiles[n] # Ninguno /\ perfiles'[n] # Ninguno
           /\ perfiles[n].huella # Ninguno)
          => perfiles'[n].huella = perfiles[n].huella]_vars

\* A profile whose key came from manejarToolCrearKey can use it: the private
\* file is there, unless another request of the same second took its name for its
\* own; and the server where it was tested still admits it, unless that server was
\* installed again, a full disk cut its authorized_keys, or two handlers rewrote it
\* at the same time.
KeyCreadaSirve ==
    \A n \in Nombres, t \in Tokens :
        /\ perfiles[n] # Ninguno /\ perfiles[n].key = Fechada(t)
        /\ t \notin compartidas
        =>  /\ disco[Fechada(t)] = t
            /\ guardadas[t] \in Hosts
            /\ guardadas[t] \notin perturbados \cup recortados =>
                  admite(guardadas[t], t)

\* A tool that gives up leaves no line behind in authorized_keys, whatever
\* step failed, as long as its link and its commands do not and nobody else is
\* rewriting the file: every line belongs to a handler at work, or to a key that
\* was saved in a profile, or to a request whose link or whose command failed, or
\* of /api/crear-instalar-key, which takes nothing back (sueltas).
SinResiduos ==
    \A s \in Hosts \ perturbados : \A l \in autorizadas[s] :
        \/ guardadas[l.token] # Ninguno
        \/ l.token \in sueltas
        \/ \E h \in Tareas : tarea[h].token = l.token

\* README.md, "Crear e instalar una Key SSH": a connection with the new key is
\* tested before the profile changes.  So a creation that fails its test
\* leaves the profile with a key file, if it had one.
KeyDelPerfilQueda ==
    (\A h \in Tareas : ~ocupado(h)) =>
        \A n \in Nombres :
            (perfiles[n] # Ninguno /\ perfiles[n].key = Fija(n)) =>
                disco[Fija(n)] # Ninguno
=============================================================================
