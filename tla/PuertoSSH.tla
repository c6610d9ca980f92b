----------------------------- MODULE PuertoSSH -----------------------------
(***************************************************************************)
(* The two-phase change of the SSH port of a server: Probar, then Aplicar  *)
(* or Cancelar (conectar-gateway/ssh_keys.go).                             *)
(*                                                                         *)
(* The handlers run concurrently and hold no lock while they talk to the   *)
(* server; the map cambiosPuertoSSH says who may.  Every remote command is *)
(* an action: between two of them the link may fall, the program may die,  *)
(* and the timer the program left in systemd may fire.                     *)
(*                                                                         *)
(* The state is that of one server: handlers of different servers share    *)
(* nothing but the map, which has an entry for each.                       *)
(***************************************************************************)
EXTENDS Naturals, Sequences, FiniteSets

CONSTANTS
    Puertos,   \* TCP ports of the server
    Tokens,    \* identities of the tests, one for each Probar
    Tareas,    \* concurrent HTTP handlers
    Entornos,  \* servers considered
    Ninguno,   \* no port, no token, no backup
    MaxAverias \* bound on averias and errores, together

ASSUME NingunoAssumption ==
    /\ Ninguno \notin Puertos \cup Tokens
    /\ \A S \in SUBSET Puertos : Ninguno # S
ASSUME AveriasAssumption == MaxAverias \in Nat
ASSUME EntornosAssumption ==
    Entornos \subseteq [systemd : BOOLEAN, firewall : BOOLEAN]

VARIABLES
    entorno,  \* what the server has: systemd, an active firewall
    bloqueados, \* ports blocked on the way to the server
    srv,      \* the files, listeners, rules and timers of the server
    perfil,   \* port saved in the profile of the server
    cambio,   \* entry of cambiosPuertoSSH for the server
    tarea,    \* the handlers
    enlace,   \* whether the server is in the registry of connections
    averias,  \* history: how often the link fell, the program ended or a port was
              \* blocked
    viejas,   \* history: tests reserved with a profile read before another
              \* change
    perdidas, \* history: tests that lost the way back, unnoticed: Aplicar gave
              \* up its stage after a restoration that failed, or the backup was
              \* made of a file without the port to go back to
    olvidadas, \* history: temporary keys whose removal failed
    errores   \* history: how many files were cut, and how many of the commands
              \* whose errors are ignored failed

externo == <<entorno, bloqueados>>
historia == <<viejas, perdidas, olvidadas, errores>>
vars == <<externo, srv, perfil, cambio, tarea, enlace, averias, historia>>

Clases == {"prueba", "final"}
\* A test has no timer until its stage is published, "ninguna" if there was
\* none to arm.
Guardias == {"nueva", "sin", "ninguna", "armada", "parada", "disparada"}

\* sshd_config names cfg; sshd listens on activo; a rule of the firewall lets
\* abiertos in; respaldo holds the backups, claves the temporary keys.
Servidor == [cfg : SUBSET Puertos, activo : SUBSET Puertos,
             abiertos : SUBSET Puertos,
             respaldo : [Tokens -> (SUBSET Puertos) \cup {Ninguno}],
             claves : SUBSET (Tokens \X Clases),
             guardia : [Tokens -> Guardias]]

SinCambio == [token |-> Ninguno, anterior |-> Ninguno, nuevo |-> Ninguno,
              probado |-> FALSE, unidad |-> FALSE, enCurso |-> FALSE]
Cambio == {SinCambio} \cup
          [token : Tokens, anterior : Puertos, nuevo : Puertos,
           probado : BOOLEAN, unidad : BOOLEAN, enCurso : BOOLEAN]

Pasos == {"libre", "reservar", "clave", "firewall", "config", "prueba",
          "guardia", "claveFinal", "final", "comprobar", "guardar",
          "cancelar", "guion"}
Ordenes == {"restaurar", "cerrarNuevo", "cerrarAnterior", "parar",
            "quitarClave", "quitarFinal", "borrarRespaldo", "soltar",
            "borrar", "liberar"}
\* A handler that has not reserved yet has ports and no token.
Copia == Cambio \cup
         [token : {Ninguno}, anterior : Puertos, nuevo : Puertos,
          probado : {FALSE}, unidad : {FALSE}, enCurso : {FALSE}]

TareaLibre == [paso |-> "libre", copia |-> SinCambio, cerrar |-> FALSE,
               cli |-> FALSE, guion |-> <<>>]

\* SSH answers on a port: sshd listens, and nobody blocks it on the way.
alcanzable(p) ==
    /\ p \in srv.activo
    /\ entorno.firewall => p \in srv.abiertos
    /\ p \notin bloqueados

-----------------------------------------------------------------------------
(* What the remote scripts do to the server.                               *)

\* scriptConfigPuertoSSH writes the file in place before it tests and reloads
\* it: a write that fails leaves a part of it.
escribir(s, P) == [s EXCEPT !.cfg = P]
cortes(s, P) == {escribir(s, Q) : Q \in SUBSET P}
configurar(s, P) == [s EXCEPT !.cfg = P, !.activo = P]
respaldar(s, t) == [s EXCEPT !.respaldo[t] = s.cfg]

\* restaurarPuertoOriginal: without a backup sshd only reloads its file.
restaurar(s, t) ==
    configurar(s, IF s.respaldo[t] = Ninguno THEN s.cfg ELSE s.respaldo[t])

\* It fails at the copy, at sshd -t or at the reload: sshd goes on as it was.
restaurarFalla(s, t) ==
    {s} \cup (IF s.respaldo[t] = Ninguno THEN {} ELSE cortes(s, s.respaldo[t]))

cerrarPuerto(s, p) == [s EXCEPT !.abiertos = @ \ {p}]
quitarClave(s, t, clase) == [s EXCEPT !.claves = @ \ {<<t, clase>>}]

\* cancelarGuardPuertoSSH stops the timer, if the program knows its unit.
pararGuardia(s, c) ==
    [s EXCEPT !.guardia[c.token] =
        IF c.unidad /\ @ = "armada" THEN "parada" ELSE @]

\* The commands whose errors are ignored, and what each does for a change c
\* when it works.
efecto(s, op, c) ==
    CASE op = "restaurar" -> restaurar(s, c.token)
      [] op = "cerrarNuevo" -> cerrarPuerto(s, c.nuevo)
      [] op = "cerrarAnterior" -> cerrarPuerto(s, c.anterior)
      [] op = "parar" -> pararGuardia(s, c)
      [] op = "quitarClave" -> quitarClave(s, c.token, "prueba")
      [] op = "quitarFinal" -> quitarClave(s, c.token, "final")
      [] op = "borrarRespaldo" -> [s EXCEPT !.respaldo[c.token] = Ninguno]
      [] OTHER -> s

-----------------------------------------------------------------------------
(* Steps shared by the handlers.                                           *)

pasar(h, p) == tarea' = [tarea EXCEPT ![h].paso = p]
terminar(h, guion) ==
    tarea' = [tarea EXCEPT ![h].paso = "guion", ![h].guion = guion]

contarError == averias + errores < MaxAverias /\ errores' = errores + 1

\* A write that left another file than the one before and the one in use.
contarCorte ==
    IF srv'.cfg \in {srv.cfg, srv'.activo} THEN UNCHANGED errores ELSE contarError

\* A command whose error the code checks.  Without a link it does nothing;
\* with one it may still fail, and leave any of the states in fallos.
orden(h, hecho, fallos, siguiente, guion) ==
    \/ /\ tarea[h].cli
       /\ srv' = hecho
       /\ pasar(h, siguiente)
    \/ /\ srv' \in IF tarea[h].cli THEN fallos ELSE {srv}
       /\ terminar(h, guion)

Init ==
    /\ entorno \in Entornos
    /\ bloqueados = {}
    /\ \E p \in Puertos :
          /\ perfil = p
          /\ srv = [cfg |-> {p}, activo |-> {p}, abiertos |-> {p},
                    respaldo |-> [t \in Tokens |-> Ninguno], claves |-> {},
                    guardia |-> [t \in Tokens |-> "nueva"]]
    /\ cambio = SinCambio
    /\ tarea = [h \in Tareas |-> TareaLibre]
    /\ enlace = TRUE
    /\ averias = 0
    /\ viejas = {}
    /\ perdidas = {}
    /\ olvidadas = {}
    /\ errores = 0

\* Probar reads the profile and asks the server whether the port is in use,
\* before it reserves the server.
ProbarLeer(h, p) ==
    /\ tarea[h].paso = "libre"
    /\ enlace
    /\ p # perfil
    /\ p \notin srv.activo
    /\ tarea' = [tarea EXCEPT ![h] =
          [TareaLibre EXCEPT !.paso = "reservar", !.cli = TRUE,
             !.copia = [SinCambio EXCEPT !.anterior = perfil, !.nuevo = p]]]
    /\ UNCHANGED <<externo, srv, perfil, cambio, enlace, averias, historia>>

\* Mutant: the entry is looked at when the profile is read, not when it is
\* taken.
ProbarReservarSinMirar(h, t) ==
    /\ tarea[h].paso = "reservar"
    /\ srv.guardia[t] = "nueva"
    /\ cambio' = [tarea[h].copia EXCEPT !.token = t]
    /\ tarea' = [tarea EXCEPT ![h].paso = "clave", ![h].copia.token = t]
    /\ srv' = [srv EXCEPT !.guardia[t] = "sin"]
    /\ UNCHANGED <<externo, perfil, enlace, averias, historia>>

\* The entry is taken before any remote change; a second test is refused.
ProbarReservar(h, t) ==
    /\ tarea[h].paso = "reservar"
    /\ srv.guardia[t] = "nueva"
    /\ IF cambio # SinCambio
       THEN /\ tarea' = [tarea EXCEPT ![h] = TareaLibre]
            /\ UNCHANGED <<srv, cambio, viejas>>
       ELSE /\ cambio' = [tarea[h].copia EXCEPT !.token = t]
            /\ tarea' = [tarea EXCEPT ![h].paso = "clave",
                                      ![h].copia.token = t]
            /\ srv' = [srv EXCEPT !.guardia[t] = "sin"]
            /\ viejas' = IF tarea[h].copia.anterior = perfil
                         THEN viejas ELSE viejas \cup {t}
    /\ UNCHANGED <<externo, perfil, enlace, averias, perdidas, olvidadas,
                   errores>>

\* The temporary key of the test.
ProbarClave(h) ==
    LET t == tarea[h].copia.token
    IN  /\ tarea[h].paso = "clave"
        /\ orden(h, [srv EXCEPT !.claves = @ \cup {<<t, "prueba">>}], {srv},
                 "firewall", <<"soltar">>)
        /\ UNCHANGED <<externo, perfil, cambio, enlace, averias, historia>>

\* Mutant: the temporary key stays when the firewall refuses.
ProbarFirewallSinLimpiar(h) ==
    /\ tarea[h].paso = "firewall"
    /\ orden(h, [srv EXCEPT !.abiertos = @ \cup {tarea[h].copia.nuevo}], {srv},
             "config", <<"soltar">>)
    /\ UNCHANGED <<externo, perfil, cambio, enlace, averias, historia>>

\* The firewall is opened before sshd is touched.  A script that fails late
\* leaves the port open.
ProbarFirewall(h) ==
    LET s == [srv EXCEPT !.abiertos = @ \cup {tarea[h].copia.nuevo}]
    IN  /\ tarea[h].paso = "firewall"
        /\ orden(h, s, {srv, s}, "config", <<"quitarClave", "soltar">>)
        /\ UNCHANGED <<externo, perfil, cambio, enlace, averias, historia>>

\* Mutant: the backup is made of the file already written.
ProbarConfigRespaldoTardio(h) ==
    LET c == tarea[h].copia
        P == {c.nuevo}
        s == respaldar(escribir(srv, P), c.token)
    IN  /\ tarea[h].paso = "config"
        /\ orden(h, configurar(s, P \cup {c.anterior}), {srv, s}, "prueba",
                 <<"cerrarNuevo", "quitarClave", "soltar">>)
        /\ UNCHANGED <<externo, perfil, cambio, enlace, averias, historia>>

\* sshd is made to listen on both ports.  If the write, sshd -t or the reload
\* fails the file stays as it is then: this path does not restore it, and the
\* next test makes its backup of it.
ProbarConfig(h) ==
    LET c == tarea[h].copia
        s == respaldar(srv, c.token)
        P == {c.anterior, c.nuevo}
    IN  /\ tarea[h].paso = "config"
        /\ orden(h, configurar(s, P),
                 {srv, s, configurar(s, P)} \cup cortes(s, P), "prueba",
                 <<"cerrarNuevo", "quitarClave", "soltar">>)
        /\ perdidas' = IF srv'.respaldo[c.token] = srv.cfg /\ c.anterior \notin srv.cfg
                       THEN perdidas \cup {c.token} ELSE perdidas
        /\ contarCorte
        /\ UNCHANGED <<externo, perfil, cambio, enlace, averias, viejas,
                       olvidadas>>

\* The second connection, through the new port, and a session in it.
ProbarConexion(h) ==
    /\ tarea[h].paso = "prueba"
    /\ \/ alcanzable(tarea[h].copia.nuevo) /\ pasar(h, "guardia")
       \/ terminar(h, <<"restaurar", "cerrarNuevo", "quitarClave", "soltar">>)
    /\ UNCHANGED <<externo, srv, perfil, cambio, enlace, averias, historia>>

\* Mutant: the stage is published without its ports.
ProbarGuardiaSinPuertos(h) ==
    LET t == tarea[h].copia.token
    IN  /\ tarea[h].paso = "guardia"
        /\ srv' = [srv EXCEPT !.guardia[t] =
                     IF tarea[h].cli /\ entorno.systemd THEN "armada"
                     ELSE "ninguna"]
        /\ cambio' = [SinCambio EXCEPT !.token = t, !.probado = TRUE]
        /\ tarea' = [tarea EXCEPT ![h] = TareaLibre]
        /\ UNCHANGED <<externo, perfil, enlace, averias, historia>>

\* The timer is armed, if the server has systemd and systemd-run works, and
\* the stage published.  The answer of systemd-run may be lost: then the timer
\* runs and the program does not know its unit.
ProbarGuardia(h) ==
    LET c == tarea[h].copia
    IN  /\ tarea[h].paso = "guardia"
        /\ \E armada \in BOOLEAN, unidad \in BOOLEAN :
              /\ armada => tarea[h].cli /\ entorno.systemd
              /\ unidad => armada
              /\ srv' = [srv EXCEPT !.guardia[c.token] =
                            IF armada THEN "armada" ELSE "ninguna"]
              /\ cambio' = [c EXCEPT !.probado = TRUE, !.unidad = unidad]
        /\ tarea' = [tarea EXCEPT ![h] = TareaLibre]
        /\ UNCHANGED <<externo, perfil, enlace, averias, historia>>

\* Aplicar and Cancelar take the stage; the token is only known to whoever got
\* the answer of Probar.
tomar(h, p, cerrar) ==
    /\ tarea[h].paso = "libre"
    /\ enlace
    /\ cambio.probado
    /\ ~cambio.enCurso
    /\ cambio' = [cambio EXCEPT !.enCurso = TRUE]
    /\ tarea' = [tarea EXCEPT ![h] =
          [TareaLibre EXCEPT !.paso = p, !.cli = TRUE, !.cerrar = cerrar,
                             !.copia = cambio]]
    /\ UNCHANGED <<externo, srv, perfil, enlace, averias, historia>>

Aplicar(h, cerrar) == tomar(h, "claveFinal", cerrar)
Cancelar(h) == tomar(h, "cancelar", FALSE)

\* Mutant: the timer is stopped as soon as the user confirms.
AplicarClaveSinGuardia(h) ==
    LET c == tarea[h].copia
        s == pararGuardia(srv, c)
    IN  /\ tarea[h].paso = "claveFinal"
        /\ orden(h, [s EXCEPT !.claves = @ \cup {<<c.token, "final">>}], {s},
                 "final", <<"liberar">>)
        /\ UNCHANGED <<externo, perfil, cambio, enlace, averias, historia>>

\* The temporary key of the final connection.
AplicarClave(h) ==
    LET t == tarea[h].copia.token
    IN  /\ tarea[h].paso = "claveFinal"
        /\ orden(h, [srv EXCEPT !.claves = @ \cup {<<t, "final">>}], {srv},
                 "final", <<"liberar">>)
        /\ UNCHANGED <<externo, perfil, cambio, enlace, averias, historia>>

\* sshd is left with the new port only.  If that fails the file may be cut,
\* and the stage waits with its backup.
AplicarConfig(h) ==
    LET P == {tarea[h].copia.nuevo}
    IN  /\ tarea[h].paso = "final"
        /\ orden(h, configurar(srv, P),
                 {srv, configurar(srv, P)} \cup cortes(srv, P), "comprobar",
                 <<"quitarClave", "quitarFinal", "liberar">>)
        /\ contarCorte
        /\ UNCHANGED <<externo, perfil, cambio, enlace, averias, viejas,
                       perdidas, olvidadas>>

\* Mutant: the final connection is made and its result ignored.
AplicarConexionSinMirar(h) ==
    /\ tarea[h].paso = "comprobar"
    /\ pasar(h, "guardar")
    /\ UNCHANGED <<externo, srv, perfil, cambio, enlace, averias, historia>>

\* The final connection through the new port.
AplicarConexion(h) ==
    /\ tarea[h].paso = "comprobar"
    /\ \/ alcanzable(tarea[h].copia.nuevo) /\ pasar(h, "guardar")
       \/ terminar(h, <<"restaurar", "parar", "quitarClave", "cerrarNuevo",
                        "borrar", "quitarFinal", "liberar">>)
    /\ UNCHANGED <<externo, srv, perfil, cambio, enlace, averias, historia>>

\* Mutant: when the profile cannot be saved, the server is left as it is.
AplicarGuardarSinRestaurar(h) ==
    /\ tarea[h].paso = "guardar"
    /\ \/ /\ perfil' = tarea[h].copia.nuevo
          /\ terminar(h, <<"parar", "quitarClave", "borrarRespaldo",
                           "borrar", "quitarFinal", "liberar">>)
       \/ /\ UNCHANGED perfil
          /\ terminar(h, <<"parar", "quitarClave", "borrar", "quitarFinal",
                           "liberar">>)
    /\ UNCHANGED <<externo, srv, cambio, enlace, averias, historia>>

\* The profile is saved, unless it was deleted or the disk refuses.
AplicarGuardar(h) ==
    /\ tarea[h].paso = "guardar"
    /\ \/ /\ perfil' = tarea[h].copia.nuevo
          /\ terminar(h, IF tarea[h].cerrar /\ entorno.firewall
                         THEN <<"cerrarAnterior", "parar", "quitarClave",
                                "borrarRespaldo", "borrar", "quitarFinal",
                                "liberar">>
                         ELSE <<"parar", "quitarClave", "borrarRespaldo",
                                "borrar", "quitarFinal", "liberar">>)
       \/ /\ UNCHANGED perfil
          /\ terminar(h, <<"restaurar", "cerrarNuevo", "parar", "quitarClave",
                           "borrar", "quitarFinal", "liberar">>)
    /\ UNCHANGED <<externo, srv, cambio, enlace, averias, historia>>

\* Cancelar alone looks at the error of the restoration: it leaves the stage
\* and its timer.
CancelarRestaurar(h) ==
    LET t == tarea[h].copia.token
    IN  /\ tarea[h].paso = "cancelar"
        /\ \/ /\ tarea[h].cli
              /\ srv' = restaurar(srv, t)
              /\ terminar(h, <<"cerrarNuevo", "parar", "quitarClave", "borrar",
                               "liberar">>)
           \/ /\ srv' \in IF tarea[h].cli
                         THEN restaurarFalla(srv, t) \cup {restaurar(srv, t)}
                         ELSE {srv}
              /\ terminar(h, <<"liberar">>)
        /\ contarCorte
        /\ UNCHANGED <<externo, perfil, cambio, enlace, averias, viejas,
                       perdidas, olvidadas>>

ordenes(h) == {tarea[h].guion[i] : i \in DOMAIN tarea[h].guion}

\* One of the commands whose errors are ignored fails, and the list goes on:
\* Aplicar stops the timer and gives up the stage of a server it did not
\* restore.
ordenFalla(h, op, t) ==
    /\ tarea[h].cli
    /\ op \notin {"soltar", "borrar", "liberar"}
    /\ contarError
    /\ srv' \in IF op = "restaurar" THEN restaurarFalla(srv, t) ELSE {srv}
    /\ perdidas' = IF op = "restaurar" /\ "borrar" \in ordenes(h)
                   THEN perdidas \cup {t} ELSE perdidas
    /\ olvidadas' = olvidadas \cup
                      (IF op = "quitarClave" THEN {<<t, "prueba">>} ELSE {}) \cup
                      (IF op = "quitarFinal" THEN {<<t, "final">>} ELSE {})

\* The commands whose errors are ignored, in order, and the ends of the
\* handlers: a reservation is withdrawn ("soltar"), a stage deleted whatever
\* its token ("borrar"), or left to be tried again ("liberar").
Guion(h) ==
    LET c == tarea[h].copia
        op == Head(tarea[h].guion)
    IN  /\ tarea[h].paso = "guion"
        /\ \/ /\ srv' = IF tarea[h].cli THEN efecto(srv, op, c) ELSE srv
              /\ UNCHANGED <<perdidas, olvidadas, errores>>
           \/ ordenFalla(h, op, c.token)
        /\ cambio' = CASE op = "borrar" -> SinCambio
                       [] op = "soltar" /\ cambio.token = c.token -> SinCambio
                       [] op = "liberar" /\ cambio.token = c.token ->
                             [cambio EXCEPT !.enCurso = FALSE]
                       [] OTHER -> cambio
        /\ tarea' = [tarea EXCEPT ![h] =
              IF Len(tarea[h].guion) = 1
              THEN TareaLibre
              ELSE [tarea[h] EXCEPT !.guion = Tail(tarea[h].guion)]]
        /\ UNCHANGED <<externo, perfil, enlace, averias, viejas>>

-----------------------------------------------------------------------------
(* The environment.                                                        *)

\* Five minutes after the test the timer of systemd restores the backup, and
\* then removes the key; or fails to.
GuardiaDispara(t) ==
    LET s == [srv EXCEPT !.guardia[t] = "disparada"]
    IN  /\ srv.guardia[t] = "armada"
        /\ srv' \in {quitarClave(restaurar(s, t), t, "prueba"), restaurar(s, t)}
                    \cup restaurarFalla(s, t)
        /\ contarCorte
        /\ UNCHANGED <<externo, perfil, cambio, tarea, enlace, averias, viejas,
                       perdidas, olvidadas>>

\* The link falls: the handlers at work never get another client.
CaerEnlace ==
    /\ enlace
    /\ averias + errores < MaxAverias
    /\ enlace' = FALSE
    /\ averias' = averias + 1
    /\ tarea' = [h \in Tareas |-> [tarea[h] EXCEPT !.cli = FALSE]]
    /\ UNCHANGED <<externo, srv, perfil, cambio, historia>>

\* Something on the way starts to block a port the profile does not use.  Not
\* between the final connection and the profile: those are microseconds apart.
Bloquear(p) ==
    /\ averias + errores < MaxAverias
    /\ p # perfil
    /\ \A h \in Tareas : tarea[h].paso # "guardar"
    /\ bloqueados' = bloqueados \cup {p}
    /\ averias' = averias + 1
    /\ UNCHANGED <<entorno, srv, perfil, cambio, tarea, enlace, historia>>

\* The user connects again, through the port of the profile.
Conectar ==
    /\ ~enlace
    /\ alcanzable(perfil)
    /\ enlace' = TRUE
    /\ UNCHANGED <<externo, srv, perfil, cambio, tarea, averias, historia>>

\* The program is closed or dies; only the profile and the server remain.
Morir ==
    /\ averias + errores < MaxAverias
    /\ cambio' = SinCambio
    /\ tarea' = [h \in Tareas |-> TareaLibre]
    /\ enlace' = FALSE
    /\ averias' = averias + 1
    /\ UNCHANGED <<externo, srv, perfil, historia>>

Next ==
    \/ \E h \in Tareas :
          \/ \E p \in Puertos : ProbarLeer(h, p)
          \/ \E t \in Tokens : ProbarReservar(h, t)
          \/ ProbarClave(h)
          \/ ProbarFirewall(h)
          \/ ProbarConfig(h)
          \/ ProbarConexion(h)
          \/ ProbarGuardia(h)
          \/ \E cerrar \in BOOLEAN : Aplicar(h, cerrar)
          \/ AplicarClave(h)
          \/ AplicarConfig(h)
          \/ AplicarConexion(h)
          \/ AplicarGuardar(h)
          \/ Cancelar(h)
          \/ CancelarRestaurar(h)
          \/ Guion(h)
    \/ \E t \in Tokens : GuardiaDispara(t)
    \/ \E p \in Puertos : Bloquear(p)
    \/ CaerEnlace
    \/ Conectar
    \/ Morir

Spec == Init /\ [][Next]_vars

-----------------------------------------------------------------------------
(* Properties.                                                             *)

\* Every variable has its type.
TypeOK ==
    /\ entorno \in Entornos
    /\ bloqueados \in SUBSET Puertos
    /\ srv \in Servidor
    /\ perfil \in Puertos
    /\ cambio \in Cambio
    /\ tarea \in [Tareas -> [paso : Pasos, copia : Copia, cerrar : BOOLEAN,
                            cli : BOOLEAN, guion : Seq(Ordenes)]]
    /\ enlace \in BOOLEAN
    /\ averias \in 0..MaxAverias
    /\ viejas \in SUBSET Tokens
    /\ perdidas \in SUBSET Tokens
    /\ olvidadas \in SUBSET (Tokens \X Clases)
    /\ errores \in 0..MaxAverias

\* The handler has taken the server and not given it back.
ocupa(h) ==
    \/ tarea[h].paso \notin {"libre", "reservar", "guion"}
    \/ ordenes(h) \cap {"soltar", "borrar"} # {}

\* "Reservamos el servidor antes del I/O remoto": two requests never change
\* sshd, its firewall or its backups at once, whatever falls meanwhile.
CambioExclusivo == \A h, g \in Tareas : ocupa(h) /\ ocupa(g) => h = g

\* No timer has fired yet.
SinDisparos == \A t \in Tokens : srv.guardia[t] # "disparada"

\* The backup of t has the profile's port.
respalda(t) == srv.respaldo[t] # Ninguno /\ perfil \in srv.respaldo[t]

\* The timer of t is there to bring the profile's port back; or Probar answered
\* rollbackGuard = false, and only the user can.
recupera(t) == respalda(t) /\ srv.guardia[t] = "armada"
desatendida(t) == respalda(t) /\ srv.guardia[t] = "ninguna"

\* As long as nothing falls and no timer fires, and whichever commands fail, the
\* user can always connect through the profile's port, but while the stage of a
\* test that passed is there to be applied, tried again or cancelled; and the
\* backup that Cancelar restores has the profile's port.  (A test reserved after
\* another change, with the profile read before it, and one that lost the way
\* back unnoticed are hazards of their own.)
PerfilAlcanzable ==
    averias = 0 /\ SinDisparos /\ viejas = {} /\ perdidas = {} =>
        /\ alcanzable(perfil) \/ cambio.probado
        /\ cambio.probado /\ ~cambio.enCurso =>
              perfil \in srv.respaldo[cambio.token]

\* "Proteccion adicional ante cierre/crash de la app: en servidores con systemd":
\* whatever link falls and whenever the program dies, the profile's port
\* answers, or a timer of the server is about to bring it back.
PerfilRecuperable ==
    /\ SinDisparos /\ viejas = {} /\ perdidas = {}
    /\ \A t \in Tokens : ~desatendida(t)
    => alcanzable(perfil) \/ \E t \in Tokens : recupera(t)

\* Unless something falls, a temporary key only lives as long as its flow:
\* every ending of every handler removes it, but for a command that fails.
ClavesDeFlujo ==
    averias = 0 =>
        \A k \in srv.claves \ olvidadas :
            \/ cambio.token = k[1]
            \/ \E h \in Tareas : /\ tarea[h].paso # "libre"
                               /\ tarea[h].copia.token = k[1]

\* "Cambia el puerto SSH solo despues de verificar una segunda conexion real":
\* the profile moves to a port only if SSH answers there.
PerfilComprobado ==
    [][perfil' # perfil /\ SinDisparos => alcanzable(perfil)']_vars

\* What the comment over programarGuardPuertoSSH says of the timer: it restores
\* the previous port "si el flujo no llega a Aplicar o Cancelar".  So a timer
\* never takes the profile's port away.
CambioConfirmadoPermanece ==
    [][\A t \in Tokens :
          GuardiaDispara(t) /\ alcanzable(perfil) => alcanzable(perfil)']_vars

\* What Probar answers when the script fails: "no se aplico el cambio".  So
\* once every handler is done and no stage waits, the file of sshd is the one
\* it runs with.
ArchivoAplicado ==
    cambio = SinCambio /\ (\A h \in Tareas : tarea[h].paso = "libre")
        => srv.cfg = srv.activo

\* What Aplicar answers when the last connection or the profile fails: "se
\* restauro el puerto".  So as long as nothing falls, once every handler is done
\* and no stage waits, the profile's port answers.
PuertoRestaurado ==
    /\ averias = 0 /\ SinDisparos
    /\ cambio = SinCambio /\ \A h \in Tareas : tarea[h].paso = "libre"
    => alcanzable(perfil)
=============================================================================
