------------------------------ MODULE Servidor ------------------------------
(***************************************************************************)
(* One server under the three flows of the program that change what lets   *)
(* users in:                                                               *)
(*   - hardening sshd, or accepting passwords again (claves.go): no lock;  *)
(*   - opening and closing ports of its firewall (firewall.go), one change *)
(*     at a time (cambiosFirewall);                                        *)
(*   - the change of its SSH port (ssh_keys.go), one at a time as well, but *)
(*     under another lock: in the large here, PuertoSSH has its failures.  *)
(*                                                                         *)
(* Each of the first two saves what it is about to change, changes it,     *)
(* looks from outside whether the user still gets in, and goes back if not.*)
(* Every remote command, and every step of the script that hardens sshd,   *)
(* is an action.                                                           *)
(***************************************************************************)
EXTENDS Naturals, FiniteSets

CONSTANTS
    Puertos,    \* TCP ports of the server
    Endurecen,  \* concurrent handlers of the security of sshd
    Cortan,     \* concurrent handlers of the firewall
    Entornos,   \* servers considered
    Ninguno,    \* no port, no backup, nobody
    MaxAverias  \* bound on averias

Modos == {"previo", "segura", "clave", "vacio"}
Backends == {"ufw", "firewalld", "nftables"}

\* A block of the program decides the mode of sshd_config; "previo" is none,
\* "vacio" a file that was truncated.
Contenido == [modo : Modos, puertos : SUBSET Puertos]

ASSUME NingunoAssumption == Ninguno \notin Puertos \cup Cortan \cup Contenido
ASSUME HilosAssumption == Endurecen \cap Cortan = {}
ASSUME AveriasAssumption == MaxAverias \in Nat
ASSUME EntornosAssumption ==
    Entornos \subseteq [backend : Backends, llave : SUBSET Modos,
                        acepta : SUBSET Modos, root : BOOLEAN]

VARIABLES
    entorno,  \* the server: its firewall, the modes of sshd in which the key
              \* and the password get in, whether the user is root
    sshd,     \* sshd_config, what sshd runs with, the two backups
    fw,       \* ports the firewall lets in: now, and after a reload of it
    perfil,   \* port saved in the profile
    enlace,   \* whether the server is in the registry of connections
    tarea,    \* the handlers that harden sshd
    corte,    \* the handlers of the firewall
    candado,  \* who has cambiosFirewall
    cambio,   \* the change of port
    cruzados, \* history: handlers at work while another flow changed what they
              \* change, or went on with a change of port
    viejo,    \* history: one of those went back, or made its change permanent
    averias   \* history: falls of the link, and commands that failed on the
              \* way back or half-way

historia == <<cruzados, viejo>>
vars == <<entorno, sshd, fw, perfil, enlace, tarea, corte, candado, cambio,
          historia, averias>>

Quiere == {"segura", "clave"}
Reglas == [viva : SUBSET Puertos, fija : SUBSET Puertos]

TareaLibre == [paso |-> "libre", quiere |-> "segura", puerto |-> Ninguno,
               cli |-> FALSE, antes |-> Ninguno]
CorteLibre == [paso |-> "libre", abre |-> FALSE, puerto |-> Ninguno,
               cli |-> FALSE, respaldo |-> Ninguno]
SinCambio == [fase |-> "nada", nuevo |-> Ninguno, respaldo |-> Ninguno]

\* sshd listens on the port, and the firewall lets it in.
alcanzable(p) == p \in sshd.viva.puertos /\ p \in fw.viva

\* A new connection with the key of the profile, or with the password.
entraLlave(p) == alcanzable(p) /\ sshd.viva.modo \in entorno.llave
aceptaClave == sshd.viva.modo \in entorno.acepta

enObra == {h \in Endurecen : tarea[h].paso # "libre"}
\* A handler of the firewall with its backup made.
cortando == {q \in Cortan : corte[q].paso \notin {"libre", "respaldar"}}

-----------------------------------------------------------------------------
(* What the commands do.                                                   *)

escribir(s, quiere) == [s EXCEPT !.cfg.modo = quiere]
recargar(s) == [s EXCEPT !.viva = s.cfg]
\* "[ -f $BAK ] && cp -p $BAK $CFG"
restituir(s, quiere) ==
    IF s.bak[quiere] = Ninguno THEN s ELSE [s EXCEPT !.cfg = s.bak[quiere]]

poner(P, abre, p) == IF abre THEN P \cup {p} ELSE P \ {p}

\* The first command of a change: only ufw makes it permanent at once.
cambiar(f, abre, p) ==
    [viva |-> poner(f.viva, abre, p),
     fija |-> IF entorno.backend = "ufw" THEN poner(f.fija, abre, p) ELSE f.fija]

\* What crearBackupFirewall keeps: /etc/ufw, /etc/firewalld or the ruleset.
guardado(f) == IF entorno.backend = "firewalld" THEN f.fija ELSE f.viva

\* restaurarBackupFirewall.  "nft -f" adds the rules of its file to those in
\* force, and to nothing else.
restaurado(f, P) ==
    IF entorno.backend = "nftables" THEN [f EXCEPT !.viva = @ \cup P]
    ELSE [viva |-> P, fija |-> P]

-----------------------------------------------------------------------------
Init ==
    /\ entorno \in Entornos
    /\ \E p \in Puertos :
          /\ perfil = p
          /\ sshd = LET c == [modo |-> "previo", puertos |-> {p}]
                    IN  [cfg |-> c, viva |-> c, bak |-> [q \in Quiere |-> Ninguno]]
          /\ fw = [viva |-> {p}, fija |-> {p}]
    /\ enlace = TRUE
    /\ tarea = [h \in Endurecen |-> TareaLibre]
    /\ corte = [q \in Cortan |-> CorteLibre]
    /\ candado = Ninguno
    /\ cambio = SinCambio
    /\ cruzados = {}
    /\ viejo = FALSE
    /\ averias = 0

-----------------------------------------------------------------------------
(* Hardening: manejarAsegurarSSH and manejarPermitirPasswordSSH.           *)

resto == <<entorno, fw, perfil, enlace, corte, candado, cambio, viejo>>

\* h alone changes sshd: whoever else is at work has been crossed.
pasoSSH(h, p) ==
    /\ tarea' = [tarea EXCEPT ![h].paso = p]
    /\ cruzados' = cruzados \cup IF sshd' = sshd THEN {} ELSE enObra \ {h}
    /\ UNCHANGED resto

acabar(h) ==
    /\ tarea' = [tarea EXCEPT ![h] = TareaLibre]
    /\ cruzados' = (cruzados \ {h}) \cup IF sshd' = sshd THEN {} ELSE enObra \ {h}
    /\ UNCHANGED resto

\* The profile is read, and the key must work before anything is touched.
empezar(h, quiere) ==
    /\ tarea[h].paso = "libre"
    /\ entraLlave(perfil)
    /\ tarea' = [tarea EXCEPT ![h] =
          [paso |-> "respaldar", quiere |-> quiere, puerto |-> perfil,
           cli |-> TRUE, antes |-> [cfg |-> sshd.cfg, viva |-> sshd.viva]]]
    /\ cruzados' = IF enObra = {} THEN cruzados
                   ELSE cruzados \cup enObra \cup {h}
    /\ UNCHANGED <<resto, sshd, averias>>

Asegurar(h) == empezar(h, "segura")
Permitir(h) == empezar(h, "clave")

\* Mutant: a backup that exists is not made again.
RespaldarUnaVez(h) ==
    /\ tarea[h].paso = "respaldar"
    /\ \/ /\ tarea[h].cli
          /\ sshd' = IF sshd.bak[tarea[h].quiere] # Ninguno THEN sshd
                     ELSE [sshd EXCEPT !.bak[tarea[h].quiere] = sshd.cfg]
          /\ pasoSSH(h, "escribir")
       \/ UNCHANGED sshd /\ acabar(h)
    /\ UNCHANGED averias

\* The script of the change.  It runs on the server: once begun it goes on when
\* the link falls.  First, the backup; without one it stops.
Respaldar(h) ==
    /\ tarea[h].paso = "respaldar"
    /\ \/ /\ tarea[h].cli
          /\ sshd' = [sshd EXCEPT !.bak[tarea[h].quiere] = sshd.cfg]
          /\ pasoSSH(h, "escribir")
       \/ UNCHANGED sshd /\ acabar(h)
    /\ UNCHANGED averias

\* The blocks of before are taken away and the new one put first.
Escribir(h) ==
    /\ tarea[h].paso = "escribir"
    /\ \/ /\ sshd' = escribir(sshd, tarea[h].quiere)
          /\ pasoSSH(h, "comprobar")
       \/ UNCHANGED sshd /\ acabar(h)
    /\ UNCHANGED averias

\* The disk of the server is full: "cat > $CFG" truncates the file and fails,
\* and this exit of the script does not restore it.
EscribirTrunca(h) ==
    /\ tarea[h].paso = "escribir"
    /\ averias < MaxAverias
    /\ averias' = averias + 1
    /\ sshd' = [sshd EXCEPT !.cfg = [modo |-> "vacio", puertos |-> {}]]
    /\ acabar(h)

\* "sshd -T": the values the block asks for are those in force.
efectivo(quiere) == sshd.cfg.modo = quiere

\* "sshd -t" and "sshd -T"; the file of before comes back if either says no.
Comprobar(h) ==
    /\ tarea[h].paso = "comprobar"
    /\ \/ /\ efectivo(tarea[h].quiere)
          /\ UNCHANGED sshd
          /\ pasoSSH(h, "recargar")
       \/ sshd' = restituir(sshd, tarea[h].quiere) /\ acabar(h)
    /\ UNCHANGED averias

\* sshd reloads its file.  Without a link the handler has given up: nobody
\* tests what the script leaves.
Recargar(h) ==
    /\ tarea[h].paso = "recargar"
    /\ \/ /\ sshd' = recargar(sshd)
          /\ IF tarea[h].cli THEN pasoSSH(h, "llave") ELSE acabar(h)
       \/ sshd' = restituir(sshd, tarea[h].quiere) /\ acabar(h)
    /\ UNCHANGED averias

\* A new connection with the key; it may fail for reasons of the network.
ProbarLlave(h) ==
    /\ tarea[h].paso = "llave"
    /\ UNCHANGED <<sshd, averias>>
    /\ \/ entraLlave(tarea[h].puerto) /\ pasoSSH(h, "clave")
       \/ pasoSSH(h, "deshacer")

\* Hardened, sshd must refuse a new connection with the password; neither may
\* the network fail, nor the password be missing.
ProbarCerrada(h) ==
    /\ tarea[h].paso = "clave"
    /\ tarea[h].quiere = "segura"
    /\ UNCHANGED <<sshd, averias>>
    /\ \/ alcanzable(tarea[h].puerto) /\ ~aceptaClave /\ acabar(h)
       \/ pasoSSH(h, "deshacer")

\* Passwords are tried if there is one to try, and never root's.
ProbarAbierta(h) ==
    /\ tarea[h].paso = "clave"
    /\ tarea[h].quiere = "clave"
    /\ UNCHANGED <<sshd, averias>>
    /\ \/ acabar(h)
       \/ ~entorno.root /\ pasoSSH(h, "deshacer")

\* The way back, by the link the handler began with; its errors are ignored.
Deshacer(h) ==
    /\ tarea[h].paso = "deshacer"
    /\ sshd' = IF tarea[h].cli
               THEN recargar(restituir(sshd, tarea[h].quiere)) ELSE sshd
    /\ acabar(h)
    /\ UNCHANGED averias

\* sshd does not reload on the way back.
DeshacerFalla(h) ==
    /\ tarea[h].paso = "deshacer"
    /\ tarea[h].cli
    /\ averias < MaxAverias
    /\ averias' = averias + 1
    /\ sshd' = restituir(sshd, tarea[h].quiere)
    /\ acabar(h)

-----------------------------------------------------------------------------
(* The firewall: aplicarFirewall.                                          *)

restoFw == <<entorno, sshd, perfil, enlace, tarea, cambio>>

pasoFw(q, p) ==
    /\ corte' = [corte EXCEPT ![q].paso = p]
    /\ UNCHANGED <<candado, cruzados>>
soltar(q) ==
    /\ corte' = [corte EXCEPT ![q] = CorteLibre]
    /\ candado' = Ninguno
    /\ cruzados' = cruzados \ {q}

\* A change that was crossed is made good, or undone with its old backup.
envejecer(q) == viejo' = (viejo \/ q \in cruzados)

\* The mutex, the state of the firewall and the profile.  The port of the
\* profile is protected.
Tomar(q, abre, p) ==
    /\ corte[q].paso = "libre"
    /\ candado = Ninguno
    /\ enlace
    /\ abre \/ p # perfil
    /\ candado' = q
    /\ corte' = [corte EXCEPT ![q] = [CorteLibre EXCEPT
          !.paso = "respaldar", !.abre = abre, !.puerto = p, !.cli = TRUE]]
    /\ UNCHANGED <<entorno, sshd, fw, perfil, enlace, tarea, cambio, cruzados,
                   viejo, averias>>

\* crearBackupFirewall; without a backup nothing is changed.
RespaldarFw(q) ==
    /\ corte[q].paso = "respaldar"
    /\ \/ /\ corte[q].cli
          /\ corte' = [corte EXCEPT ![q].paso = "cambiar",
                                   ![q].respaldo = guardado(fw)]
          /\ UNCHANGED <<candado, cruzados>>
       \/ soltar(q)
    /\ UNCHANGED <<restoFw, fw, viejo, averias>>

\* The change.  nftables looks first for the rule to delete, which must be
\* one of the program, and firewalld that fails has changed nothing: those
\* answers come without a rollback.
Cambiar(q) ==
    LET c == corte[q]
        quita == entorno.backend = "nftables" /\ ~c.abre
    IN  /\ c.paso = "cambiar"
        /\ \/ /\ c.cli
              /\ quita => c.puerto \in fw.viva
              /\ fw' = cambiar(fw, c.abre, c.puerto)
              /\ pasoFw(q, "comprobar")
           \/ /\ quita \/ entorno.backend = "firewalld"
              /\ soltar(q)
              /\ UNCHANGED fw
           \/ /\ quita => c.puerto \in fw.viva
              /\ entorno.backend # "firewalld"
              /\ pasoFw(q, "deshacer")
              /\ UNCHANGED fw
        /\ UNCHANGED <<restoFw, viejo, averias>>

\* Mutant: nobody looks whether SSH still answers.
ComprobarSSHNunca(q) ==
    /\ corte[q].paso = "comprobar"
    /\ pasoFw(q, IF entorno.backend = "firewalld" THEN "permanente" ELSE "fin")
    /\ UNCHANGED <<restoFw, fw, viejo, averias>>

\* comprobarPuertoSSHDesdeLocal: SSH must answer on the port the profile has
\* now; the network may also fail.
ComprobarSSH(q) ==
    /\ corte[q].paso = "comprobar"
    /\ \/ /\ alcanzable(perfil)
          /\ pasoFw(q, IF entorno.backend = "firewalld" THEN "permanente"
                       ELSE "fin")
       \/ pasoFw(q, IF entorno.backend = "firewalld" THEN "inverso"
                    ELSE "deshacer")
    /\ UNCHANGED <<restoFw, fw, viejo, averias>>

\* firewalld: the change is made permanent.
Permanente(q) ==
    LET c == corte[q]
    IN  /\ c.paso = "permanente"
        /\ \/ /\ c.cli
              /\ fw' = [fw EXCEPT !.fija = poner(@, c.abre, c.puerto)]
              /\ pasoFw(q, "fin")
              /\ envejecer(q)
           \/ /\ pasoFw(q, "inverso")
              /\ UNCHANGED <<fw, viejo>>
        /\ UNCHANGED <<restoFw, averias>>

\* firewalld: the contrary command, whose errors are ignored.
Inverso(q) ==
    LET c == corte[q]
    IN  /\ c.paso = "inverso"
        /\ fw' = IF c.cli THEN [fw EXCEPT !.viva = poner(@, ~c.abre, c.puerto)]
                 ELSE fw
        /\ pasoFw(q, "deshacer")
        /\ UNCHANGED <<restoFw, viejo, averias>>

\* Mutant: firewalld is not reloaded.
DeshacerFwSinRecargar(q) ==
    LET c == corte[q]
    IN  /\ c.paso = "deshacer"
        /\ IF c.cli
           THEN /\ fw' = [fw EXCEPT !.fija = c.respaldo]
                /\ envejecer(q)
           ELSE UNCHANGED <<fw, viejo>>
        /\ soltar(q)
        /\ UNCHANGED <<restoFw, averias>>

\* The rollback, and the answer.
DeshacerFw(q) ==
    LET c == corte[q]
    IN  /\ c.paso = "deshacer"
        /\ IF c.cli
           THEN /\ fw' = restaurado(fw, c.respaldo)
                /\ envejecer(q)
           ELSE UNCHANGED <<fw, viejo>>
        /\ soltar(q)
        /\ UNCHANGED <<restoFw, averias>>

\* "además falló el rollback automático".
DeshacerFwFalla(q) ==
    /\ corte[q].paso = "deshacer"
    /\ averias < MaxAverias
    /\ averias' = averias + 1
    /\ soltar(q)
    /\ UNCHANGED <<restoFw, fw, viejo>>

\* The state of the firewall is read again for the answer.
Responder(q) ==
    /\ corte[q].paso = "fin"
    /\ soltar(q)
    /\ UNCHANGED <<restoFw, fw, viejo, averias>>

-----------------------------------------------------------------------------
(* The change of port.                                                     *)

restoCambio == <<entorno, perfil, enlace, tarea, corte, candado, viejo, averias>>
fase(f) == cambio' = [cambio EXCEPT !.fase = f]
cruzar ==
    cruzados' = cruzados \cup cortando \cup IF sshd' = sshd THEN {} ELSE enObra

\* With rules of nftables of its own the server refuses the change.  The
\* firewall is opened first, at once and for good.
ProbarAbrir(p) ==
    /\ cambio = SinCambio
    /\ enlace
    /\ p # perfil
    /\ p \notin sshd.viva.puertos
    /\ entorno.backend # "nftables"
    /\ fw' = [viva |-> fw.viva \cup {p}, fija |-> fw.fija \cup {p}]
    /\ cambio' = [SinCambio EXCEPT !.fase = "abierto", !.nuevo = p]
    /\ UNCHANGED <<restoCambio, sshd>>
    /\ cruzar

\* Mutant: the file is not saved before it is changed.
ProbarConfigSinRespaldo ==
    /\ cambio.fase = "abierto"
    /\ sshd' = recargar([sshd EXCEPT !.cfg.puertos = {perfil, cambio.nuevo}])
    /\ fase("doble")
    /\ UNCHANGED <<restoCambio, fw>>
    /\ cruzar

\* sshd is made to listen on both ports.
ProbarConfig ==
    /\ cambio.fase = "abierto"
    /\ sshd' = recargar([sshd EXCEPT !.cfg.puertos = {perfil, cambio.nuevo}])
    /\ cambio' = [cambio EXCEPT !.fase = "doble", !.respaldo = sshd.cfg]
    /\ UNCHANGED <<restoCambio, fw>>
    /\ cruzar

\* The second connection, through the new port.
ProbarConexion ==
    /\ cambio.fase = "doble"
    /\ \/ alcanzable(cambio.nuevo) /\ fase("probado")
       \/ fase("restaurar")
    /\ UNCHANGED <<restoCambio, sshd, fw>>
    /\ cruzar

\* Aplicar: sshd is left with the new port only.
AplicarConfig ==
    /\ cambio.fase = "probado"
    /\ enlace
    /\ sshd' = recargar([sshd EXCEPT !.cfg.puertos = {cambio.nuevo}])
    /\ fase("final")
    /\ UNCHANGED <<restoCambio, fw>>
    /\ cruzar

\* The final connection and, at once, the profile: it moves to the new port,
\* and the old one is closed at will.
AplicarFinal ==
    /\ cambio.fase = "final"
    /\ \/ /\ alcanzable(cambio.nuevo)
          /\ perfil' = cambio.nuevo
          /\ \/ cambio' = [SinCambio EXCEPT !.fase = "limpiar", !.nuevo = perfil]
             \/ cambio' = SinCambio
       \/ fase("restaurar") /\ UNCHANGED perfil
    /\ UNCHANGED <<entorno, sshd, fw, enlace, tarea, corte, candado, viejo,
                   averias>>
    /\ cruzar

Cancelar ==
    /\ cambio.fase = "probado"
    /\ enlace
    /\ fase("restaurar")
    /\ UNCHANGED <<restoCambio, sshd, fw>>
    /\ cruzar

\* restaurarPuertoOriginal: the whole file of before the test comes back.
Restaurar ==
    /\ cambio.fase = "restaurar"
    /\ sshd' = recargar([sshd EXCEPT !.cfg = cambio.respaldo])
    /\ fase("limpiar")
    /\ UNCHANGED <<restoCambio, fw>>
    /\ cruzar

\* rollbackFirewallPuerto, or the closing of the port of before.
Limpiar ==
    /\ cambio.fase = "limpiar"
    /\ fw' = [viva |-> fw.viva \ {cambio.nuevo}, fija |-> fw.fija \ {cambio.nuevo}]
    /\ cambio' = SinCambio
    /\ UNCHANGED <<restoCambio, sshd>>
    /\ cruzar

-----------------------------------------------------------------------------
(* The environment.                                                        *)

\* The link falls, and with it the clients of the handlers.
CaerEnlace ==
    /\ enlace
    /\ averias < MaxAverias
    /\ enlace' = FALSE
    /\ averias' = averias + 1
    /\ tarea' = [h \in Endurecen |-> [tarea[h] EXCEPT !.cli = FALSE]]
    /\ corte' = [q \in Cortan |-> [corte[q] EXCEPT !.cli = FALSE]]
    /\ UNCHANGED <<entorno, sshd, fw, perfil, candado, cambio, historia>>

Conectar ==
    /\ ~enlace
    /\ alcanzable(perfil)
    /\ enlace' = TRUE
    /\ UNCHANGED <<entorno, sshd, fw, perfil, tarea, corte, candado, cambio,
                   historia, averias>>

Next ==
    \/ \E h \in Endurecen :
          \/ Asegurar(h)
          \/ Permitir(h)
          \/ Respaldar(h)
          \/ Escribir(h)
          \/ EscribirTrunca(h)
          \/ Comprobar(h)
          \/ Recargar(h)
          \/ ProbarLlave(h)
          \/ ProbarCerrada(h)
          \/ ProbarAbierta(h)
          \/ Deshacer(h)
          \/ DeshacerFalla(h)
    \/ \E q \in Cortan :
          \/ \E abre \in BOOLEAN, p \in Puertos : Tomar(q, abre, p)
          \/ RespaldarFw(q)
          \/ Cambiar(q)
          \/ ComprobarSSH(q)
          \/ Permanente(q)
          \/ Inverso(q)
          \/ DeshacerFw(q)
          \/ DeshacerFwFalla(q)
          \/ Responder(q)
    \/ \E p \in Puertos : ProbarAbrir(p)
    \/ ProbarConfig
    \/ ProbarConexion
    \/ AplicarConfig
    \/ AplicarFinal
    \/ Cancelar
    \/ Restaurar
    \/ Limpiar
    \/ CaerEnlace
    \/ Conectar

Spec == Init /\ [][Next]_vars

-----------------------------------------------------------------------------
(* Properties.                                                             *)

PasosSSH == {"libre", "respaldar", "escribir", "comprobar", "recargar",
             "llave", "clave", "deshacer"}
PasosFw == {"libre", "respaldar", "cambiar", "comprobar", "permanente",
            "inverso", "deshacer", "fin"}
Fases == {"nada", "abierto", "doble", "probado", "final",
          "restaurar", "limpiar"}

\* Every variable has its type.
TypeOK ==
    /\ entorno \in Entornos
    /\ sshd \in [cfg : Contenido, viva : Contenido,
                 bak : [Quiere -> Contenido \cup {Ninguno}]]
    /\ fw \in Reglas
    /\ perfil \in Puertos
    /\ enlace \in BOOLEAN
    /\ tarea \in [Endurecen ->
          [paso : PasosSSH, quiere : Quiere, puerto : Puertos \cup {Ninguno},
           cli : BOOLEAN,
           antes : [cfg : Contenido, viva : Contenido] \cup {Ninguno}]]
    /\ corte \in [Cortan ->
          [paso : PasosFw, abre : BOOLEAN, puerto : Puertos \cup {Ninguno},
           cli : BOOLEAN, respaldo : (SUBSET Puertos) \cup {Ninguno}]]
    /\ candado \in Cortan \cup {Ninguno}
    /\ cambio \in [fase : Fases, nuevo : Puertos \cup {Ninguno},
                   respaldo : Contenido \cup {Ninguno}]
    /\ cruzados \in SUBSET (Endurecen \cup Cortan)
    /\ viejo \in BOOLEAN
    /\ averias \in 0 .. MaxAverias

\* "Firewall seguro: protege el puerto SSH": whatever ports the user closes
\* while the SSH port is being changed, once no change of the firewall is at
\* work the profile's port is open, now and after a reload.  (A change begun
\* before a change of port and undone after it, or made permanent after it, is
\* a hazard of its own.)
PuertoProtegido ==
    candado = Ninguno /\ ~viejo /\ averias = 0 =>
        perfil \in fw.viva \cap fw.fija

\* What the server looks like when a handler of hardening ends: as before, or
\* with the file, and sshd, in the mode it wanted, the key getting in and, when
\* it hardened, the password not.
sshdEntero(t) ==
    LET a == t.antes
    IN  \/ sshd'.cfg = a.cfg /\ sshd'.viva = a.viva
        \/ /\ sshd'.cfg = [a.cfg EXCEPT !.modo = t.quiere]
           /\ sshd'.viva = sshd'.cfg
           /\ t.quiere \in entorno.llave
           /\ t.quiere = "segura" => "segura" \notin entorno.acepta

fwEntero(c) ==
    \/ fw' = [viva |-> c.respaldo, fija |-> c.respaldo]
    \/ LET P == poner(c.respaldo, c.abre, c.puerto)
       IN  fw' = [viva |-> P, fija |-> P]

HiloEntero(h) ==
    /\ tarea[h].paso # "libre" /\ tarea'[h].paso = "libre"
    /\ tarea[h].antes.cfg = tarea[h].antes.viva
    /\ h \notin cruzados /\ averias' = 0
    => sshdEntero(tarea[h])

CorteEntero(q) ==
    /\ corte[q].paso \notin {"libre", "respaldar"} /\ corte'[q].paso = "libre"
    /\ q \notin cruzados /\ ~viejo' /\ averias' = 0
    /\ entorno.backend # "nftables"
    => fwEntero(corte[q])

\* "valida la configuracion y conserva rollback antes de confirmar el cambio":
\* a change that nothing crosses is made whole and tested, or not at all, of
\* sshd and of the firewall, if the link holds and the way back works.  The
\* rules of nftables are another matter: see RestauraSiempre.
TodoONada ==
    [][(\A h \in Endurecen : HiloEntero(h)) /\ (\A q \in Cortan : CorteEntero(q))]_vars

\* What aplicarFirewall answers, "Gateway restauró el firewall desde": the
\* rollback leaves the rules of the backup, whatever the firewall is.
RestauraSiempre ==
    [][\A q \in Cortan :
          DeshacerFw(q) /\ corte[q].cli => guardado(fw)' = corte[q].respaldo]_vars
=============================================================================
