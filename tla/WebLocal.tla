------------------------------ MODULE WebLocal ------------------------------
(***************************************************************************)
(* The web server for the LAN (conectar-gateway/web_local.go): starting    *)
(* and stopping it, its code, and the logins of browsers with that code.   *)
(*                                                                         *)
(* Each critical section of webLocalManager.mu is one step.  Outside it    *)
(* run the goroutine of each http.Server, the end of a Stop, and a login   *)
(* between the moment it copies the code and the moment it stores its      *)
(* answer.  A code is random, never one that was used before, so what      *)
(* matters of a copy is whether the code has changed since (alDia).        *)
(***************************************************************************)
EXTENDS Naturals, FiniteSets

CONSTANTS
    Servidores,  \* http.Server objects, reused once nothing refers to them
    Puertos,     \* TCP ports
    Paradas,     \* handlers of /api/web-local/detener, and the end of the program
    Peticiones,  \* requests to /api/web/login
    Ips,         \* addresses of browsers
    Sesiones,    \* session tokens
    MaxFailed,   \* webLocalMaxFailed
    Nadie        \* nil

ASSUME MaxFailedAssumption == MaxFailed \in Nat \ {0}
ASSUME NadieAssumption == Nadie \notin Servidores \cup Puertos \cup Ips
ASSUME PeticionesAssumption == IsFiniteSet(Peticiones)

VARIABLES
    server,    \* m.server; m.code, m.listener and m.started go with it
    port,      \* m.port, which outlives the server
    sessions,  \* m.sessions
    attempts,  \* m.attempts; an address without an entry has a zero one
    listener,  \* the port each server's listener holds, Nadie once closed
    serve,     \* the goroutine of each server
    parada,    \* the server each Stop has in hand
    login,     \* the logins
    fallos     \* history: wrong codes of each address since its last block,
               \* its last right code or the last change of code

gestor == <<server, port, sessions, attempts>>
vars == <<gestor, listener, serve, parada, login, fallos>>

\* alDia: opened with the code in force; nacida: it was so when it was stored.
SinSesion == [viva |-> FALSE, nacida |-> FALSE, alDia |-> FALSE]
Sesion == [viva : BOOLEAN, nacida : BOOLEAN, alDia : BOOLEAN]
SinIntento == [failed |-> 0, locked |-> FALSE]
Intento == [failed : 0 .. MaxFailed - 1, locked : BOOLEAN]
SinLogin == [ip |-> Nadie, alDia |-> FALSE]
Login == [ip : Ips \cup {Nadie}, alDia : BOOLEAN]

SinSesiones == [t \in Sesiones |-> SinSesion]
SinIntentos == [i \in Ips |-> SinIntento]
\* The copies of the code that logins hold are of an old code from now on.
copiasViejas == [q \in Peticiones |-> [login[q] EXCEPT !.alDia = FALSE]]

Abierto(s) == listener[s] # Nadie
EnMano(s) == \E k \in Paradas : parada[k] = s
\* Logins of an address that copied the code and have not stored their answer.
enCurso(i) == {q \in Peticiones : login[q].ip = i}

Init ==
    /\ server = Nadie
    /\ port = Nadie
    /\ sessions = SinSesiones
    /\ attempts = SinIntentos
    /\ listener = [s \in Servidores |-> Nadie]
    /\ serve = [s \in Servidores |-> "libre"]
    /\ parada = [k \in Paradas |-> Nadie]
    /\ login = [q \in Peticiones |-> SinLogin]
    /\ fallos = [i \in Ips |-> 0]

-----------------------------------------------------------------------------
(* Starting.                                                               *)

\* net.Listen fails on a port that another listener of the program still has.
Start(s, p) ==
    /\ server = Nadie
    /\ serve[s] = "libre" /\ ~Abierto(s) /\ ~EnMano(s)
    /\ \A x \in Servidores : listener[x] # p
    /\ server' = s
    /\ port' = p
    /\ sessions' = SinSesiones
    /\ attempts' = SinIntentos
    /\ listener' = [listener EXCEPT ![s] = p]
    /\ serve' = [serve EXCEPT ![s] = "lanzada"]
    /\ login' = copiasViejas
    /\ fallos' = [i \in Ips |-> 0]
    /\ UNCHANGED parada

\* The goroutine gets to srv.Serve: it returns at once if a Stop came first.
Servir(s) ==
    /\ serve[s] = "lanzada"
    /\ serve' = [serve EXCEPT ![s] = IF Abierto(s) THEN "sirve" ELSE "vuelve"]
    /\ UNCHANGED <<gestor, listener, parada, login, fallos>>

\* Accept fails: Serve closes the listener and returns.
Fallar(s) ==
    /\ serve[s] = "sirve"
    /\ listener' = [listener EXCEPT ![s] = Nadie]
    /\ serve' = [serve EXCEPT ![s] = "vuelve"]
    /\ UNCHANGED <<gestor, parada, login, fallos>>

\* Mutant: the goroutine of an old server clears the state of the new one.
VolverSinMirar(s) ==
    /\ serve[s] = "vuelve"
    /\ serve' = [serve EXCEPT ![s] = "libre"]
    /\ server' = Nadie
    /\ sessions' = SinSesiones
    /\ attempts' = SinIntentos
    /\ login' = copiasViejas
    /\ fallos' = [i \in Ips |-> 0]
    /\ UNCHANGED <<port, listener, parada>>

\* Mutant: the goroutine leaves the state to Stop.
VolverSinLimpiar(s) ==
    /\ serve[s] = "vuelve"
    /\ serve' = [serve EXCEPT ![s] = "libre"]
    /\ UNCHANGED <<gestor, listener, parada, login, fallos>>

\* Serve returned: the state is cleared if it still is that of this server.
Volver(s) ==
    /\ serve[s] = "vuelve"
    /\ serve' = [serve EXCEPT ![s] = "libre"]
    /\ IF server = s
       THEN /\ server' = Nadie
            /\ sessions' = SinSesiones
            /\ attempts' = SinIntentos
            /\ login' = copiasViejas
            /\ fallos' = [i \in Ips |-> 0]
       ELSE UNCHANGED <<server, sessions, attempts, login, fallos>>
    /\ UNCHANGED <<port, listener, parada>>

-----------------------------------------------------------------------------
(* Stopping and changing the code.                                         *)

\* The state is cleared at once; the server is closed later, with mu released.
Stop(k) ==
    /\ parada[k] = Nadie
    /\ server # Nadie
    /\ parada' = [parada EXCEPT ![k] = server]
    /\ server' = Nadie
    /\ sessions' = SinSesiones
    /\ attempts' = SinIntentos
    /\ login' = copiasViejas
    /\ fallos' = [i \in Ips |-> 0]
    /\ UNCHANGED <<port, listener, serve>>

\* Shutdown and Close, with mu released.
Cerrar(k) ==
    /\ parada[k] # Nadie
    /\ listener' = [listener EXCEPT ![parada[k]] = Nadie]
    /\ serve' = [serve EXCEPT ![parada[k]] = IF @ = "sirve" THEN "vuelve" ELSE @]
    /\ parada' = [parada EXCEPT ![k] = Nadie]
    /\ UNCHANGED <<gestor, login, fallos>>

\* Mutant: the sessions of the old code go on.
RegenerateCodeSinCerrar ==
    /\ server # Nadie
    /\ sessions' = [t \in Sesiones |-> [sessions[t] EXCEPT !.alDia = FALSE]]
    /\ attempts' = SinIntentos
    /\ login' = copiasViejas
    /\ fallos' = [i \in Ips |-> 0]
    /\ UNCHANGED <<server, port, listener, serve, parada>>

RegenerateCode ==
    /\ server # Nadie
    /\ sessions' = SinSesiones
    /\ attempts' = SinIntentos
    /\ login' = copiasViejas
    /\ fallos' = [i \in Ips |-> 0]
    /\ UNCHANGED <<server, port, listener, serve, parada>>

-----------------------------------------------------------------------------
(* The browsers.                                                           *)

\* Mutant: an address that is blocked may try.
LoginSinBloqueo(q, i) ==
    /\ login[q] = SinLogin
    /\ \E s \in Servidores : serve[s] = "sirve"
    /\ server # Nadie
    /\ login' = [login EXCEPT ![q] = [ip |-> i, alDia |-> TRUE]]
    /\ UNCHANGED <<gestor, listener, serve, parada, fallos>>

\* A server that is being stopped still answers the requests it accepted.
LoginLeer(q, i) ==
    /\ login[q] = SinLogin
    /\ \E s \in Servidores : serve[s] = "sirve"
    /\ ~attempts[i].locked
    /\ server # Nadie
    /\ login' = [login EXCEPT ![q] = [ip |-> i, alDia |-> TRUE]]
    /\ UNCHANGED <<gestor, listener, serve, parada, fallos>>

\* Mutant: one wrong code too many before the block.
contadoUnoMas(a) ==
    IF a.failed + 1 > MaxFailed THEN [failed |-> 0, locked |-> TRUE]
                                ELSE [a EXCEPT !.failed = @ + 1]

\* One more wrong code; the last one allowed blocks the address.
contado(a) ==
    IF a.failed + 1 >= MaxFailed THEN [failed |-> 0, locked |-> TRUE]
                                 ELSE [a EXCEPT !.failed = @ + 1]

LoginMal(q) ==
    LET i == login[q].ip IN
    /\ login[q] # SinLogin
    /\ attempts' = [attempts EXCEPT ![i] = contado(@)]
    /\ fallos' = [fallos EXCEPT ![i] = @ + 1]
    /\ login' = [login EXCEPT ![q] = SinLogin]
    /\ UNCHANGED <<server, port, sessions, listener, serve, parada>>

\* The right code, that is, the one that was copied.
LoginBien(q, t) ==
    LET i == login[q].ip IN
    /\ login[q] # SinLogin
    /\ ~sessions[t].viva
    /\ sessions' = [sessions EXCEPT ![t] = [viva |-> TRUE,
                       nacida |-> login[q].alDia, alDia |-> login[q].alDia]]
    /\ attempts' = [attempts EXCEPT ![i] = SinIntento]
    /\ fallos' = [fallos EXCEPT ![i] = 0]
    /\ login' = [login EXCEPT ![q] = SinLogin]
    /\ UNCHANGED <<server, port, listener, serve, parada>>

\* The body cannot be read, or no token could be made.
LoginAbandonar(q) ==
    /\ login[q] # SinLogin
    /\ login' = [login EXCEPT ![q] = SinLogin]
    /\ UNCHANGED <<gestor, listener, serve, parada, fallos>>

\* A logout, or a session that expired: every critical section that looks at
\* the sessions removes the expired ones first.
Olvidar(t) ==
    /\ sessions[t].viva
    /\ sessions' = [sessions EXCEPT ![t] = SinSesion]
    /\ UNCHANGED <<server, port, attempts, listener, serve, parada, login, fallos>>

\* The minute of a block is over.
Desbloquear(i) ==
    /\ attempts[i].locked
    /\ attempts' = [attempts EXCEPT ![i].locked = FALSE]
    /\ fallos' = [fallos EXCEPT ![i] = 0]
    /\ UNCHANGED <<server, port, sessions, listener, serve, parada, login>>

-----------------------------------------------------------------------------
Usuario ==
    \/ \E s \in Servidores, p \in Puertos : Start(s, p)
    \/ \E k \in Paradas : Stop(k)
    \/ RegenerateCode

Programa ==
    \/ \E s \in Servidores : Servir(s) \/ Volver(s)
    \/ \E k \in Paradas : Cerrar(k)

Navegadores ==
    \/ \E q \in Peticiones, i \in Ips : LoginLeer(q, i)
    \/ \E q \in Peticiones : LoginMal(q) \/ LoginAbandonar(q)
    \/ \E q \in Peticiones, t \in Sesiones : LoginBien(q, t)
    \/ \E t \in Sesiones : Olvidar(t)

Entorno ==
    \/ \E s \in Servidores : Fallar(s)
    \/ \E i \in Ips : Desbloquear(i)

Next == Usuario \/ Programa \/ Navegadores \/ Entorno

Spec == Init /\ [][Next]_vars

\* Go runs its goroutines, and Shutdown returns within three seconds.
Fairness ==
    /\ \A s \in Servidores : WF_vars(Servir(s)) /\ WF_vars(Volver(s))
    /\ \A k \in Paradas : WF_vars(Cerrar(k))

LiveSpec == Spec /\ Fairness

-----------------------------------------------------------------------------
\* Types; the count of wrong codes never reaches the limit without a block.
TypeOK ==
    /\ server \in Servidores \cup {Nadie}
    /\ port \in Puertos \cup {Nadie}
    /\ sessions \in [Sesiones -> Sesion]
    /\ attempts \in [Ips -> Intento]
    /\ listener \in [Servidores -> Puertos \cup {Nadie}]
    /\ serve \in [Servidores -> {"libre", "lanzada", "sirve", "vuelve"}]
    /\ parada \in [Paradas -> Servidores \cup {Nadie}]
    /\ login \in [Peticiones -> Login]
    /\ fallos \in [Ips -> Nat]

\* Stop, Start, the change of code and the end of the goroutine all close the
\* sessions that the old code had opened, whatever the order they come in.  A
\* login that had copied the old code and opens its session afterwards is not
\* covered (nacida): its session goes on until it expires.
SesionesDelCodigo ==
    \A t \in Sesiones :
        sessions[t].viva /\ sessions[t].nacida
            => sessions[t].alDia /\ server # Nadie

\* Wrong codes are counted although the count is read in one critical section
\* and raised in another: an address never gets more of them compared than
\* webLocalMaxFailed and one for each login that was under way.
FallosAcotados ==
    \A i \in Ips :
        fallos[i] + Cardinality(enCurso(i)) < MaxFailed + Cardinality(Peticiones)

\* A listener that is open belongs to the server in force or to one that a
\* Stop is about to close; and the program never calls itself active without
\* a listener, but for the instant between an error and the end of its
\* goroutine.
EscuchaConDueno ==
    \A s \in Servidores :
        /\ Abierto(s) => server = s \/ EnMano(s)
        /\ server = s => Abierto(s) \/ serve[s] = "vuelve"

\* Whatever Start, Stop and the goroutines do to each other, the state that
\* the interface shows ends by agreeing with the port that is open.
EstadoReal ==
    \A s \in Servidores :
        (server = s) # Abierto(s) ~> (server = s) = Abierto(s)
=============================================================================
