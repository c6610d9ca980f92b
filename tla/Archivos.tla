------------------------------ MODULE Archivos ------------------------------
(***************************************************************************)
(* The file manager: the lazy SFTP channel of a connection, the two locks  *)
(* it involves, and the text editor that saves over it                     *)
(* (conectar-gateway/archivos.go, detenerConexionLocked of main.go).       *)
(*                                                                         *)
(* Unlike Conexiones, where each critical section of mu is one step, here  *)
(* mu and the sftpMu of each connection are variables: one is taken inside *)
(* the other, and a remote answer is awaited inside both.  The registry is *)
(* that of one server.                                                     *)
(*                                                                         *)
(* The names that Actualizador has too begin with Archivos here, so that   *)
(* ReemplazosProofs can extend both.                                       *)
(***************************************************************************)
EXTENDS Naturals, FiniteSets

CONSTANTS
    Con,       \* identities of Conexion objects
    Gestores,  \* windows of the file manager, one request at a time each
    Cierres,   \* handlers of /api/desconectar, and the watcher
    Otras,     \* handlers of the rest of the API, which take mu for a moment
    Textos,    \* contents of the document
    Nadie      \* no connection, no content, a free lock

ASSUME NadieAssumption ==
    Nadie \notin Con \cup Gestores \cup Cierres \cup Otras \cup Textos

VARIABLES
    mu,         \* holder of the global lock
    sftpMu,     \* holder of the lock of each connection
    registrada, \* the connection in the registry
    cliente,    \* SSH client of each connection
    canal,      \* sftp field of each connection
    gestor,     \* requests of the file manager
    hilo,       \* the other handlers
    documento,  \* the remote document
    temporales  \* temporary files on the server: of whom, over which connection

locks == <<mu, sftpMu>>
remoto == <<documento, temporales>>
archivosVars == <<locks, registrada, cliente, canal, gestor, hilo, remoto>>

Hilos == Cierres \cup Otras
Pasos == {"libre", "mu", "sftpMu", "abriendo", "usa", "escribe"}

\* con is the connection the request found; revision what the window read;
\* nuevo what it saves; ajeno whether the document changed after the check.
GestorLibre == [paso |-> "libre", con |-> Nadie, revision |-> Nadie,
                nuevo |-> Nadie, ajeno |-> FALSE]
Gestor == [paso : Pasos, con : Con \cup {Nadie}, revision : Textos \cup {Nadie},
           nuevo : Textos \cup {Nadie}, ajeno : BOOLEAN]

\* The end of a request; what the window has read outlives it.
terminado(g) == [g EXCEPT !.paso = "libre", !.con = Nadie, !.nuevo = Nadie,
                          !.ajeno = FALSE]
responder(s) == gestor' = [gestor EXCEPT ![s] = terminado(@)]
pasar(s, p) == gestor' = [gestor EXCEPT ![s].paso = p]

ArchivosInit ==
    /\ mu = Nadie
    /\ sftpMu = [c \in Con |-> Nadie]
    /\ registrada = Nadie
    /\ cliente = [c \in Con |-> "nulo"]
    /\ canal = [c \in Con |-> "nulo"]
    /\ gestor = [s \in Gestores |-> GestorLibre]
    /\ hilo = [e \in Hilos |-> [paso |-> "libre", con |-> Nadie]]
    /\ documento \in Textos
    /\ temporales = {}

-----------------------------------------------------------------------------
(* The connection, as far as the file manager sees it.                     *)

Conectar(c) ==
    /\ mu = Nadie
    /\ registrada = Nadie
    /\ cliente[c] = "nulo"
    /\ registrada' = c
    /\ cliente' = [cliente EXCEPT ![c] = "vivo"]
    /\ UNCHANGED <<locks, canal, gestor, hilo, remoto>>

\* A handler of the API waits for mu.
Llamar(e) ==
    /\ hilo[e].paso = "libre"
    /\ hilo' = [hilo EXCEPT ![e].paso = "mu"]
    /\ UNCHANGED <<locks, registrada, cliente, canal, gestor, remoto>>

\* Any other handler: takes mu, answers and releases it.
Atender(e) ==
    /\ e \in Otras
    /\ hilo[e].paso = "mu"
    /\ mu = Nadie
    /\ hilo' = [hilo EXCEPT ![e].paso = "libre"]
    /\ UNCHANGED <<locks, registrada, cliente, canal, gestor, remoto>>

\* Mutant: mu is not released when there is nothing to close.
CerrarEmpezarSinSoltar(d) ==
    /\ d \in Cierres
    /\ hilo[d].paso = "mu"
    /\ mu = Nadie
    /\ mu' = d
    /\ hilo' = [hilo EXCEPT ![d] = IF registrada = Nadie
                                  THEN [paso |-> "libre", con |-> Nadie]
                                  ELSE [paso |-> "sftpMu", con |-> registrada]]
    /\ UNCHANGED <<sftpMu, registrada, cliente, canal, gestor, remoto>>

\* detenerConexionLocked, under mu: first the sftpMu of the connection ...
CerrarEmpezar(d) ==
    /\ d \in Cierres
    /\ hilo[d].paso = "mu"
    /\ mu = Nadie
    /\ IF registrada = Nadie
       THEN /\ hilo' = [hilo EXCEPT ![d].paso = "libre"]
            /\ UNCHANGED mu
       ELSE /\ hilo' = [hilo EXCEPT ![d] = [paso |-> "sftpMu", con |-> registrada]]
            /\ mu' = d
    /\ UNCHANGED <<sftpMu, registrada, cliente, canal, gestor, remoto>>

\* ... to close the channel, if there is one ...
CerrarCanal(d) ==
    /\ hilo[d].paso = "sftpMu"
    /\ sftpMu[hilo[d].con] = Nadie
    /\ canal' = [canal EXCEPT ![hilo[d].con] = "nulo"]
    /\ hilo' = [hilo EXCEPT ![d].paso = "usa"]
    /\ UNCHANGED <<locks, registrada, cliente, gestor, remoto>>

\* ... and only then the client; mu is released with the registry updated.
CerrarCliente(d) ==
    /\ hilo[d].paso = "usa"
    /\ cliente' = [cliente EXCEPT ![hilo[d].con] = "cerrado"]
    /\ registrada' = Nadie
    /\ mu' = Nadie
    /\ hilo' = [hilo EXCEPT ![d] = [paso |-> "libre", con |-> Nadie]]
    /\ UNCHANGED <<sftpMu, canal, gestor, remoto>>

-----------------------------------------------------------------------------
(* clienteSFTP.                                                            *)

\* A request: to save a text, or (Nadie) to open the document.
Pedir(s, x) ==
    /\ gestor[s].paso = "libre"
    /\ x = Nadie \/ gestor[s].revision # Nadie
    /\ gestor' = [gestor EXCEPT ![s].paso = "mu", ![s].nuevo = x]
    /\ UNCHANGED <<locks, registrada, cliente, canal, hilo, remoto>>

\* Mutant: mu is kept while the channel is taken.
BuscarSinSoltar(s) ==
    /\ gestor[s].paso = "mu"
    /\ mu = Nadie
    /\ IF registrada = Nadie
       THEN responder(s) /\ UNCHANGED mu
       ELSE /\ gestor' = [gestor EXCEPT ![s].paso = "sftpMu", ![s].con = registrada]
            /\ mu' = s
    /\ UNCHANGED <<sftpMu, registrada, cliente, canal, hilo, remoto>>

\* mu is only held to read the registry.
Buscar(s) ==
    /\ gestor[s].paso = "mu"
    /\ mu = Nadie
    /\ IF registrada = Nadie
       THEN responder(s)
       ELSE gestor' = [gestor EXCEPT ![s].paso = "sftpMu", ![s].con = registrada]
    /\ UNCHANGED <<locks, registrada, cliente, canal, hilo, remoto>>

\* Mutant: the channel is looked at before its lock is taken.
TomarCanalSinMutex(s) ==
    LET c == gestor[s].con
    IN  /\ gestor[s].paso = "sftpMu"
        /\ pasar(s, IF canal[c] = "abierto" THEN "usa" ELSE "abriendo")
        /\ UNCHANGED <<locks, registrada, cliente, canal, hilo, remoto>>

\* With sftpMu: an open channel is reused; else one is opened, and the lock
\* kept while the server answers.
TomarCanal(s) ==
    LET c == gestor[s].con
    IN  /\ gestor[s].paso = "sftpMu"
        /\ sftpMu[c] = Nadie
        /\ IF canal[c] = "abierto"
           THEN /\ pasar(s, "usa")
                /\ UNCHANGED sftpMu
           ELSE /\ pasar(s, "abriendo")
                /\ sftpMu' = [sftpMu EXCEPT ![c] = s]
        /\ UNCHANGED <<mu, registrada, cliente, canal, hilo, remoto>>

\* The server answers sftp.NewClient: it accepts the channel, or not.
Responder(s) ==
    LET c == gestor[s].con
    IN  /\ gestor[s].paso = "abriendo"
        /\ cliente[c] = "vivo"
        /\ \/ /\ canal' = [canal EXCEPT ![c] = "abierto"]
              /\ pasar(s, "usa")
           \/ /\ responder(s)
              /\ UNCHANGED canal
        /\ sftpMu' = [sftpMu EXCEPT ![c] = Nadie]
        /\ UNCHANGED <<mu, registrada, cliente, hilo, remoto>>

\* sftp.NewClient fails at once on a client that is closed.
AbrirFalla(s) ==
    LET c == gestor[s].con
    IN  /\ gestor[s].paso = "abriendo"
        /\ cliente[c] = "cerrado"
        /\ responder(s)
        /\ sftpMu' = [sftpMu EXCEPT ![c] = Nadie]
        /\ UNCHANGED <<mu, registrada, cliente, canal, hilo, remoto>>

-----------------------------------------------------------------------------
(* The editor.  Any of its remote operations may fail, and all do once the *)
(* connection is closed.                                                   *)

vivo(s) == cliente[gestor[s].con] = "vivo"
temporal(s) == <<s, gestor[s].con>>

\* leer-texto: the content and its revision, which the window keeps.
Leer(s) ==
    /\ gestor[s].paso = "usa"
    /\ gestor[s].nuevo = Nadie
    /\ \/ /\ vivo(s)
          /\ gestor' = [gestor EXCEPT ![s] =
                          [terminado(@) EXCEPT !.revision = documento]]
       \/ responder(s)
    /\ UNCHANGED <<locks, registrada, cliente, canal, hilo, remoto>>

\* Mutant: the revision is not compared.
ComprobarSinRevision(s) ==
    /\ gestor[s].paso = "usa"
    /\ gestor[s].nuevo # Nadie
    /\ \/ /\ vivo(s)
          /\ pasar(s, "escribe")
          /\ temporales' = temporales \cup {temporal(s)}
       \/ /\ responder(s)
          /\ UNCHANGED temporales
    /\ UNCHANGED <<locks, registrada, cliente, canal, hilo, documento>>

\* guardar-texto, first half: the document is read again and its revision
\* compared; then the new text goes to a temporary file beside it.
Comprobar(s) ==
    /\ gestor[s].paso = "usa"
    /\ gestor[s].nuevo # Nadie
    /\ \/ /\ vivo(s)
          /\ documento = gestor[s].revision
          /\ pasar(s, "escribe")
          /\ temporales' = temporales \cup {temporal(s)}
       \/ /\ responder(s)
          /\ UNCHANGED temporales
    /\ UNCHANGED <<locks, registrada, cliente, canal, hilo, documento>>

\* Whoever is between its check and its rename has been overtaken.
adelantar(s) ==
    [r \in Gestores |->
        IF r # s /\ gestor[r].paso = "escribe"
        THEN [gestor[r] EXCEPT !.ajeno = TRUE]
        ELSE gestor[r]]

\* Second half: the temporary file replaces the document in one rename.
RenombrarTemporal(s) ==
    /\ gestor[s].paso = "escribe"
    /\ vivo(s)
    /\ documento' = gestor[s].nuevo
    /\ gestor' = [adelantar(s) EXCEPT ![s] =
                    [terminado(@) EXCEPT !.revision = gestor[s].nuevo]]
    /\ temporales' = temporales \ {temporal(s)}
    /\ UNCHANGED <<locks, registrada, cliente, canal, hilo>>

\* Mutant: a write that fails leaves the temporary file.
EscribirFallaSinLimpiar(s) ==
    /\ gestor[s].paso = "escribe"
    /\ responder(s)
    /\ UNCHANGED <<locks, registrada, cliente, canal, hilo, remoto>>

\* The write or the rename fails; the temporary file is removed, unless the
\* connection is gone too.
EscribirFalla(s) ==
    /\ gestor[s].paso = "escribe"
    /\ responder(s)
    /\ temporales' = IF vivo(s) THEN temporales \ {temporal(s)} ELSE temporales
    /\ UNCHANGED <<locks, registrada, cliente, canal, hilo, documento>>

\* Somebody else on the server writes the document.
EscribirOtro(x) ==
    /\ documento' = x
    /\ gestor' = adelantar(Nadie)
    /\ UNCHANGED <<locks, registrada, cliente, canal, hilo, temporales>>

ArchivosNext ==
    \/ \E c \in Con : Conectar(c)
    \/ \E e \in Hilos : Llamar(e) \/ Atender(e)
    \/ \E d \in Cierres : CerrarEmpezar(d) \/ CerrarCanal(d) \/ CerrarCliente(d)
    \/ \E s \in Gestores :
          \/ \E x \in Textos \cup {Nadie} : Pedir(s, x)
          \/ Buscar(s)
          \/ TomarCanal(s)
          \/ Responder(s)
          \/ AbrirFalla(s)
          \/ Leer(s)
          \/ Comprobar(s)
          \/ RenombrarTemporal(s)
          \/ EscribirFalla(s)
    \/ \E x \in Textos : EscribirOtro(x)

ArchivosSpec == ArchivosInit /\ [][ArchivosNext]_archivosVars

\* The goroutines run and the locks of Go do not starve anybody.  Nothing is
\* assumed of the server, of the user or of the network.
Fairness ==
    /\ \A e \in Otras : SF_archivosVars(Atender(e))
    /\ \A d \in Cierres :
          /\ SF_archivosVars(CerrarEmpezar(d))
          /\ SF_archivosVars(CerrarCanal(d))
          /\ WF_archivosVars(CerrarCliente(d))
    /\ \A s \in Gestores :
          /\ SF_archivosVars(Buscar(s))
          /\ SF_archivosVars(TomarCanal(s))
          /\ WF_archivosVars(AbrirFalla(s))

LiveSpec == ArchivosSpec /\ Fairness

\* Besides, the server answers every request for a channel.
LiveSpecResponde == LiveSpec /\ \A s \in Gestores : WF_archivosVars(Responder(s))

-----------------------------------------------------------------------------
(* Properties.                                                             *)

\* Every variable has its type.
ArchivosTypeOK ==
    /\ mu \in Cierres \cup {Nadie}
    /\ sftpMu \in [Con -> Gestores \cup {Nadie}]
    /\ registrada \in Con \cup {Nadie}
    /\ cliente \in [Con -> {"nulo", "vivo", "cerrado"}]
    /\ canal \in [Con -> {"nulo", "abierto"}]
    /\ gestor \in [Gestores -> Gestor]
    /\ hilo \in [Hilos -> [paso : Pasos, con : Con \cup {Nadie}]]
    /\ documento \in Textos
    /\ temporales \in SUBSET (Gestores \X Con)

\* "Evita abrir dos canales SFTP simultaneos": one request at most is opening
\* a channel on a connection, and none while the connection has one.
UnSoloCanal ==
    \A c \in Con :
        LET abriendo == {s \in Gestores : /\ gestor[s].paso = "abriendo"
                                          /\ gestor[s].con = c}
        IN  /\ Cardinality(abriendo) <= 1
            /\ canal[c] = "abierto" => abriendo = {}

\* "Para no sobrescribir cambios": a save replaces exactly what its window had
\* read, unless the document changed between the check and the rename.
SoloLoLeido ==
    [][\A s \in Gestores : RenombrarTemporal(s) /\ ~gestor[s].ajeno =>
                               documento = gestor[s].revision]_archivosVars

\* The temporary file of a save goes away with it, unless the connection of
\* that save was closed under it.
SinTemporales ==
    \A s \in Gestores, c \in Con :
        <<s, c>> \in temporales =>
            \/ gestor[s].paso = "escribe" /\ gestor[s].con = c
            \/ cliente[c] = "cerrado"

\* "No debe congelar el resto de la API mientras el servidor responde": a
\* handler that waits for mu is attended.
ApiNoCongelada ==
    \A e \in Otras : hilo[e].paso = "mu" ~> hilo[e].paso = "libre"
=============================================================================
