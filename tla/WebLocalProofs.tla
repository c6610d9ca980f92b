--------------------------- MODULE WebLocalProofs ---------------------------
(***************************************************************************)
(* Proofs about WebLocal, for any servers, ports, handlers, requests and   *)
(* addresses, and any limit of wrong codes.                                *)
(***************************************************************************)
EXTENDS WebLocal, FiniteSetTheorems, TLAPS

-----------------------------------------------------------------------------
(* The inductive invariant.                                                *)

\* A copy of the code in force is a copy of the code of a running server.
InvSesiones ==
    /\ SesionesDelCodigo
    /\ \A q \in Peticiones : login[q].alDia => server # Nadie

\* An address that is not blocked has had no more wrong codes than it is
\* charged with; one that is blocked only gets those of logins under way.
InvFallos ==
    /\ \A q \in Peticiones : login[q] # SinLogin => login[q].ip \in Ips
    /\ \A i \in Ips : ~attempts[i].locked => fallos[i] <= attempts[i].failed
    /\ FallosAcotados

\* A goroutine returns only when its listener is closed, and nobody closes the
\* server in force.
InvDueno ==
    /\ EscuchaConDueno
    /\ \A s \in Servidores :
          /\ serve[s] = "vuelve" => ~Abierto(s)
          /\ server = s => ~EnMano(s)

IInv == TypeOK /\ InvSesiones /\ InvFallos /\ InvDueno

-----------------------------------------------------------------------------
(* Facts about the operators.                                              *)

\* The state is cleared: no sessions, no wrong codes.
LEMMA Limpio ==
    /\ SinSesiones \in [Sesiones -> Sesion]
    /\ \A t \in Sesiones : ~SinSesiones[t].viva
    /\ SinIntentos \in [Ips -> Intento]
    /\ \A i \in Ips : SinIntentos[i] = SinIntento
    /\ SinIntento \in Intento /\ SinIntento.failed = 0 /\ ~SinIntento.locked
    /\ SinLogin \in Login /\ SinLogin.ip = Nadie /\ ~SinLogin.alDia
BY MaxFailedAssumption
   DEF SinSesiones, SinSesion, Sesion, SinIntentos, SinIntento, Intento, SinLogin, Login

\* The copies of an old code are still copies, of the same addresses.
LEMMA Viejas ==
    ASSUME TypeOK
    PROVE  /\ copiasViejas \in [Peticiones -> Login]
           /\ \A q \in Peticiones :
                 /\ copiasViejas[q].ip = login[q].ip
                 /\ ~copiasViejas[q].alDia
                 /\ login[q] = SinLogin => copiasViejas[q] = SinLogin
<1>1. ASSUME NEW q \in Peticiones
      PROVE  /\ copiasViejas[q] = [ip |-> login[q].ip, alDia |-> FALSE]
             /\ login[q].ip \in Ips \cup {Nadie}
    BY DEF TypeOK, copiasViejas, Login
<1>2. copiasViejas \in [Peticiones -> Login]
  <2>1. ASSUME NEW q \in Peticiones PROVE copiasViejas[q] \in Login
    <3>1. [ip |-> login[q].ip, alDia |-> FALSE] \in Login
        BY <1>1 DEF Login
    <3>. QED
        BY <1>1, <3>1
  <2>2. copiasViejas = [q \in Peticiones |-> copiasViejas[q]]
      BY DEF copiasViejas
  <2>. QED
      BY <2>1, <2>2
<1>. QED
    BY <1>1, <1>2 DEF SinLogin

\* One more wrong code: one more on the account, or a block.
LEMMA Contado ==
    ASSUME NEW a \in Intento
    PROVE  /\ contado(a) \in Intento
           /\ contado(a).locked \/ (~a.locked /\ contado(a).failed = a.failed + 1)
           /\ a.locked => contado(a).locked
BY MaxFailedAssumption DEF Intento, contado

\* Never more logins are under way than there are requests.
LEMMA EnCurso ==
    ASSUME NEW i
    PROVE  /\ IsFiniteSet(enCurso(i))
           /\ Cardinality(enCurso(i)) \in Nat
           /\ Cardinality(Peticiones) \in Nat
           /\ Cardinality(enCurso(i)) <= Cardinality(Peticiones)
<1>1. enCurso(i) \in SUBSET Peticiones
    BY DEF enCurso
<1>. QED
    BY <1>1, PeticionesAssumption, FS_Subset, FS_CardinalityType

LEMMA EnCursoPrima ==
    ASSUME NEW i
    PROVE  /\ Cardinality(enCurso(i)') \in Nat
           /\ Cardinality(enCurso(i)') <= Cardinality(Peticiones)
<1>1. enCurso(i)' \in SUBSET Peticiones
    BY DEF enCurso
<1>. QED
    BY <1>1, PeticionesAssumption, FS_Subset, FS_CardinalityType

\* An address with fewer wrong codes than the limit is within the bound.
LEMMA Acotado ==
    ASSUME NEW i \in Ips, fallos'[i] \in Nat, fallos'[i] < MaxFailed
    PROVE  fallos'[i] + Cardinality(enCurso(i)') < MaxFailed + Cardinality(Peticiones)
BY EnCurso, EnCursoPrima, MaxFailedAssumption

-----------------------------------------------------------------------------
LEMMA Iniciales == Init => IInv
<1> SUFFICES ASSUME Init PROVE IInv
    OBVIOUS
<1>1. TypeOK
    BY Limpio DEF Init, TypeOK
<1>2. InvSesiones
    BY Limpio DEF Init, InvSesiones, SesionesDelCodigo
<1>3. InvFallos
  <2>1. \A i \in Ips : fallos[i] = 0 /\ attempts[i] = SinIntento
      BY Limpio DEF Init
  <2>2. FallosAcotados
    <3> SUFFICES ASSUME NEW i \in Ips
                 PROVE  fallos[i] + Cardinality(enCurso(i))
                           < MaxFailed + Cardinality(Peticiones)
        BY DEF FallosAcotados
    <3>. QED
        BY <2>1, EnCurso, MaxFailedAssumption
  <2>. QED
      BY <2>1, <2>2, Limpio DEF Init, InvFallos
<1>4. InvDueno
    BY NadieAssumption DEF Init, InvDueno, EscuchaConDueno, Abierto, EnMano
<1>. QED
    BY <1>1, <1>2, <1>3, <1>4 DEF IInv

\* The code changes, or goes: everything that was opened with it goes too.
Cambia ==
    /\ sessions' = SinSesiones
    /\ attempts' = SinIntentos
    /\ login' = copiasViejas
    /\ fallos' = [i \in Ips |-> 0]

LEMMA PasoCambia ==
    ASSUME IInv, Cambia
    PROVE  /\ sessions' \in [Sesiones -> Sesion] /\ attempts' \in [Ips -> Intento]
           /\ login' \in [Peticiones -> Login] /\ fallos' \in [Ips -> Nat]
           /\ InvSesiones' /\ InvFallos'
<1>1. /\ sessions' \in [Sesiones -> Sesion] /\ attempts' \in [Ips -> Intento]
      /\ login' \in [Peticiones -> Login] /\ fallos' \in [Ips -> Nat]
    BY Limpio, Viejas DEF Cambia, IInv
<1>2. InvSesiones'
    BY Limpio, Viejas DEF Cambia, IInv, InvSesiones, SesionesDelCodigo
<1>3. InvFallos'
  <2>1. \A i \in Ips : fallos'[i] = 0
      BY DEF Cambia
  <2>2. FallosAcotados'
    <3> SUFFICES ASSUME NEW i \in Ips
                 PROVE  fallos'[i] + Cardinality(enCurso(i)')
                           < MaxFailed + Cardinality(Peticiones)
        BY DEF FallosAcotados
    <3>. QED
        BY <2>1, Acotado, MaxFailedAssumption
  <2>3. \A i \in Ips : ~attempts'[i].locked => fallos'[i] <= attempts'[i].failed
      BY <2>1, Limpio DEF Cambia
  <2>4. \A q \in Peticiones : login'[q] # SinLogin => login'[q].ip \in Ips
      BY Viejas DEF Cambia, IInv, InvFallos
  <2>. QED
      BY <2>2, <2>3, <2>4 DEF InvFallos
<1>. QED
    BY <1>1, <1>2, <1>3

\* What a step that leaves the browsers alone keeps.
LEMMA PasoQuieto ==
    ASSUME IInv, UNCHANGED <<server, sessions, attempts, login, fallos>>
    PROVE  InvSesiones' /\ InvFallos'
<1>1. InvSesiones'
    BY DEF IInv, InvSesiones, SesionesDelCodigo
<1>2. InvFallos'
  <2>1. \A i \in Ips : enCurso(i)' = enCurso(i)
      BY DEF enCurso
  <2>. QED
      BY <2>1 DEF IInv, InvFallos, FallosAcotados
<1>. QED
    BY <1>1, <1>2

-----------------------------------------------------------------------------
(* Starting and stopping.                                                  *)

LEMMA PasoStart ==
    ASSUME IInv, NEW s \in Servidores, NEW p \in Puertos, Start(s, p)
    PROVE  IInv'
<1>1. Cambia
    BY DEF Start, Cambia
<1>2. TypeOK'
    BY <1>1, PasoCambia DEF Start, IInv, TypeOK
<1>3. InvDueno'
  <2>1. /\ server = Nadie /\ server' = s /\ parada' = parada
        /\ listener' = [listener EXCEPT ![s] = p]
        /\ serve' = [serve EXCEPT ![s] = "lanzada"]
        /\ ~EnMano(s)
      BY DEF Start
  <2>2. \A x \in Servidores : /\ listener'[x] = IF x = s THEN p ELSE listener[x]
                              /\ serve'[x] = IF x = s THEN "lanzada" ELSE serve[x]
                              /\ EnMano(x)' <=> EnMano(x)
      BY <2>1 DEF IInv, TypeOK, EnMano
  <2>3. p # Nadie
      BY NadieAssumption
  <2>. QED
      BY <2>1, <2>2, <2>3, NadieAssumption DEF IInv, InvDueno, EscuchaConDueno, Abierto
<1>. QED
    BY <1>1, <1>2, <1>3, PasoCambia DEF IInv

LEMMA PasoServir ==
    ASSUME IInv, NEW s \in Servidores, Servir(s)
    PROVE  IInv'
<1>1. TypeOK'
    BY DEF Servir, IInv, TypeOK, gestor
<1>2. InvSesiones' /\ InvFallos'
    BY PasoQuieto DEF Servir, gestor
<1>3. InvDueno'
  <2>1. \A x \in Servidores :
           serve'[x] = IF x # s THEN serve[x] ELSE IF Abierto(s) THEN "sirve" ELSE "vuelve"
      BY DEF Servir, IInv, TypeOK
  <2>2. UNCHANGED <<server, listener, parada>> /\ serve[s] = "lanzada"
      BY DEF Servir, gestor
  <2>. QED
      BY <2>1, <2>2 DEF IInv, InvDueno, EscuchaConDueno, Abierto, EnMano
<1>. QED
    BY <1>1, <1>2, <1>3 DEF IInv

LEMMA PasoFallar ==
    ASSUME IInv, NEW s \in Servidores, Fallar(s)
    PROVE  IInv'
<1>1. TypeOK'
    BY DEF Fallar, IInv, TypeOK, gestor
<1>2. InvSesiones' /\ InvFallos'
    BY PasoQuieto DEF Fallar, gestor
<1>3. InvDueno'
  <2>1. \A x \in Servidores : /\ serve'[x] = IF x = s THEN "vuelve" ELSE serve[x]
                              /\ listener'[x] = IF x = s THEN Nadie ELSE listener[x]
      BY DEF Fallar, IInv, TypeOK
  <2>2. UNCHANGED <<server, parada>>
      BY DEF Fallar, gestor
  <2>. QED
      BY <2>1, <2>2 DEF IInv, InvDueno, EscuchaConDueno, Abierto, EnMano
<1>. QED
    BY <1>1, <1>2, <1>3 DEF IInv

LEMMA PasoVolver ==
    ASSUME IInv, NEW s \in Servidores, Volver(s)
    PROVE  IInv'
<1>1. UNCHANGED <<port, listener, parada>> /\ serve[s] = "vuelve"
      /\ serve' = [serve EXCEPT ![s] = "libre"]
    BY DEF Volver
<1>2. CASE server = s
  <2>1. Cambia /\ server' = Nadie
      BY <1>2 DEF Volver, Cambia
  <2>2. TypeOK'
      BY <1>1, <2>1, PasoCambia DEF IInv, TypeOK
  <2>3. InvDueno'
    <3>1. \A x \in Servidores : serve'[x] = IF x = s THEN "libre" ELSE serve[x]
        BY <1>1 DEF IInv, TypeOK
    <3>. QED
        BY <1>1, <1>2, <2>1, <3>1, NadieAssumption
           DEF IInv, InvDueno, EscuchaConDueno, Abierto, EnMano
  <2>. QED
      BY <2>1, <2>2, <2>3, PasoCambia DEF IInv
<1>3. CASE server # s
  <2>1. UNCHANGED <<server, sessions, attempts, login, fallos>>
      BY <1>3 DEF Volver
  <2>2. TypeOK'
      BY <1>1, <2>1 DEF IInv, TypeOK
  <2>3. InvDueno'
    <3>1. \A x \in Servidores : serve'[x] = IF x = s THEN "libre" ELSE serve[x]
        BY <1>1 DEF IInv, TypeOK
    <3>. QED
        BY <1>1, <1>3, <2>1, <3>1 DEF IInv, InvDueno, EscuchaConDueno, Abierto, EnMano
  <2>. QED
      BY <2>1, <2>2, <2>3, PasoQuieto DEF IInv
<1>. QED
    BY <1>2, <1>3

LEMMA PasoStop ==
    ASSUME IInv, NEW k \in Paradas, Stop(k)
    PROVE  IInv'
<1>1. Cambia
    BY DEF Stop, Cambia
<1>2. TypeOK'
    BY <1>1, PasoCambia DEF Stop, IInv, TypeOK
<1>3. InvDueno'
  <2>1. /\ parada[k] = Nadie /\ server # Nadie /\ server' = Nadie
        /\ UNCHANGED <<listener, serve>>
        /\ \A j \in Paradas : parada'[j] = IF j = k THEN server ELSE parada[j]
      BY DEF Stop, IInv, TypeOK
  <2>2. \A x \in Servidores : EnMano(x)' <=> EnMano(x) \/ x = server
      BY <2>1, NadieAssumption DEF EnMano
  <2>. QED
      BY <2>1, <2>2, NadieAssumption DEF IInv, InvDueno, EscuchaConDueno, Abierto
<1>. QED
    BY <1>1, <1>2, <1>3, PasoCambia DEF IInv

\* Nobody closes the server in force: a Stop has it in hand only once it is not.
LEMMA PasoCerrar ==
    ASSUME IInv, NEW k \in Paradas, Cerrar(k)
    PROVE  IInv'
<1> DEFINE s == parada[k]
<1>1. /\ s \in Servidores /\ EnMano(s)
      /\ UNCHANGED <<server, port, sessions, attempts, login, fallos>>
      /\ listener' = [listener EXCEPT ![s] = Nadie]
      /\ serve' = [serve EXCEPT ![s] = IF @ = "sirve" THEN "vuelve" ELSE @]
      /\ parada' = [parada EXCEPT ![k] = Nadie]
    BY DEF Cerrar, gestor, IInv, TypeOK, EnMano
<1>2. TypeOK'
    BY <1>1 DEF IInv, TypeOK
<1>3. InvSesiones' /\ InvFallos'
    BY <1>1, PasoQuieto
<1>4. InvDueno'
  <2>1. \A x \in Servidores :
           /\ listener'[x] = IF x = s THEN Nadie ELSE listener[x]
           /\ x # s => serve'[x] = serve[x] /\ (EnMano(x)' <=> EnMano(x))
           /\ EnMano(x)' => EnMano(x)
      BY <1>1, NadieAssumption DEF IInv, TypeOK, EnMano
  <2>2. server # s
      BY <1>1 DEF IInv, InvDueno
  <2>. QED
      BY <1>1, <2>1, <2>2 DEF IInv, InvDueno, EscuchaConDueno, Abierto
<1>. QED
    BY <1>2, <1>3, <1>4 DEF IInv

LEMMA PasoRegenerateCode ==
    ASSUME IInv, RegenerateCode
    PROVE  IInv'
<1>1. Cambia /\ UNCHANGED <<server, port, listener, serve, parada>>
    BY DEF RegenerateCode, Cambia
<1>2. TypeOK'
    BY <1>1, PasoCambia DEF IInv, TypeOK
<1>3. InvDueno'
    BY <1>1 DEF IInv, InvDueno, EscuchaConDueno, Abierto, EnMano
<1>. QED
    BY <1>1, <1>2, <1>3, PasoCambia DEF IInv

-----------------------------------------------------------------------------
(* The browsers.                                                           *)

\* An address that is not blocked is within the bound, whoever else tries.
LEMMA Libre ==
    ASSUME IInv, NEW i \in Ips, ~attempts[i].locked, fallos'[i] = fallos[i]
    PROVE  fallos'[i] + Cardinality(enCurso(i)') < MaxFailed + Cardinality(Peticiones)
<1>1. fallos[i] \in Nat /\ attempts[i].failed \in 0 .. MaxFailed - 1
    BY DEF IInv, TypeOK, Intento
<1>2. fallos[i] <= attempts[i].failed
    BY DEF IInv, InvFallos
<1>. QED
    BY <1>1, <1>2, Acotado, MaxFailedAssumption

\* The logins of an address once one of them, q, is over.
LEMMA Acaba ==
    ASSUME IInv, NEW q \in Peticiones, login[q] # SinLogin,
           login' = [login EXCEPT ![q] = SinLogin]
    PROVE  /\ login' \in [Peticiones -> Login]
           /\ \A r \in Peticiones : login'[r] = IF r = q THEN SinLogin ELSE login[r]
           /\ login[q].ip \in Ips
           /\ \A i \in Ips :
                 IF i = login[q].ip
                 THEN Cardinality(enCurso(i)') = Cardinality(enCurso(i)) - 1
                 ELSE enCurso(i)' = enCurso(i)
           /\ \A r \in Peticiones : login'[r] # SinLogin => login'[r].ip \in Ips
           /\ \A r \in Peticiones : login'[r].alDia => login[r].alDia
<1>1. login' \in [Peticiones -> Login]
    BY Limpio DEF IInv, TypeOK
<1>2. \A r \in Peticiones : login'[r] = IF r = q THEN SinLogin ELSE login[r]
    BY DEF IInv, TypeOK
<1>3. login[q].ip \in Ips
    BY DEF IInv, InvFallos
<1>4. \A i \in Ips : enCurso(i)' = enCurso(i) \ {q}
    BY <1>2, Limpio, NadieAssumption DEF enCurso
<1>5. ASSUME NEW i \in Ips, i = login[q].ip
      PROVE  Cardinality(enCurso(i)') = Cardinality(enCurso(i)) - 1
  <2>1. q \in enCurso(i)
      BY <1>5 DEF enCurso
  <2>. QED
      BY <1>4, <2>1, EnCurso, FS_RemoveElement
<1>6. \A i \in Ips : i # login[q].ip => enCurso(i)' = enCurso(i)
    BY <1>4 DEF enCurso
<1>. QED
    BY <1>1, <1>2, <1>3, <1>5, <1>6, Limpio DEF IInv, InvFallos

\* What a step that leaves the servers alone keeps.
LEMMA PasoServidores ==
    ASSUME IInv, UNCHANGED <<server, listener, serve, parada>>
    PROVE  InvDueno'
BY DEF IInv, InvDueno, EscuchaConDueno, Abierto, EnMano

\* The logins of a blocked address were read before the block: only one that is
\* not blocked gets one more.
LEMMA PasoLoginLeer ==
    ASSUME IInv, NEW q \in Peticiones, NEW i \in Ips, LoginLeer(q, i)
    PROVE  IInv'
<1>1. /\ login[q] = SinLogin /\ ~attempts[i].locked /\ server # Nadie
      /\ login' = [login EXCEPT ![q] = [ip |-> i, alDia |-> TRUE]]
      /\ UNCHANGED <<server, port, sessions, attempts, listener, serve, parada, fallos>>
    BY DEF LoginLeer, gestor
<1>2. login' \in [Peticiones -> Login]
      /\ \A r \in Peticiones :
            login'[r] = IF r = q THEN [ip |-> i, alDia |-> TRUE] ELSE login[r]
    BY <1>1 DEF IInv, TypeOK, Login
<1>3. TypeOK'
    BY <1>1, <1>2 DEF IInv, TypeOK
<1>4. InvSesiones'
    BY <1>1, <1>2 DEF IInv, InvSesiones, SesionesDelCodigo
<1>5. InvFallos'
  <2>1. FallosAcotados'
    <3> SUFFICES ASSUME NEW j \in Ips
                 PROVE  fallos'[j] + Cardinality(enCurso(j)')
                           < MaxFailed + Cardinality(Peticiones)
        BY DEF FallosAcotados
    <3>1. CASE ~attempts[j].locked
        BY <1>1, <3>1, Libre
    <3>2. CASE attempts[j].locked
      <4>1. enCurso(j)' = enCurso(j)
          BY <1>1, <1>2, <3>2, Limpio, NadieAssumption DEF enCurso
      <4>. QED
          BY <1>1, <4>1 DEF IInv, InvFallos, FallosAcotados
    <3>. QED
        BY <3>1, <3>2
  <2>. QED
      BY <1>1, <1>2, <2>1 DEF IInv, InvFallos
<1>6. InvDueno'
    BY <1>1, PasoServidores
<1>. QED
    BY <1>3, <1>4, <1>5, <1>6 DEF IInv

\* A wrong code takes its login's place in the count.
LEMMA PasoLoginMal ==
    ASSUME IInv, NEW q \in Peticiones, LoginMal(q)
    PROVE  IInv'
<1> DEFINE i == login[q].ip
<1>1. /\ login[q] # SinLogin
      /\ attempts' = [attempts EXCEPT ![i] = contado(@)]
      /\ fallos' = [fallos EXCEPT ![i] = @ + 1]
      /\ login' = [login EXCEPT ![q] = SinLogin]
      /\ UNCHANGED <<server, port, sessions, listener, serve, parada>>
    BY DEF LoginMal
<1>2. i \in Ips /\ attempts[i] \in Intento /\ fallos[i] \in Nat
    BY <1>1, Acaba DEF IInv, TypeOK
<1>3. \A j \in Ips : /\ attempts'[j] = IF j = i THEN contado(attempts[i]) ELSE attempts[j]
                     /\ fallos'[j] = IF j = i THEN fallos[i] + 1 ELSE fallos[j]
    BY <1>1, <1>2 DEF IInv, TypeOK
<1>4. TypeOK'
  <2>1. attempts' \in [Ips -> Intento]
      BY <1>1, <1>2, Contado DEF IInv, TypeOK
  <2>2. fallos' \in [Ips -> Nat]
      BY <1>1, <1>2 DEF IInv, TypeOK
  <2>3. login' \in [Peticiones -> Login]
      BY <1>1, Acaba
  <2>. QED
      BY <1>1, <2>1, <2>2, <2>3 DEF IInv, TypeOK
<1>5. InvSesiones'
  <2>1. \A r \in Peticiones : login'[r].alDia => login[r].alDia
      BY <1>1, Acaba
  <2>. QED
      BY <1>1, <2>1 DEF IInv, InvSesiones, SesionesDelCodigo
<1>6. InvFallos'
  <2>1. ASSUME NEW j \in Ips, ~attempts'[j].locked
        PROVE  fallos'[j] <= attempts'[j].failed
    <3>1. CASE j = i
      <4>1. ~attempts[i].locked /\ attempts'[i].failed = attempts[i].failed + 1
          BY <1>2, <1>3, <2>1, <3>1, Contado
      <4>2. fallos[i] <= attempts[i].failed /\ attempts[i].failed \in Nat
          BY <1>2, <4>1, MaxFailedAssumption DEF IInv, InvFallos, Intento
      <4>. QED
          BY <1>2, <1>3, <3>1, <4>1, <4>2
    <3>2. CASE j # i
        BY <1>3, <2>1, <3>2 DEF IInv, InvFallos
    <3>. QED
        BY <3>1, <3>2
  <2>2. FallosAcotados'
    <3> SUFFICES ASSUME NEW j \in Ips
                 PROVE  fallos'[j] + Cardinality(enCurso(j)')
                           < MaxFailed + Cardinality(Peticiones)
        BY DEF FallosAcotados
    <3>1. fallos[j] + Cardinality(enCurso(j)) < MaxFailed + Cardinality(Peticiones)
        BY DEF IInv, InvFallos, FallosAcotados
    <3>2. CASE j = i
      <4>1. Cardinality(enCurso(j)') = Cardinality(enCurso(j)) - 1
          BY <1>1, <3>2, Acaba
      <4>2. fallos'[j] = fallos[j] + 1
          BY <1>3, <3>2
      <4>. QED
          BY <1>2, <3>1, <3>2, <4>1, <4>2, EnCurso, MaxFailedAssumption
    <3>3. CASE j # i
      <4>1. enCurso(j)' = enCurso(j)
          BY <1>1, <3>3, Acaba
      <4>. QED
          BY <1>3, <3>1, <3>3, <4>1
    <3>. QED
        BY <3>2, <3>3
  <2>3. \A r \in Peticiones : login'[r] # SinLogin => login'[r].ip \in Ips
      BY <1>1, Acaba
  <2>. QED
      BY <2>1, <2>2, <2>3 DEF InvFallos
<1>7. InvDueno'
    BY <1>1, PasoServidores
<1>. QED
    BY <1>4, <1>5, <1>6, <1>7 DEF IInv

\* A login that ends without a wrong code, alone or with its address forgiven.
LEMMA FallosAlAcabar ==
    ASSUME IInv, NEW q \in Peticiones, login[q] # SinLogin,
           login' = [login EXCEPT ![q] = SinLogin],
           \/ UNCHANGED <<attempts, fallos>>
           \/ /\ attempts' = [attempts EXCEPT ![login[q].ip] = SinIntento]
              /\ fallos' = [fallos EXCEPT ![login[q].ip] = 0]
    PROVE  InvFallos' /\ attempts' \in [Ips -> Intento] /\ fallos' \in [Ips -> Nat]
<1> DEFINE i == login[q].ip
<1>1. attempts' \in [Ips -> Intento] /\ fallos' \in [Ips -> Nat]
    BY Limpio DEF IInv, TypeOK
<1>2. i \in Ips
    BY Acaba
<1>3. \A j \in Ips : \/ attempts'[j] = attempts[j] /\ fallos'[j] = fallos[j]
                     \/ attempts'[j] = SinIntento /\ fallos'[j] = 0
    BY <1>2 DEF IInv, TypeOK
<1>4. \A j \in Ips : ~attempts'[j].locked => fallos'[j] <= attempts'[j].failed
    BY <1>3, Limpio DEF IInv, InvFallos
<1>5. FallosAcotados'
  <2> SUFFICES ASSUME NEW j \in Ips
               PROVE  fallos'[j] + Cardinality(enCurso(j)')
                         < MaxFailed + Cardinality(Peticiones)
      BY DEF FallosAcotados
  <2>1. CASE fallos'[j] = 0
      BY <2>1, Acotado, MaxFailedAssumption
  <2>2. CASE fallos'[j] = fallos[j]
    <3>1. fallos[j] + Cardinality(enCurso(j)) < MaxFailed + Cardinality(Peticiones)
        BY DEF IInv, InvFallos, FallosAcotados
    <3>2. Cardinality(enCurso(j)') <= Cardinality(enCurso(j))
      <4>1. j = i \/ enCurso(j)' = enCurso(j)
          BY Acaba
      <4>2. j = i => Cardinality(enCurso(j)') = Cardinality(enCurso(j)) - 1
          BY Acaba
      <4>. QED
          BY <4>1, <4>2, EnCurso
    <3>3. fallos[j] \in Nat
        BY DEF IInv, TypeOK
    <3>. QED
        BY <2>2, <3>1, <3>2, <3>3, EnCurso, EnCursoPrima, MaxFailedAssumption
  <2>. QED
      BY <1>3, <2>1, <2>2
<1>6. \A r \in Peticiones : login'[r] # SinLogin => login'[r].ip \in Ips
    BY Acaba
<1>. QED
    BY <1>1, <1>4, <1>5, <1>6 DEF InvFallos

\* A session opened with the code in force finds its server running.
LEMMA PasoLoginBien ==
    ASSUME IInv, NEW q \in Peticiones, NEW t \in Sesiones, LoginBien(q, t)
    PROVE  IInv'
<1>1. /\ login[q] # SinLogin
      /\ sessions' = [sessions EXCEPT ![t] = [viva |-> TRUE,
                         nacida |-> login[q].alDia, alDia |-> login[q].alDia]]
      /\ login' = [login EXCEPT ![q] = SinLogin]
      /\ UNCHANGED <<server, port, listener, serve, parada>>
    BY DEF LoginBien
<1>2. /\ InvFallos' /\ attempts' \in [Ips -> Intento] /\ fallos' \in [Ips -> Nat]
    BY FallosAlAcabar DEF LoginBien
<1>3. login[q].alDia \in BOOLEAN
    BY DEF IInv, TypeOK, Login
<1>4. TypeOK'
  <2>1. sessions' \in [Sesiones -> Sesion]
      BY <1>1, <1>3 DEF IInv, TypeOK, Sesion
  <2>2. login' \in [Peticiones -> Login]
      BY <1>1, Acaba
  <2>. QED
      BY <1>1, <1>2, <2>1, <2>2 DEF IInv, TypeOK
<1>5. InvSesiones'
  <2>1. \A u \in Sesiones :
           sessions'[u] = IF u = t THEN [viva |-> TRUE, nacida |-> login[q].alDia,
                                         alDia |-> login[q].alDia]
                                   ELSE sessions[u]
      BY <1>1 DEF IInv, TypeOK
  <2>2. \A r \in Peticiones : login'[r].alDia => login[r].alDia
      BY <1>1, Acaba
  <2>3. login[q].alDia => server # Nadie
      BY DEF IInv, InvSesiones
  <2>. QED
      BY <1>1, <2>1, <2>2, <2>3 DEF IInv, InvSesiones, SesionesDelCodigo
<1>6. InvDueno'
    BY <1>1, PasoServidores
<1>. QED
    BY <1>2, <1>4, <1>5, <1>6 DEF IInv

LEMMA PasoLoginAbandonar ==
    ASSUME IInv, NEW q \in Peticiones, LoginAbandonar(q)
    PROVE  IInv'
<1>1. /\ login[q] # SinLogin
      /\ login' = [login EXCEPT ![q] = SinLogin]
      /\ UNCHANGED <<server, port, sessions, attempts, listener, serve, parada, fallos>>
    BY DEF LoginAbandonar, gestor
<1>2. InvFallos'
    BY <1>1, FallosAlAcabar
<1>3. TypeOK'
  <2>1. login' \in [Peticiones -> Login]
      BY <1>1, Acaba
  <2>. QED
      BY <1>1, <2>1 DEF IInv, TypeOK
<1>4. InvSesiones'
  <2>1. \A r \in Peticiones : login'[r].alDia => login[r].alDia
      BY <1>1, Acaba
  <2>. QED
      BY <1>1, <2>1 DEF IInv, InvSesiones, SesionesDelCodigo
<1>5. InvDueno'
    BY <1>1, PasoServidores
<1>. QED
    BY <1>2, <1>3, <1>4, <1>5 DEF IInv

LEMMA PasoOlvidar ==
    ASSUME IInv, NEW t \in Sesiones, Olvidar(t)
    PROVE  IInv'
<1>1. /\ sessions' = [sessions EXCEPT ![t] = SinSesion]
      /\ UNCHANGED <<server, port, attempts, listener, serve, parada, login, fallos>>
    BY DEF Olvidar
<1>2. SinSesion \in Sesion /\ ~SinSesion.viva
    BY DEF SinSesion, Sesion
<1>3. TypeOK'
    BY <1>1, <1>2 DEF IInv, TypeOK
<1>4. InvSesiones'
  <2>1. \A u \in Sesiones : sessions'[u] = IF u = t THEN SinSesion ELSE sessions[u]
      BY <1>1 DEF IInv, TypeOK
  <2>. QED
      BY <1>1, <1>2, <2>1 DEF IInv, InvSesiones, SesionesDelCodigo
<1>5. InvFallos'
  <2>1. \A i \in Ips : enCurso(i)' = enCurso(i)
      BY <1>1 DEF enCurso
  <2>. QED
      BY <1>1, <2>1 DEF IInv, InvFallos, FallosAcotados
<1>6. InvDueno'
    BY <1>1, PasoServidores
<1>. QED
    BY <1>3, <1>4, <1>5, <1>6 DEF IInv

LEMMA PasoDesbloquear ==
    ASSUME IInv, NEW i \in Ips, Desbloquear(i)
    PROVE  IInv'
<1>1. /\ attempts' = [attempts EXCEPT ![i].locked = FALSE]
      /\ fallos' = [fallos EXCEPT ![i] = 0]
      /\ UNCHANGED <<server, port, sessions, listener, serve, parada, login>>
    BY DEF Desbloquear
<1>2. attempts' \in [Ips -> Intento] /\ fallos' \in [Ips -> Nat]
    BY <1>1 DEF IInv, TypeOK, Intento
<1>3. \A j \in Ips : \/ fallos'[j] = 0
                     \/ attempts'[j] = attempts[j] /\ fallos'[j] = fallos[j]
    BY <1>1 DEF IInv, TypeOK
<1>4. TypeOK'
    BY <1>1, <1>2 DEF IInv, TypeOK
<1>5. InvSesiones'
    BY <1>1 DEF IInv, InvSesiones, SesionesDelCodigo
<1>6. InvFallos'
  <2>1. \A j \in Ips : ~attempts'[j].locked => fallos'[j] <= attempts'[j].failed
    <3> SUFFICES ASSUME NEW j \in Ips, ~attempts'[j].locked
                 PROVE  fallos'[j] <= attempts'[j].failed
        OBVIOUS
    <3>1. attempts'[j].failed \in Nat
        BY <1>2, MaxFailedAssumption DEF Intento
    <3>. QED
        BY <1>3, <3>1 DEF IInv, InvFallos
  <2>2. FallosAcotados'
    <3> SUFFICES ASSUME NEW j \in Ips
                 PROVE  fallos'[j] + Cardinality(enCurso(j)')
                           < MaxFailed + Cardinality(Peticiones)
        BY DEF FallosAcotados
    <3>1. CASE fallos'[j] = 0
        BY <3>1, Acotado, MaxFailedAssumption
    <3>2. CASE fallos'[j] = fallos[j]
      <4>1. enCurso(j)' = enCurso(j)
          BY <1>1 DEF enCurso
      <4>. QED
          BY <3>2, <4>1 DEF IInv, InvFallos, FallosAcotados
    <3>. QED
        BY <1>3, <3>1, <3>2
  <2>. QED
      BY <1>1, <2>1, <2>2 DEF IInv, InvFallos
<1>7. InvDueno'
    BY <1>1, PasoServidores
<1>. QED
    BY <1>4, <1>5, <1>6, <1>7 DEF IInv

-----------------------------------------------------------------------------
LEMMA Inductivo == IInv /\ [Next]_vars => IInv'
<1> SUFFICES ASSUME IInv, [Next]_vars PROVE IInv'
    OBVIOUS
<1>1. CASE Usuario
    BY <1>1, PasoStart, PasoStop, PasoRegenerateCode DEF Usuario
<1>2. CASE Programa
    BY <1>2, PasoServir, PasoVolver, PasoCerrar DEF Programa
<1>3. CASE Navegadores
    BY <1>3, PasoLoginLeer, PasoLoginMal, PasoLoginAbandonar, PasoLoginBien, PasoOlvidar
       DEF Navegadores
<1>4. CASE Entorno
    BY <1>4, PasoFallar, PasoDesbloquear DEF Entorno
<1>5. CASE UNCHANGED vars
  <2>1. UNCHANGED <<server, port, sessions, attempts, listener, serve, parada, login, fallos>>
      BY <1>5 DEF vars, gestor
  <2>2. TypeOK'
      BY <2>1 DEF IInv, TypeOK
  <2>. QED
      BY <2>1, <2>2, PasoQuieto, PasoServidores DEF IInv
<1>. QED
    BY <1>1, <1>2, <1>3, <1>4, <1>5 DEF Next

\* The inductive invariant holds whatever Start, Stop, the change of code, the
\* goroutines of the servers and the logins of web_local.go do to each other.
THEOREM Invariante == Spec => []IInv
BY Iniciales, Inductivo, PTL DEF Spec

\* The state of webLocalManager and of its goroutines is well formed, and the
\* account of wrong codes of an address never reaches webLocalMaxFailed.
THEOREM TipoCorrecto == Spec => []TypeOK
<1>1. IInv => TypeOK
    BY DEF IInv
<1>. QED
    BY <1>1, Invariante, PTL

\* No session that was opened while its code was in force outlives that code:
\* Stop, RegenerateCode, Start and the goroutine of the server close them in
\* whatever order.  A session that a login opens with a code it had copied, and
\* which changed meanwhile, is outside the statement.
THEOREM SesionesCerradas == Spec => []SesionesDelCodigo
<1>1. IInv => SesionesDelCodigo
    BY DEF IInv, InvSesiones
<1>. QED
    BY <1>1, Invariante, PTL

\* handleLANLogin compares at most webLocalMaxFailed wrong codes of an address,
\* and those of the logins that had read the count, before a block.
THEOREM FallosContados == Spec => []FallosAcotados
<1>1. IInv => FallosAcotados
    BY DEF IInv, InvFallos
<1>. QED
    BY <1>1, Invariante, PTL

\* Every listener that is open is that of the server in force or is about to be
\* closed by a Stop, and the server in force has its listener open until its
\* goroutine is about to clear it.
THEOREM EscuchaTieneDueno == Spec => []EscuchaConDueno
<1>1. IInv => EscuchaConDueno
    BY DEF IInv, InvDueno
<1>. QED
    BY <1>1, Invariante, PTL

=============================================================================
