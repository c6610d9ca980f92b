--------------------------- MODULE WireGuardProofs ---------------------------
(***************************************************************************)
(* Proofs about WireGuard, for every number of profiles, handlers, forms,  *)
(* backups and faults.                                                     *)
(***************************************************************************)
EXTENDS WireGuard, TLAPS

-----------------------------------------------------------------------------
(* The inductive invariant.  What the variables hold is good for a set A   *)
(* of allowed hooks and a set B of lines nobody looked at: it keeps        *)
(* preshared keys with their peers, has no active hooks out of A, and its  *)
(* free text brings nothing out of A and B.                                *)

PB(A, B) == {p \in Perfil : /\ propias(p.peers) /\ (p.hooks => p.texto \in A)
                            /\ p.tabla \subseteq A \cup B}
CB(A, B) == {c \in Conf : /\ propias(c.peers) /\ c.hooks \in A \cup {Ninguno}
                          /\ c.tabla \subseteq A \cup B}
Tn(A, B) == [servicio : {"no", "parado", "corriendo", "marcado"}, auto : BOOLEAN,
          conf : CB(A, B) \cup {Ninguno}]
Ta(A, B) == [op : Ops, paso : Pasos, id : Ids \cup {Ninguno},
          copia : PB(A, B) \cup {Ninguno}, viva : BOOLEAN]

InvDatos ==
    /\ perfiles \in [Ids -> PB(autorizados, sinRevisar) \cup {Ninguno}]
    /\ arranque \in [Ids -> PB(autorizados, sinRevisar) \cup {Ninguno}]
    /\ fichero \in [Ids -> CB(autorizados, sinRevisar) \cup {Ninguno, Roto}]
    /\ tunel \in [Ids -> Tn(autorizados, sinRevisar)]
    /\ \A i \in Ids : corriendo(i) => tunel[i].conf \in CB(autorizados, sinRevisar)
    /\ tarea \in [Hilos -> Ta(autorizados, sinRevisar)]
    /\ \A h \in Hilos : ocupado(h) =>
          tarea[h].id \in Ids /\ tarea[h].copia \in PB(autorizados, sinRevisar)

InvCuentas ==
    /\ conocidos \subseteq Ids
    /\ porArrancar \in BOOLEAN
    /\ sistema \in {"windows", "linux"}
    /\ ediciones \in 0 .. MaxEdiciones /\ averias \in 0 .. MaxAverias
    /\ autorizados \subseteq Textos /\ sinRevisar \subseteq Textos
    /\ cruzados \subseteq Ids /\ huerfanos \subseteq Ids

\* A profile that is not marked has one handler, and wireguardAutoConnect has
\* nothing left to do on the profile of another one.
InvSolo ==
    \A i \in Ids \ cruzados :
        /\ \A g, h \in Hilos : (ocupado(g) /\ ocupado(h) /\ tarea[g].id = i
                                /\ tarea[h].id = i) => g = h
        /\ \A h \in Tareas : (ocupado(h) /\ tarea[h].id = i) => arranque[i] = Ninguno

\* A tunnel that is up for good, not one that is deleted already.
arriba(i) == tunel[i].servicio = "corriendo"

\* That handler has seen the tunnel down, before it touches the file; or, to
\* remove the file, it has deleted it.
InvQuieto ==
    \A h \in Hilos :
        /\ (/\ tarea[h].paso \in {"escribir", "borrar"}
            /\ tarea[h].id \notin cruzados) => ~corriendo(tarea[h].id)
        /\ (tarea[h].paso = "limpiar" /\ tarea[h].id \notin cruzados)
            => ~arriba(tarea[h].id)
        /\ tarea[h].paso = "borrar" => h \in Tareas

\* Nothing can bring up the tunnel of a profile that is gone.
InvSinPerfil ==
    \A i \in Ids \ (cruzados \cup huerfanos) : perfiles[i] = Ninguno =>
        /\ ~corriendo(i) /\ ~ocupada(i) /\ arranque[i] = Ninguno
        /\ existe(i) => fichero[i] \notin Conf

IInv == InvDatos /\ InvCuentas /\ InvSolo /\ InvQuieto /\ BajadaCoherente
        /\ InvSinPerfil

-----------------------------------------------------------------------------
(* Good profiles and files.                                                *)

LEMMA Crecen ==
    ASSUME NEW A, NEW B, NEW C, NEW D, A \subseteq C, B \subseteq D
    PROVE  PB(A, B) \subseteq PB(C, D) /\ CB(A, B) \subseteq CB(C, D)
BY DEF PB, CB

LEMMA Buenos ==
    ASSUME NEW A, NEW B
    PROVE  /\ PB(A, B) \subseteq Perfil /\ CB(A, B) \subseteq Conf
           /\ Ninguno \notin PB(A, B) /\ Ninguno \notin CB(A, B) /\ Roto \notin CB(A, B)
BY NingunoAssumption DEF PB, CB

\* What wgProfileConfig writes of a good profile is good.
LEMMA ConfigBuena ==
    ASSUME NEW A, NEW B, NEW p \in PB(A, B)
    PROVE  wgProfileConfig(p) \in CB(A, B)
BY DEF PB, CB, wgProfileConfig, Perfil, Conf

LEMMA RestauradoBueno ==
    ASSUME NEW A, NEW B, NEW p \in Perfil, propias(p.peers), p.tabla \subseteq A \cup B
    PROVE  restaurado(p) \in PB(A, B)
BY DEF PB, restaurado, Perfil

LEMMA Elementos ==
    ASSUME NEW S, NEW s \in Seq(S)
    PROVE  \A i \in DOMAIN s : s[i] \in S
<1>1. DOMAIN s = 1 .. Len(s)
    OBVIOUS
<1>. QED
    BY <1>1

\* Saving a form keeps keys with their peers.
LEMMA GuardadoBueno ==
    ASSUME NEW A, NEW B, NEW f \in Formulario, NEW previos \in Seq(Peer), propias(previos)
    PROVE  guardado(f, previos) \in PB(A \cup permitidos(f), B)
<1> DEFINE P == guardado(f, previos).peers
<1>1. f.peers \in Seq([pub : Pubs, nueva : BOOLEAN])
    BY DEF Formulario
<1>2. \A i \in DOMAIN f.peers : f.peers[i].pub \in Pubs
  <2>1. \A i \in DOMAIN f.peers : f.peers[i] \in [pub : Pubs, nueva : BOOLEAN]
      BY <1>1, Elementos
  <2>. QED
      BY <2>1
<1>3. \A i \in DOMAIN f.peers : conservarPsk(previos, f, i) \in {Ninguno, f.peers[i].pub}
    BY <1>2 DEF conservarPsk, propias
<1>4. P = [i \in DOMAIN f.peers |->
              [pub |-> f.peers[i].pub, psk |-> conservarPsk(previos, f, i)]]
    BY DEF guardado
<1>5. \A i \in DOMAIN f.peers : P[i] \in Peer /\ P[i].psk \in {Ninguno, P[i].pub}
    BY <1>2, <1>3, <1>4 DEF Peer
<1>6. P \in Seq(Peer)
  <2>1. DOMAIN f.peers = 1 .. Len(f.peers) /\ Len(f.peers) \in Nat
      BY <1>1
  <2>2. P \in [1 .. Len(f.peers) -> Peer]
      BY <1>4, <1>5, <2>1
  <2>. QED
      BY <2>1, <2>2
<1>7. propias(P)
    BY <1>4, <1>5 DEF propias
<1>8. /\ guardado(f, previos) = [texto |-> f.texto, hooks |-> f.hooks,
                                 tabla |-> f.tabla, auto |-> f.auto, peers |-> P]
      /\ f.texto \in Textos /\ f.hooks \in BOOLEAN /\ f.auto \in BOOLEAN
      /\ f.tabla \in SUBSET Textos
    BY DEF guardado, Formulario
<1> HIDE DEF P
<1>. QED
    BY <1>6, <1>7, <1>8 DEF PB, Perfil, permitidos

-----------------------------------------------------------------------------
(* Steps of a handler.                                                     *)

LEMMA LibreBuena == \A A, B : TareaLibre \in Ta(A, B)
BY DEF TareaLibre, Ta, Ops, Pasos

LEMMA Pasar ==
    ASSUME NEW A, NEW B, NEW h \in Hilos, NEW p \in Pasos,
           tarea \in [Hilos -> Ta(A, B)], pasar(h, p)
    PROVE  /\ tarea' \in [Hilos -> Ta(A, B)]
           /\ \A g \in Hilos \ {h} : tarea'[g] = tarea[g]
           /\ tarea'[h].paso = p /\ tarea'[h].id = tarea[h].id
           /\ tarea'[h].copia = tarea[h].copia /\ tarea'[h].op = tarea[h].op
BY DEF pasar, Ta

LEMMA Acabar ==
    ASSUME NEW A, NEW B, NEW h \in Hilos, tarea \in [Hilos -> Ta(A, B)], acabar(h)
    PROVE  /\ tarea' \in [Hilos -> Ta(A, B)]
           /\ \A g \in Hilos \ {h} : tarea'[g] = tarea[g]
           /\ tarea'[h].paso = "libre"
BY LibreBuena DEF acabar, TareaLibre

LEMMA Empezar ==
    ASSUME NEW A, NEW B, NEW h \in Hilos, NEW op \in Ops, NEW i \in Ids, NEW p \in PB(A, B),
           tarea \in [Hilos -> Ta(A, B)], empezar(h, op, i, p)
    PROVE  /\ tarea' \in [Hilos -> Ta(A, B)]
           /\ \A g \in Hilos \ {h} : tarea'[g] = tarea[g]
           /\ tarea'[h].paso = "mirar" /\ tarea'[h].id = i
           /\ tarea'[h].copia = p /\ tarea'[h].op = op
<1> DEFINE t == [TareaLibre EXCEPT !.op = op, !.paso = "mirar", !.id = i, !.copia = p]
<1>1. /\ t \in Ta(A, B) /\ t.paso = "mirar" /\ t.id = i /\ t.copia = p /\ t.op = op
    BY DEF TareaLibre, Ta, Pasos
<1>2. tarea' = [tarea EXCEPT ![h] = t]
    BY DEF empezar
<1> HIDE DEF t
<1>. QED
    BY <1>1, <1>2

-----------------------------------------------------------------------------
(* Three kinds of step: a handler goes on, the profiles change, the rest.  *)

\* A handler ends, or goes on with the same profile.
Avance(h) ==
    /\ tarea' \in [Hilos -> Ta(autorizados, sinRevisar)]
    /\ \A g \in Hilos \ {h} : tarea'[g] = tarea[g]
    /\ \/ tarea'[h].paso = "libre"
       \/ tarea'[h].id = tarea[h].id /\ tarea'[h].copia = tarea[h].copia

LEMMA AvancePasar ==
    ASSUME IInv, NEW h \in Hilos, NEW p \in Pasos, pasar(h, p)
    PROVE  Avance(h) /\ tarea'[h].paso = p
BY Pasar DEF IInv, InvDatos, Avance

LEMMA AvanceAcabar ==
    ASSUME IInv, NEW h \in Hilos, acabar(h)
    PROVE  Avance(h) /\ tarea'[h].paso = "libre"
BY Acabar DEF IInv, InvDatos, Avance

\* A step of a handler only has to answer for its own profile.
LEMMA PasoHilo ==
    ASSUME IInv, NEW h \in Hilos, ocupado(h), Avance(h),
           UNCHANGED <<perfiles, conocidos, inicio, sistema, ediciones, historia>>,
           averias' \in 0 .. MaxAverias,
           NEW i, i = tarea[h].id,
           tunel' \in [Ids -> Tn(autorizados, sinRevisar)],
           fichero' \in [Ids -> CB(autorizados, sinRevisar) \cup {Ninguno, Roto}],
           \A j \in Ids \ {i} : tunel'[j] = tunel[j] /\ fichero'[j] = fichero[j],
           corriendo(i)' => tunel'[i].conf \in CB(autorizados, sinRevisar),
           (arriba(i)' /\ i \notin cruzados) => fichero'[i] = tunel'[i].conf,
           (tarea'[h].paso \in {"escribir", "borrar"} /\ i \notin cruzados)
               => ~corriendo(i)',
           (tarea'[h].paso = "limpiar" /\ i \notin cruzados) => ~arriba(i)',
           tarea'[h].paso = "borrar" => h \in Tareas
    PROVE  IInv'
<1>1. i \in Ids
    BY DEF IInv, InvDatos
<1>2. \A g \in Hilos : ocupado(g)' => ocupado(g) /\ tarea'[g].id = tarea[g].id
                                      /\ tarea'[g].copia = tarea[g].copia
    BY DEF Avance, ocupado
<1>3. InvDatos'
  <2>1. \A j \in Ids : corriendo(j)' => tunel'[j].conf \in CB(autorizados, sinRevisar)
      BY DEF IInv, InvDatos, corriendo
  <2>2. \A g \in Hilos : ocupado(g)' =>
            tarea'[g].id \in Ids /\ tarea'[g].copia \in PB(autorizados, sinRevisar)
      BY <1>2 DEF IInv, InvDatos
  <2>. QED
      BY <2>1, <2>2 DEF IInv, InvDatos, inicio, historia, Avance
<1>4. InvCuentas'
    BY DEF IInv, InvCuentas, inicio, historia
<1>5. InvSolo'
    BY <1>2 DEF IInv, InvSolo, inicio, historia, Hilos
<1>6. InvQuieto'
  <2> SUFFICES ASSUME NEW g \in Hilos
               PROVE  /\ (/\ tarea'[g].paso \in {"escribir", "borrar"}
                          /\ tarea'[g].id \notin cruzados) => ~corriendo(tarea[g].id)'
                      /\ (tarea'[g].paso = "limpiar" /\ tarea'[g].id \notin cruzados)
                          => ~arriba(tarea[g].id)'
                      /\ tarea'[g].paso = "borrar" => g \in Tareas
      BY <1>2 DEF InvQuieto, historia, ocupado, corriendo, arriba
  <2>1. CASE g = h
      BY <2>1, <1>2 DEF ocupado
  <2>2. CASE g # h
    <3>1. tarea'[g] = tarea[g]
        BY <2>2 DEF Avance
    <3>2. (ocupado(g) /\ tarea[g].id \notin cruzados) => tarea[g].id \in Ids \ {i}
        BY <2>2 DEF IInv, InvDatos, InvSolo
    <3>. QED
        BY <3>1, <3>2 DEF IInv, InvQuieto, ocupado, corriendo, arriba
  <2>. QED
      BY <2>1, <2>2
<1>7. BajadaCoherente'
    BY DEF IInv, BajadaCoherente, historia, arriba
<1>8. InvSinPerfil'
  <2> SUFFICES ASSUME NEW j \in Ids \ (cruzados \cup huerfanos), perfiles[j] = Ninguno
               PROVE  /\ ~corriendo(j)' /\ ~ocupada(j)' /\ arranque[j] = Ninguno
                      /\ existe(j)' => fichero'[j] \notin Conf
      BY DEF InvSinPerfil, inicio, historia
  <2>1. /\ ~corriendo(j) /\ ~ocupada(j) /\ arranque[j] = Ninguno
        /\ existe(j) => fichero[j] \notin Conf
      BY DEF IInv, InvSinPerfil
  <2>2. j # i
      BY <2>1 DEF ocupada
  <2>. QED
      BY <1>2, <2>1, <2>2 DEF corriendo, existe, ocupada
<1>. QED
    BY <1>3, <1>4, <1>5, <1>6, <1>7, <1>8 DEF IInv

\* A change of the profiles has to mark those it takes from under a tunnel.
LEMMA PasoAlmacen ==
    ASSUME IInv, InvCuentas',
           UNCHANGED <<fichero, tunel, tarea, inicio, cruzados>>,
           autorizados \subseteq autorizados', sinRevisar \subseteq sinRevisar',
           huerfanos \subseteq huerfanos',
           perfiles' \in [Ids -> PB(autorizados', sinRevisar') \cup {Ninguno}],
           \A i \in Ids : perfiles'[i] = Ninguno =>
               \/ perfiles[i] = Ninguno
               \/ i \in huerfanos'
               \/ ~existe(i) /\ ~ocupada(i) /\ arranque[i] = Ninguno
    PROVE  IInv'
<1>1. /\ PB(autorizados, sinRevisar) \subseteq PB(autorizados', sinRevisar')
      /\ CB(autorizados, sinRevisar) \subseteq CB(autorizados', sinRevisar')
    BY Crecen
<1>2. Ta(autorizados, sinRevisar) \subseteq Ta(autorizados', sinRevisar')
    BY <1>1 DEF Ta
<1>3. Tn(autorizados, sinRevisar) \subseteq Tn(autorizados', sinRevisar')
    BY <1>1 DEF Tn
<1>4. InvDatos'
    BY <1>1, <1>2, <1>3 DEF IInv, InvDatos, inicio, corriendo, ocupado
<1>5. InvSolo'
    BY DEF IInv, InvSolo, inicio, ocupado
<1>6. InvQuieto' /\ BajadaCoherente'
    BY DEF IInv, InvQuieto, BajadaCoherente, corriendo, arriba
<1>7. InvSinPerfil'
    BY DEF IInv, InvSinPerfil, inicio, corriendo, existe, ocupada, ocupado
<1>. QED
    BY <1>4, <1>5, <1>6, <1>7 DEF IInv

-----------------------------------------------------------------------------
(* The steps of the handlers.                                              *)

\* A handler that only looks.
LEMMA PasoMirada ==
    ASSUME IInv, NEW h \in Hilos, ocupado(h), Avance(h), UNCHANGED <<fichero, tunel, resto>>,
           (tarea'[h].paso \in {"escribir", "borrar"}
            /\ tarea[h].id \notin cruzados) => ~corriendo(tarea[h].id),
           (tarea'[h].paso = "limpiar" /\ tarea[h].id \notin cruzados)
               => ~arriba(tarea[h].id),
           tarea'[h].paso = "borrar" => h \in Tareas
    PROVE  IInv'
<1>1. /\ tunel \in [Ids -> Tn(autorizados, sinRevisar)]
      /\ fichero \in [Ids -> CB(autorizados, sinRevisar) \cup {Ninguno, Roto}]
      /\ \A i \in Ids : corriendo(i) => tunel[i].conf \in CB(autorizados, sinRevisar)
      /\ averias \in 0 .. MaxAverias /\ tarea[h].id \in Ids
    BY DEF IInv, InvDatos, InvCuentas
<1>2. \A i \in Ids : arriba(i) /\ i \notin cruzados => fichero[i] = tunel[i].conf
    BY DEF IInv, BajadaCoherente, arriba
<1>3. /\ UNCHANGED <<perfiles, conocidos, inicio, sistema, ediciones, historia>>
      /\ UNCHANGED <<averias, fichero, tunel>>
    BY DEF resto, cuentas
<1>4. \A i : (corriendo(i)' <=> corriendo(i)) /\ (arriba(i)' <=> arriba(i))
    BY <1>3 DEF corriendo, arriba
<1>. QED
    BY <1>1, <1>2, <1>3, <1>4, PasoHilo

LEMMA PasoMiradas ==
    ASSUME IInv, NEW h \in Hilos,
           \/ Mirar(h)
           \/ h \in Tareas /\ (MirarDesconectar(h) \/ MirarEliminar(h))
    PROVE  IInv'
<1>1. CASE Mirar(h)
  <2>1. ocupado(h) /\ UNCHANGED <<fichero, tunel, resto>>
      BY <1>1 DEF Mirar, ocupado
  <2>2. CASE corriendo(tarea[h].id)
      BY <1>1, <2>1, <2>2, AvanceAcabar, PasoMirada DEF Mirar
  <2>3. CASE ~corriendo(tarea[h].id)
    <3>1. pasar(h, "escribir") /\ "escribir" \in Pasos
        BY <1>1, <2>3 DEF Mirar, Pasos
    <3>. QED
        BY <3>1, <2>1, <2>3, AvancePasar, PasoMirada
  <2>. QED
      BY <2>2, <2>3
<1>2. CASE MirarDesconectar(h)
  <2>1. ocupado(h) /\ UNCHANGED <<fichero, tunel, resto>>
      BY <1>2 DEF MirarDesconectar, ocupado
  <2>2. CASE existe(tarea[h].id)
    <3>1. pasar(h, "bajar") /\ "bajar" \in Pasos
        BY <1>2, <2>2 DEF MirarDesconectar, Pasos, Elevados
    <3>. QED
        BY <3>1, <2>1, AvancePasar, PasoMirada
  <2>3. CASE ~existe(tarea[h].id)
    <3>1. pasar(h, "limpiar") /\ "limpiar" \in Pasos /\ ~arriba(tarea[h].id)
        BY <1>2, <2>3 DEF MirarDesconectar, Pasos, existe, arriba
    <3>. QED
        BY <3>1, <2>1, AvancePasar, PasoMirada
  <2>. QED
      BY <2>2, <2>3
<1>3. CASE MirarEliminar(h) /\ h \in Tareas
  <2>1. ocupado(h) /\ UNCHANGED <<fichero, tunel, resto>>
      BY <1>3 DEF MirarEliminar, ocupado
  <2>2. CASE corriendo(tarea[h].id)
      BY <1>3, <2>1, <2>2, AvanceAcabar, PasoMirada DEF MirarEliminar
  <2>3. CASE ~corriendo(tarea[h].id)
    <3>1. pasar(h, "borrar") /\ "borrar" \in Pasos
        BY <1>3, <2>3 DEF MirarEliminar, Pasos
    <3>. QED
        BY <3>1, <2>1, <2>3, <1>3, AvancePasar, PasoMirada
  <2>. QED
      BY <2>2, <2>3
<1>. QED
    BY <1>1, <1>2, <1>3

LEMMA PasoSubir ==
    ASSUME IInv, NEW h \in Hilos, Subir(h)
    PROVE  IInv'
<1>1. ocupado(h) /\ UNCHANGED <<fichero, tunel, resto>>
    BY DEF Subir, ocupado
<1>2. CASE acabar(h)
    BY <1>1, <1>2, AvanceAcabar, PasoMirada
<1>3. CASE pasar(h, "reemplazar") \/ pasar(h, "quick")
  <2>1. "reemplazar" \in Pasos /\ "quick" \in Pasos
      BY DEF Pasos, Elevados
  <2>. QED
      BY <1>1, <1>3, <2>1, AvancePasar, PasoMirada
<1>. QED
    BY <1>2, <1>3 DEF Subir

\* A step that changes the tunnel or the file of its profile.
LEMMA PasoTunel ==
    ASSUME IInv, NEW h \in Hilos, ocupado(h), Avance(h), UNCHANGED <<fichero, resto>>,
           NEW t \in Tn(autorizados, sinRevisar),
           tunel' = [tunel EXCEPT ![tarea[h].id] = t],
           t.servicio \in {"corriendo", "marcado"} => t.conf \in CB(autorizados, sinRevisar),
           (t.servicio = "corriendo" /\ tarea[h].id \notin cruzados)
               => t.conf = fichero[tarea[h].id],
           tarea'[h].paso = "limpiar" => t.servicio # "corriendo",
           tarea'[h].paso \notin {"escribir", "borrar"}
    PROVE  IInv'
<1>0. PICK i : i = tarea[h].id
    OBVIOUS
<1>1. /\ tunel \in [Ids -> Tn(autorizados, sinRevisar)] /\ i \in Ids
      /\ fichero \in [Ids -> CB(autorizados, sinRevisar) \cup {Ninguno, Roto}]
      /\ averias \in 0 .. MaxAverias
    BY <1>0 DEF IInv, InvDatos, InvCuentas
<1>2. /\ UNCHANGED <<perfiles, conocidos, inicio, sistema, ediciones, historia>>
      /\ UNCHANGED <<averias, fichero, cruzados>>
    BY DEF resto, cuentas, historia
<1>3. /\ tunel' \in [Ids -> Tn(autorizados, sinRevisar)]
      /\ \A j \in Ids \ {i} : tunel'[j] = tunel[j]
      /\ tunel'[i] = t
    BY <1>0, <1>1
<1>4. /\ corriendo(i)' <=> t.servicio \in {"corriendo", "marcado"}
      /\ arriba(i)' <=> t.servicio = "corriendo"
    BY <1>3 DEF corriendo, arriba
<1>. QED
    BY <1>0, <1>1, <1>2, <1>3, <1>4, PasoHilo

\* The values the steps of a service give to its tunnel.
LEMMA Valores ==
    ASSUME IInv, NEW i \in Ids
    PROVE  /\ NoHay \in Tn(autorizados, sinRevisar) /\ NoHay.servicio = "no"
           /\ \A q \in BOOLEAN : LET p == [servicio |-> "parado", conf |-> Ninguno, auto |-> q] IN
                p \in Tn(autorizados, sinRevisar) /\ p.servicio = "parado"
           /\ sinServicio(i) = [tunel EXCEPT ![i] = NoHay]
           /\ \E t \in Tn(autorizados, sinRevisar) :
                t.servicio \in {"no", "parado"} /\ parado(i) = [tunel EXCEPT ![i] = t]
           /\ \E t \in Tn(autorizados, sinRevisar) :
                /\ t.servicio \in {"no", "marcado"}
                /\ t.servicio = "marcado" => t.conf \in CB(autorizados, sinRevisar)
                /\ borrado(i) = [tunel EXCEPT ![i] = t]
           /\ fichero[i] \in Conf => \E t \in Tn(autorizados, sinRevisar) :
                /\ t.servicio = "corriendo" /\ t.conf = fichero[i]
                /\ t.conf \in CB(autorizados, sinRevisar)
                /\ levantar(i) = [tunel EXCEPT ![i] = t]
           /\ tunel[i] \in Tn(autorizados, sinRevisar) /\ tunel = [tunel EXCEPT ![i] = tunel[i]]
<1>1. /\ tunel \in [Ids -> Tn(autorizados, sinRevisar)]
      /\ fichero \in [Ids -> CB(autorizados, sinRevisar) \cup {Ninguno, Roto}]
    BY DEF IInv, InvDatos
<1>2. NoHay \in Tn(autorizados, sinRevisar) /\ NoHay.servicio = "no"
    BY DEF NoHay, Tn
<1>3. \A q \in BOOLEAN : LET p == [servicio |-> "parado", conf |-> Ninguno, auto |-> q] IN
          p \in Tn(autorizados, sinRevisar) /\ p.servicio = "parado"
    BY DEF Tn
<1>4. \E t \in Tn(autorizados, sinRevisar) :
          t.servicio \in {"no", "parado"} /\ parado(i) = [tunel EXCEPT ![i] = t]
  <2> DEFINE t == IF tunel[i].servicio = "marcado" THEN NoHay
                  ELSE [tunel[i] EXCEPT !.servicio = "parado", !.conf = Ninguno]
  <2>1. t \in Tn(autorizados, sinRevisar) /\ t.servicio \in {"no", "parado"}
      BY <1>1, <1>2 DEF Tn
  <2>2. parado(i) = [tunel EXCEPT ![i] = t]
      BY <1>1 DEF parado, sinServicio, Tn
  <2> HIDE DEF t
  <2>. QED
      BY <2>1, <2>2
<1>6. \E t \in Tn(autorizados, sinRevisar) :
          /\ t.servicio \in {"no", "marcado"}
          /\ t.servicio = "marcado" => t.conf \in CB(autorizados, sinRevisar)
          /\ borrado(i) = [tunel EXCEPT ![i] = t]
  <2>1. CASE corriendo(i)
    <3> DEFINE t == [tunel[i] EXCEPT !.servicio = "marcado"]
    <3>1. t \in Tn(autorizados, sinRevisar) /\ t.servicio = "marcado"
          /\ t.conf = tunel[i].conf
        BY <1>1 DEF Tn
    <3>2. borrado(i) = [tunel EXCEPT ![i] = t]
        BY <1>1, <2>1 DEF borrado, Tn
    <3>3. tunel[i].conf \in CB(autorizados, sinRevisar)
        BY <2>1 DEF IInv, InvDatos
    <3> HIDE DEF t
    <3>. QED
        BY <3>1, <3>2, <3>3
  <2>2. CASE ~corriendo(i)
      BY <1>2, <2>2 DEF borrado, sinServicio
  <2>. QED
      BY <2>1, <2>2
<1>5. ASSUME fichero[i] \in Conf
      PROVE  \E t \in Tn(autorizados, sinRevisar) :
                /\ t.servicio = "corriendo" /\ t.conf = fichero[i]
                /\ t.conf \in CB(autorizados, sinRevisar)
                /\ levantar(i) = [tunel EXCEPT ![i] = t]
  <2> DEFINE t == [tunel[i] EXCEPT !.servicio = "corriendo", !.conf = fichero[i]]
  <2>1. fichero[i] \in CB(autorizados, sinRevisar)
      BY <1>1, <1>5, NingunoAssumption
  <2>2. t \in Tn(autorizados, sinRevisar) /\ t.servicio = "corriendo" /\ t.conf = fichero[i]
      BY <1>1, <2>1 DEF Tn
  <2>3. levantar(i) = [tunel EXCEPT ![i] = t]
      BY <1>1 DEF levantar, Tn
  <2> HIDE DEF t
  <2>. QED
      BY <2>1, <2>2, <2>3
<1>. QED
    BY <1>1, <1>2, <1>3, <1>4, <1>5, <1>6 DEF sinServicio

\* A deletion leaves no service, or one that goes when it ends.
LEMMA PasoBorrado ==
    ASSUME IInv, NEW h \in Hilos, ocupado(h), Avance(h), UNCHANGED <<fichero, resto>>,
           \/ tunel' = sinServicio(tarea[h].id)
           \/ tunel' = parado(tarea[h].id)
           \/ tunel' = borrado(tarea[h].id),
           tarea'[h].paso \notin {"escribir", "borrar"}
    PROVE  IInv'
<1>1. tarea[h].id \in Ids
    BY DEF IInv, InvDatos
<1>2. PICK t \in Tn(autorizados, sinRevisar) :
          /\ t.servicio \in {"no", "parado", "marcado"}
          /\ t.servicio = "marcado" => t.conf \in CB(autorizados, sinRevisar)
          /\ tunel' = [tunel EXCEPT ![tarea[h].id] = t]
    BY <1>1, Valores
<1>. QED
    BY <1>2, PasoTunel

LEMMA PasoServicio ==
    ASSUME IInv, NEW h \in Hilos,
           Quick(h) \/ Reemplazar(h) \/ Crear(h) \/ Arrancar(h) \/ Esperar(h)
    PROVE  IInv'
<1>1. ocupado(h) /\ UNCHANGED <<fichero, resto>>
    BY DEF Quick, Reemplazar, Crear, Arrancar, Esperar, ocupado
<1>2. PICK i \in Ids : i = tarea[h].id
    BY <1>1 DEF IInv, InvDatos
<1>3. {"crear", "arrancar", "esperar"} \subseteq Pasos
    BY DEF Pasos, Elevados
<1>4. CASE tunel' = tunel
  <2>1. Avance(h) /\ tarea'[h].paso \notin {"escribir", "limpiar", "borrar"}
    <3>1. acabar(h) \/ \E p \in {"crear", "arrancar", "esperar"} : pasar(h, p)
        BY DEF Quick, Reemplazar, Crear, Arrancar, Esperar
    <3>. QED
        BY <3>1, <1>3, AvanceAcabar, AvancePasar
  <2>. QED
      BY <1>1, <1>4, <2>1, PasoMirada
<1>5. CASE /\ \/ tunel' = sinServicio(i)
              \/ tunel' = parado(i)
              \/ tunel' = borrado(i)
           /\ acabar(h) \/ pasar(h, "crear")
  <2>1. Avance(h) /\ tarea'[h].paso \notin {"escribir", "limpiar", "borrar"}
      BY <1>5, <1>3, AvanceAcabar, AvancePasar
  <2>. QED
      BY <1>1, <1>2, <1>5, <2>1, PasoBorrado
<1>6. CASE /\ tunel' = levantar(i) /\ fichero[i] \in Conf
           /\ acabar(h) \/ pasar(h, "esperar")
  <2>1. Avance(h) /\ tarea'[h].paso \notin {"escribir", "limpiar", "borrar"}
      BY <1>6, <1>3, AvanceAcabar, AvancePasar
  <2>2. PICK t \in Tn(autorizados, sinRevisar) :
            /\ t.servicio = "corriendo" /\ t.conf = fichero[i]
            /\ t.conf \in CB(autorizados, sinRevisar)
            /\ tunel' = [tunel EXCEPT ![i] = t]
      BY <1>6, Valores
  <2>. QED
      BY <1>1, <1>2, <2>1, <2>2, PasoTunel
<1>7. CASE /\ tunel' = [tunel EXCEPT ![i] = [servicio |-> "parado", conf |-> Ninguno,
                                             auto |-> tarea[h].copia.auto]]
           /\ pasar(h, "arrancar") \/ acabar(h)
  <2>1. Avance(h) /\ tarea'[h].paso \notin {"escribir", "limpiar", "borrar"}
      BY <1>7, <1>3, AvanceAcabar, AvancePasar
  <2>2. tarea[h].copia.auto \in BOOLEAN
      BY <1>1, Buenos DEF IInv, InvDatos, Perfil
  <2>3. PICK t \in Tn(autorizados, sinRevisar) :
            t.servicio = "parado" /\ tunel' = [tunel EXCEPT ![i] = t]
      BY <1>7, <2>2, Valores
  <2>. QED
      BY <1>1, <1>2, <2>1, <2>3, PasoTunel
<1>. QED
  <2>1. CASE Quick(h)
      BY <2>1, <1>2, <1>4, <1>6 DEF Quick
  <2>2. CASE Reemplazar(h)
      BY <2>2, <1>2, <1>4, <1>5 DEF Reemplazar
  <2>3. CASE Crear(h)
      BY <2>3, <1>2, <1>4, <1>7 DEF Crear
  <2>4. CASE Arrancar(h)
      BY <2>4, <1>2, <1>4, <1>5, <1>6 DEF Arrancar
  <2>5. CASE Esperar(h)
      BY <2>5, <1>2, <1>4, <1>5 DEF Esperar
  <2>. QED
      BY <2>1, <2>2, <2>3, <2>4, <2>5

LEMMA PasoBajar ==
    ASSUME IInv, NEW h \in Hilos, Bajar(h)
    PROVE  IInv'
<1>1. ocupado(h) /\ UNCHANGED <<fichero, resto>>
    BY DEF Bajar, ocupado
<1>2. PICK i \in Ids : i = tarea[h].id
    BY <1>1 DEF IInv, InvDatos
<1>3. "limpiar" \in Pasos
    BY DEF Pasos
<1>4. Avance(h) /\ tarea'[h].paso \in {"libre", "limpiar"}
  <2>1. acabar(h) \/ pasar(h, "limpiar")
      BY DEF Bajar
  <2>. QED
      BY <2>1, <1>3, AvanceAcabar, AvancePasar
<1>5. CASE tunel' = tunel /\ acabar(h)
  <2>1. Avance(h) /\ tarea'[h].paso = "libre"
      BY <1>5, AvanceAcabar
  <2>. QED
      BY <1>1, <1>5, <2>1, PasoMirada
<1>6. CASE tunel' = sinServicio(i) \/ tunel' = parado(i) \/ tunel' = borrado(i)
    BY <1>1, <1>2, <1>4, <1>6, PasoBorrado
<1>. QED
    BY <1>2, <1>5, <1>6 DEF Bajar

LEMMA PasoEscribir ==
    ASSUME IInv, NEW h \in Hilos, Escribir(h)
    PROVE  IInv'
<1>1. /\ ocupado(h) /\ tarea[h].paso = "escribir"
      /\ UNCHANGED <<perfiles, conocidos, tunel, inicio, sistema, ediciones, historia>>
    BY DEF Escribir, ocupado
<1>2. PICK i \in Ids : i = tarea[h].id
    BY <1>1 DEF IInv, InvDatos
<1>3. CASE acabar(h) /\ UNCHANGED <<fichero, averias>>
  <2>1. UNCHANGED <<fichero, tunel, resto>>
      BY <1>1, <1>3 DEF resto, cuentas
  <2>2. Avance(h) /\ tarea'[h].paso = "libre"
      BY <1>3, AvanceAcabar
  <2>. QED
      BY <1>1, <2>1, <2>2, PasoMirada
<1>4. ASSUME NEW c \in CB(autorizados, sinRevisar) \cup {Roto},
             fichero' = [fichero EXCEPT ![i] = c],
             averias' \in 0 .. MaxAverias,
             Avance(h), tarea'[h].paso \in {"libre", "subir"}
      PROVE  IInv'
  <2>1. /\ tunel \in [Ids -> Tn(autorizados, sinRevisar)]
        /\ fichero' \in [Ids -> CB(autorizados, sinRevisar) \cup {Ninguno, Roto}]
        /\ \A j \in Ids \ {i} : fichero'[j] = fichero[j]
        /\ \A j \in Ids : corriendo(j) => tunel[j].conf \in CB(autorizados, sinRevisar)
      BY <1>4 DEF IInv, InvDatos
  <2>2. i \notin cruzados => ~corriendo(i)
      BY <1>1, <1>2 DEF IInv, InvQuieto
  <2>3. (corriendo(i)' <=> corriendo(i)) /\ (arriba(i)' => corriendo(i))
      BY <1>1 DEF corriendo, arriba
  <2>. QED
      BY <1>1, <1>2, <1>4, <2>1, <2>2, <2>3, PasoHilo
<1>5. CASE /\ fichero' = [fichero EXCEPT ![i] = wgProfileConfig(tarea[h].copia)]
           /\ pasar(h, "subir") /\ UNCHANGED averias
  <2>1. wgProfileConfig(tarea[h].copia) \in CB(autorizados, sinRevisar)
      BY <1>1, ConfigBuena DEF IInv, InvDatos
  <2>2. Avance(h) /\ tarea'[h].paso = "subir"
    <3>1. "subir" \in Pasos
        BY DEF Pasos
    <3>. QED
        BY <3>1, <1>5, AvancePasar
  <2>3. averias' \in 0 .. MaxAverias
      BY <1>5 DEF IInv, InvCuentas
  <2>. QED
      BY <1>4, <1>5, <2>1, <2>2, <2>3
<1>6. CASE averiar /\ fichero' = [fichero EXCEPT ![i] = Roto] /\ acabar(h)
  <2>1. averias' \in 0 .. MaxAverias
      BY <1>6, CotasAssumption DEF averiar, IInv, InvCuentas
  <2>2. Avance(h) /\ tarea'[h].paso = "libre"
      BY <1>6, AvanceAcabar
  <2>. QED
      BY <1>4, <1>6, <2>1, <2>2
<1>. QED
    BY <1>2, <1>3, <1>5, <1>6 DEF Escribir

LEMMA PasoLimpiar ==
    ASSUME IInv, NEW h \in Hilos, Limpiar(h)
    PROVE  IInv'
<1>1. /\ ocupado(h) /\ tarea[h].paso = "limpiar"
      /\ UNCHANGED <<perfiles, conocidos, tunel, inicio, sistema, ediciones, historia>>
      /\ UNCHANGED averias
    BY DEF Limpiar, ocupado, resto, cuentas
<1>2. PICK i \in Ids : i = tarea[h].id
    BY <1>1 DEF IInv, InvDatos
<1>3. Avance(h) /\ tarea'[h].paso = "libre"
    BY AvanceAcabar DEF Limpiar
<1>4. /\ tunel \in [Ids -> Tn(autorizados, sinRevisar)]
      /\ fichero' \in [Ids -> CB(autorizados, sinRevisar) \cup {Ninguno, Roto}]
      /\ \A j \in Ids \ {i} : fichero'[j] = fichero[j]
      /\ \A j \in Ids : corriendo(j) => tunel[j].conf \in CB(autorizados, sinRevisar)
      /\ averias \in 0 .. MaxAverias
    BY <1>2 DEF IInv, InvDatos, InvCuentas, Limpiar
<1>5. i \notin cruzados => ~arriba(i)
    BY <1>1, <1>2 DEF IInv, InvQuieto
<1>6. (corriendo(i)' <=> corriendo(i)) /\ (arriba(i)' <=> arriba(i))
    BY <1>1 DEF corriendo, arriba
<1>. QED
    BY <1>1, <1>2, <1>3, <1>4, <1>5, <1>6, PasoHilo

\* The profile goes with the file of a tunnel that is down, and no other
\* handler is about to bring it up.
LEMMA PasoBorrar ==
    ASSUME IInv, NEW h \in Hilos, Borrar(h)
    PROVE  IInv'
<1>1. /\ ocupado(h) /\ tarea[h].paso = "borrar" /\ h \in Tareas
      /\ UNCHANGED <<conocidos, tunel, inicio, sistema, ediciones, autorizados,
                     sinRevisar, cruzados>>
    BY DEF Borrar, ocupado, IInv, InvQuieto
<1>2. PICK i \in Ids : i = tarea[h].id
    BY <1>1 DEF IInv, InvDatos
<1>3. Avance(h) /\ tarea'[h].paso = "libre"
    BY AvanceAcabar DEF Borrar
<1>4. CASE perfiles[i] = Ninguno
  <2>1. UNCHANGED <<fichero, tunel, resto>>
      BY <1>1, <1>2, <1>4 DEF Borrar, resto, cuentas, historia
  <2>. QED
      BY <1>1, <1>3, <2>1, PasoMirada
<1>5. CASE perfiles[i] # Ninguno
  <2>1. /\ fichero' = [fichero EXCEPT ![i] = Ninguno]
        /\ \/ /\ perfiles' = [perfiles EXCEPT ![i] = Ninguno]
              /\ UNCHANGED <<averias, huerfanos>>
           \/ /\ averiar
              /\ perfiles' \in {perfiles, Vacio}
              /\ huerfanar(perfiles')
      BY <1>2, <1>5 DEF Borrar
  <2>2. /\ i \notin cruzados => ~corriendo(i) /\ arranque[i] = Ninguno
        /\ \A g \in Hilos \ {h} : i \notin cruzados /\ ocupado(g) => tarea[g].id # i
      BY <1>1, <1>2 DEF IInv, InvQuieto, InvSolo
  <2>3. \A j \in Ids : corriendo(j)' <=> corriendo(j)
      BY <1>1 DEF corriendo
  <2>4. ~ocupado(h)' /\ \A g \in Hilos \ {h} : tarea'[g] = tarea[g]
      BY <1>3 DEF ocupado, Avance
  <2>5. InvDatos'
    <3>1. perfiles' \in [Ids -> PB(autorizados, sinRevisar) \cup {Ninguno}]
        BY <2>1 DEF IInv, InvDatos, Vacio
    <3>2. fichero' \in [Ids -> CB(autorizados, sinRevisar) \cup {Ninguno, Roto}]
        BY <2>1 DEF IInv, InvDatos
    <3>3. \A j \in Ids : corriendo(j)' => tunel'[j].conf \in CB(autorizados, sinRevisar)
        BY <1>1, <2>3 DEF IInv, InvDatos
    <3>4. \A g \in Hilos : ocupado(g)' =>
              tarea'[g].id \in Ids /\ tarea'[g].copia \in PB(autorizados, sinRevisar)
        BY <2>4 DEF IInv, InvDatos, ocupado
    <3>. QED
        BY <1>1, <1>3, <3>1, <3>2, <3>3, <3>4 DEF IInv, InvDatos, inicio, Avance
  <2>6. InvCuentas'
      BY <1>1, <2>1, CotasAssumption
      DEF IInv, InvCuentas, inicio, averiar, huerfanar, sueltos
  <2>7. InvSolo'
      BY <1>1, <2>4 DEF IInv, InvSolo, inicio, ocupado, Hilos
  <2>8. InvQuieto'
    <3> SUFFICES ASSUME NEW g \in Hilos \ {h}
                 PROVE  /\ (/\ tarea[g].paso \in {"escribir", "borrar"}
                            /\ tarea[g].id \notin cruzados) => ~corriendo(tarea[g].id)
                        /\ (tarea[g].paso = "limpiar" /\ tarea[g].id \notin cruzados)
                            => ~arriba(tarea[g].id)
                        /\ tarea[g].paso = "borrar" => g \in Tareas
        BY <1>1, <1>3, <2>4 DEF InvQuieto, corriendo, arriba
    <3>. QED
        BY DEF IInv, InvQuieto
  <2>9. BajadaCoherente'
    <3> SUFFICES ASSUME NEW j \in Ids, arriba(j), j \notin cruzados
                 PROVE  fichero'[j] = tunel[j].conf
        BY <1>1 DEF BajadaCoherente, arriba
    <3>1. corriendo(j)
        BY DEF arriba, corriendo
    <3>. QED
        BY <2>1, <2>2, <3>1 DEF IInv, BajadaCoherente, InvDatos, arriba
  <2>10. InvSinPerfil'
    <3> SUFFICES ASSUME NEW j \in Ids \ (cruzados \cup huerfanos'), perfiles'[j] = Ninguno
                 PROVE  /\ ~corriendo(j) /\ ~ocupada(j)' /\ arranque[j] = Ninguno
                        /\ existe(j) => fichero'[j] \notin Conf
        BY <1>1, <2>3 DEF InvSinPerfil, inicio, existe
    <3>1. huerfanos \subseteq huerfanos'
        BY <2>1 DEF huerfanar
    <3>2. ocupada(j)' => ocupada(j)
        BY <2>4 DEF ocupada, ocupado
    <3>3. CASE perfiles[j] = Ninguno
      <4>1. j # i
          BY <1>5, <3>3
      <4>. QED
          BY <2>1, <3>1, <3>2, <3>3, <4>1 DEF IInv, InvSinPerfil, InvDatos
    <3>4. CASE perfiles[j] # Ninguno /\ j # i
      <4>1. averiar /\ huerfanar(perfiles')
          BY <2>1, <3>4 DEF IInv, InvDatos
      <4>2. j \in sueltos(perfiles') \/ (~existe(j) /\ ~ocupada(j) /\ arranque[j] = Ninguno)
          BY <3>4 DEF sueltos
      <4>. QED
          BY <3>2, <4>1, <4>2 DEF huerfanar, existe, corriendo
    <3>5. CASE j = i
      <4>1. ~corriendo(j) /\ arranque[j] = Ninguno /\ ~ocupada(j)'
          BY <2>2, <2>4, <3>5 DEF ocupada, ocupado
      <4>2. fichero'[j] = Ninguno
          BY <2>1, <3>5 DEF IInv, InvDatos
      <4>. QED
          BY <4>1, <4>2, NingunoAssumption
    <3>. QED
        BY <3>3, <3>4, <3>5
  <2>. QED
      BY <2>5, <2>6, <2>7, <2>8, <2>9, <2>10 DEF IInv
<1>. QED
    BY <1>4, <1>5

-----------------------------------------------------------------------------
(* The beginning of the handlers.                                          *)

\* A handler starts on a profile: if there is another one, or the goroutine
\* has yet to look at it, the profile is marked.
LEMMA PasoEmpezar ==
    ASSUME IInv, NEW h \in Hilos, ~ocupado(h), NEW op \in Ops, NEW i \in Ids,
           NEW p \in PB(autorizados, sinRevisar), empezar(h, op, i, p),
           UNCHANGED <<perfiles, conocidos, fichero, tunel, porArrancar, sistema,
                       cuentas, autorizados, sinRevisar, huerfanos>>,
           IF h = AlArrancar
           THEN arranque[i] # Ninguno /\ arranque' = [arranque EXCEPT ![i] = Ninguno]
           ELSE perfiles[i] # Ninguno /\ UNCHANGED arranque
    PROVE  IInv'
<1>1. /\ tarea' \in [Hilos -> Ta(autorizados, sinRevisar)]
      /\ \A g \in Hilos \ {h} : tarea'[g] = tarea[g]
      /\ tarea'[h].paso = "mirar" /\ tarea'[h].id = i /\ tarea'[h].copia = p
    BY Empezar DEF IInv, InvDatos
<1>2. /\ arranque' \in [Ids -> PB(autorizados, sinRevisar) \cup {Ninguno}]
      /\ \A j \in Ids : arranque'[j] \in {arranque[j], Ninguno}
    BY DEF IInv, InvDatos
<1>3. /\ cruzados \subseteq cruzados' /\ cruzados' \subseteq cruzados \cup {i}
      /\ i \notin cruzados' =>
            /\ \A g \in Hilos \ {h} : ocupado(g) => tarea[g].id # i
            /\ h # AlArrancar => arranque[i] = Ninguno
    BY DEF empezar, cruzar
<1>4. /\ \A j \in Ids : (corriendo(j)' <=> corriendo(j)) /\ (arriba(j)' <=> arriba(j))
      /\ \A g \in Hilos \ {h} : ocupado(g)' <=> ocupado(g)
    BY <1>1 DEF corriendo, arriba, ocupado
<1>5. InvDatos'
  <2>1. \A j \in Ids : corriendo(j)' => tunel'[j].conf \in CB(autorizados, sinRevisar)
      BY <1>4 DEF IInv, InvDatos
  <2>2. \A g \in Hilos : ocupado(g)' =>
            tarea'[g].id \in Ids /\ tarea'[g].copia \in PB(autorizados, sinRevisar)
      BY <1>1, <1>4 DEF IInv, InvDatos
  <2>. QED
      BY <1>1, <1>2, <2>1, <2>2 DEF IInv, InvDatos
<1>6. InvCuentas'
    BY <1>3 DEF IInv, InvCuentas, cuentas
<1>7. InvSolo'
  <2> SUFFICES ASSUME NEW j \in Ids \ cruzados'
               PROVE  /\ \A g, k \in Hilos : (ocupado(g)' /\ ocupado(k)' /\ tarea'[g].id = j
                                              /\ tarea'[k].id = j) => g = k
                      /\ \A g \in Tareas : (ocupado(g)' /\ tarea'[g].id = j)
                                              => arranque'[j] = Ninguno
      BY DEF InvSolo
  <2>1. /\ \A g, k \in Hilos : (ocupado(g) /\ ocupado(k) /\ tarea[g].id = j
                                /\ tarea[k].id = j) => g = k
        /\ \A g \in Tareas : (ocupado(g) /\ tarea[g].id = j) => arranque[j] = Ninguno
      BY <1>3 DEF IInv, InvSolo
  <2>2. ASSUME NEW g \in Hilos, ocupado(g)', tarea'[g].id = j, g # h
        PROVE  ocupado(g) /\ tarea[g].id = j /\ ~(ocupado(h)' /\ tarea'[h].id = j)
      BY <1>1, <1>3, <1>4, <2>2
  <2>3. \A g, k \in Hilos : (ocupado(g)' /\ ocupado(k)' /\ tarea'[g].id = j
                             /\ tarea'[k].id = j) => g = k
      BY <2>1, <2>2
  <2>4. \A g \in Tareas : (ocupado(g)' /\ tarea'[g].id = j) => arranque'[j] = Ninguno
      BY <1>1, <1>2, <1>3, <2>1, <2>2, NingunoAssumption DEF Hilos
  <2>. QED
      BY <2>3, <2>4
<1>8. InvQuieto'
  <2> SUFFICES ASSUME NEW g \in Hilos
               PROVE  /\ (/\ tarea'[g].paso \in {"escribir", "borrar"}
                          /\ tarea'[g].id \notin cruzados') => ~corriendo(tarea'[g].id)
                      /\ (tarea'[g].paso = "limpiar" /\ tarea'[g].id \notin cruzados')
                          => ~arriba(tarea'[g].id)
                      /\ tarea'[g].paso = "borrar" => g \in Tareas
      BY DEF InvQuieto, corriendo, arriba
  <2>1. CASE g = h
      BY <1>1, <2>1
  <2>2. CASE g # h
      BY <1>1, <1>3, <2>2 DEF IInv, InvQuieto
  <2>. QED
      BY <2>1, <2>2
<1>9. BajadaCoherente'
    BY <1>3, <1>4 DEF IInv, BajadaCoherente, arriba
<1>10. InvSinPerfil'
  <2> SUFFICES ASSUME NEW j \in Ids \ (cruzados' \cup huerfanos), perfiles[j] = Ninguno
               PROVE  /\ ~corriendo(j) /\ ~ocupada(j)' /\ arranque'[j] = Ninguno
                      /\ existe(j) => fichero[j] \notin Conf
      BY <1>4 DEF InvSinPerfil, existe
  <2>1. /\ ~corriendo(j) /\ ~ocupada(j) /\ arranque[j] = Ninguno
        /\ existe(j) => fichero[j] \notin Conf
      BY <1>3 DEF IInv, InvSinPerfil
  <2>2. j # i
      BY <2>1
  <2>3. ~ocupada(j)'
      BY <1>1, <1>4, <2>1, <2>2 DEF ocupada
  <2>. QED
      BY <1>2, <2>1, <2>3
<1>. QED
    BY <1>5, <1>6, <1>7, <1>8, <1>9, <1>10 DEF IInv

LEMMA PasoLeer ==
    ASSUME IInv, NEW h \in Tareas, NEW i \in Ids,
           NEW op \in {"conectar", "desconectar", "eliminar"}, Leer(h, op, i)
    PROVE  IInv'
<1>1. h \in Hilos /\ h # AlArrancar /\ op \in Ops
    BY NingunoAssumption DEF Hilos, Ops
<1>2. perfiles[i] \in PB(autorizados, sinRevisar) /\ perfiles[i] # Ninguno
    BY DEF Leer, IInv, InvDatos
<1>3. /\ ~ocupado(h) /\ empezar(h, op, i, perfiles[i])
      /\ UNCHANGED <<perfiles, conocidos, fichero, tunel, porArrancar, sistema,
                     cuentas, autorizados, sinRevisar, huerfanos>>
      /\ UNCHANGED arranque
    BY DEF Leer, inicio
<1>. QED
    BY <1>1, <1>2, <1>3, PasoEmpezar

LEMMA PasoAutoSiguiente ==
    ASSUME IInv, NEW i \in Ids, AutoSiguiente(i)
    PROVE  IInv'
<1>1. AlArrancar \in Hilos /\ "conectar" \in Ops
    BY DEF Hilos, Ops
<1>2. arranque[i] \in PB(autorizados, sinRevisar)
    BY DEF AutoSiguiente, IInv, InvDatos
<1>. QED
    BY <1>1, <1>2, PasoEmpezar DEF AutoSiguiente

LEMMA PasoAutoLeer ==
    ASSUME IInv, AutoLeer
    PROVE  IInv'
<1>1. /\ UNCHANGED <<perfiles, conocidos, fichero, tunel, tarea, sistema>>
      /\ UNCHANGED <<ediciones, averias, autorizados, sinRevisar, huerfanos>>
      /\ porArrancar' = FALSE
    BY DEF AutoLeer, cuentas
<1>2. /\ arranque' \in [Ids -> PB(autorizados, sinRevisar) \cup {Ninguno}]
      /\ \A i \in Ids : perfiles[i] = Ninguno => arranque'[i] = Ninguno
    BY DEF AutoLeer, Vacio, IInv, InvDatos
<1>3. cruzados' = cruzados \cup {i \in Ids : arranque'[i] # Ninguno /\ ocupada(i)}
    BY DEF AutoLeer
<1>4. InvDatos'
    BY <1>1, <1>2 DEF IInv, InvDatos, corriendo, ocupado
<1>5. InvCuentas'
    BY <1>1, <1>3 DEF IInv, InvCuentas
<1>6. InvSolo'
    BY <1>1, <1>3 DEF IInv, InvSolo, ocupado, ocupada, Hilos
<1>7. InvQuieto' /\ BajadaCoherente'
    BY <1>1, <1>3 DEF IInv, InvQuieto, BajadaCoherente, corriendo, arriba
<1>8. InvSinPerfil'
    BY <1>1, <1>2, <1>3 DEF IInv, InvSinPerfil, corriendo, existe, ocupada, ocupado
<1>. QED
    BY <1>4, <1>5, <1>6, <1>7, <1>8 DEF IInv

-----------------------------------------------------------------------------
(* The user and the world.                                                 *)

LEMMA PasoGuardar ==
    ASSUME IInv, NEW i \in Ids, NEW f \in Formularios, Guardar(i, f)
    PROVE  IInv'
<1>1. f \in Formulario /\ permitidos(f) \subseteq Textos
    BY EntradasAssumption DEF Formulario, permitidos
<1>2. PICK previos : /\ previos = IF perfiles[i] = Ninguno THEN <<>> ELSE perfiles[i].peers
                     /\ perfiles' = [perfiles EXCEPT ![i] = guardado(f, previos)]
    BY DEF Guardar
<1>3. previos \in Seq(Peer) /\ propias(previos)
  <2>1. CASE perfiles[i] = Ninguno
      BY <1>2, <2>1 DEF propias
  <2>2. CASE perfiles[i] # Ninguno
    <3>1. perfiles[i] \in PB(autorizados, sinRevisar)
        BY <2>2 DEF IInv, InvDatos
    <3>. QED
        BY <1>2, <2>2, <3>1 DEF PB, Perfil
  <2>. QED
      BY <2>1, <2>2
<1>4. autorizados' = autorizados \cup permitidos(f) /\ sinRevisar' = sinRevisar
    BY DEF Guardar
<1>5. guardado(f, previos) \in PB(autorizados', sinRevisar')
    BY <1>1, <1>3, <1>4, GuardadoBueno
<1>6. /\ autorizados \subseteq autorizados' /\ sinRevisar \subseteq sinRevisar'
      /\ PB(autorizados, sinRevisar) \subseteq PB(autorizados', sinRevisar')
  <2>1. autorizados \subseteq autorizados' /\ sinRevisar \subseteq sinRevisar'
      BY <1>4
  <2>. QED
      BY <2>1, Crecen
<1>7. /\ UNCHANGED <<fichero, tunel, tarea, inicio, cruzados>>
      /\ UNCHANGED <<sistema, averias, huerfanos>>
      /\ ediciones' \in 0 .. MaxEdiciones
      /\ conocidos' = conocidos \cup {i}
    BY CotasAssumption DEF Guardar, editar, IInv, InvCuentas
<1>8. InvCuentas'
    BY <1>1, <1>4, <1>7 DEF IInv, InvCuentas, inicio
<1>9. perfiles' \in [Ids -> PB(autorizados', sinRevisar') \cup {Ninguno}]
    BY <1>2, <1>5, <1>6 DEF IInv, InvDatos
<1>10. \A j \in Ids : perfiles'[j] = Ninguno => perfiles[j] = Ninguno
    BY <1>2, <1>5, Buenos DEF IInv, InvDatos
<1>. QED
    BY <1>6, <1>7, <1>8, <1>9, <1>10, PasoAlmacen

LEMMA PasoImportarConf ==
    ASSUME IInv, NEW i \in Ids, NEW c \in Importables, ImportarConf(i, c)
    PROVE  IInv'
<1> DEFINE p == [texto |-> c.texto, hooks |-> FALSE, tabla |-> {}, auto |-> FALSE,
                 peers |-> c.peers]
<1>1. p \in PB(autorizados, sinRevisar)
    BY EntradasAssumption DEF PB, Perfil
<1>2. perfiles' = [perfiles EXCEPT ![i] = p]
    BY DEF ImportarConf
<1>3. /\ UNCHANGED <<fichero, tunel, tarea, inicio, cruzados>>
      /\ UNCHANGED <<sistema, averias, autorizados, sinRevisar, huerfanos>>
      /\ ediciones' \in 0 .. MaxEdiciones
      /\ conocidos' = conocidos \cup {i}
    BY CotasAssumption DEF ImportarConf, editar, historia, IInv, InvCuentas
<1> HIDE DEF p
<1>4. InvCuentas'
    BY <1>3 DEF IInv, InvCuentas, inicio
<1>5. perfiles' \in [Ids -> PB(autorizados', sinRevisar') \cup {Ninguno}]
    BY <1>1, <1>2, <1>3 DEF IInv, InvDatos
<1>6. \A j \in Ids : perfiles'[j] = Ninguno => perfiles[j] = Ninguno
    BY <1>1, <1>2, Buenos DEF IInv, InvDatos
<1>. QED
    BY <1>3, <1>4, <1>5, <1>6, PasoAlmacen

\* Marking the profiles that go is what PasoAlmacen asks for.
LEMMA Huerfanar ==
    ASSUME IInv, NEW a, huerfanar(a)
    PROVE  /\ huerfanos \subseteq huerfanos' /\ huerfanos' \subseteq Ids
           /\ \A i \in Ids : a[i] = Ninguno =>
                \/ perfiles[i] = Ninguno
                \/ i \in huerfanos'
                \/ ~existe(i) /\ ~ocupada(i) /\ arranque[i] = Ninguno
BY DEF huerfanar, sueltos, IInv, InvCuentas

LEMMA PasoImportarCopia ==
    ASSUME IInv, NEW a \in Paquetes, NEW r \in BOOLEAN, ImportarCopia(a, r)
    PROVE  IInv'
<1>1. /\ UNCHANGED <<fichero, tunel, tarea, inicio, cruzados>>
      /\ UNCHANGED <<sistema, averias, autorizados>>
      /\ ediciones' \in 0 .. MaxEdiciones
      /\ conocidos' = conocidos \cup {i \in Ids : a[i] # Ninguno}
      /\ perfiles' = [i \in Ids |-> IF a[i] # Ninguno THEN restaurado(a[i])
                                    ELSE IF r THEN Ninguno ELSE perfiles[i]]
      /\ huerfanar(perfiles')
    BY CotasAssumption DEF ImportarCopia, editar, IInv, InvCuentas
<1>2. /\ \A i \in Ids : a[i] # Ninguno => a[i] \in Perfil /\ propias(a[i].peers)
      /\ \A i \in Ids : a[i] # Ninguno => a[i].tabla \subseteq sinRevisar'
      /\ sinRevisar \subseteq sinRevisar' /\ sinRevisar' \subseteq Textos
  <2>1. \A i \in Ids : a[i] # Ninguno => a[i] \in Perfil /\ propias(a[i].peers)
      BY EntradasAssumption DEF Almacen
  <2>2. sinRevisar' = sinRevisar \cup
            UNION {a[i].tabla : i \in {j \in Ids : a[j] # Ninguno}}
      BY DEF ImportarCopia
  <2>3. \A i \in Ids : a[i] # Ninguno => a[i].tabla \subseteq Textos
      BY <2>1 DEF Perfil
  <2>4. sinRevisar' \subseteq Textos
      BY <2>2, <2>3 DEF IInv, InvCuentas
  <2>5. \A i \in Ids : a[i] # Ninguno => a[i].tabla \subseteq sinRevisar'
      BY <2>2
  <2>. QED
      BY <2>1, <2>2, <2>4, <2>5
<1>3. \A i \in Ids : a[i] # Ninguno => restaurado(a[i]) \in PB(autorizados', sinRevisar')
    BY <1>2, RestauradoBueno
<1>4. PB(autorizados, sinRevisar) \subseteq PB(autorizados', sinRevisar')
    BY <1>1, <1>2, Crecen
<1>5. perfiles' \in [Ids -> PB(autorizados', sinRevisar') \cup {Ninguno}]
    BY <1>1, <1>3, <1>4 DEF IInv, InvDatos
<1>6. InvCuentas'
    BY <1>1, <1>2, Huerfanar DEF IInv, InvCuentas, inicio
<1>. QED
    BY <1>1, <1>2, <1>5, <1>6, Huerfanar, PasoAlmacen

LEMMA PasoPerderAlmacen ==
    ASSUME IInv, PerderAlmacen
    PROVE  IInv'
<1>1. /\ UNCHANGED <<fichero, tunel, tarea, inicio, cruzados>>
      /\ UNCHANGED <<conocidos, sistema, ediciones, autorizados, sinRevisar>>
      /\ averias' \in 0 .. MaxAverias
      /\ perfiles' = Vacio /\ huerfanar(perfiles')
    BY CotasAssumption DEF PerderAlmacen, averiar, IInv, InvCuentas
<1>2. perfiles' \in [Ids -> PB(autorizados', sinRevisar') \cup {Ninguno}]
    BY <1>1 DEF Vacio
<1>3. InvCuentas'
    BY <1>1, Huerfanar DEF IInv, InvCuentas, inicio
<1>. QED
    BY <1>1, <1>2, <1>3, Huerfanar, PasoAlmacen

LEMMA PasoCaer ==
    ASSUME IInv, NEW i \in Ids, CaerTunel(i)
    PROVE  IInv'
<1>1. /\ UNCHANGED <<perfiles, conocidos, fichero, tarea, inicio, sistema, ediciones>>
      /\ UNCHANGED <<autorizados, sinRevisar, cruzados, huerfanos>>
      /\ averias' \in 0 .. MaxAverias /\ corriendo(i)
    BY CotasAssumption DEF CaerTunel, averiar, historia, IInv, InvCuentas
<1>2. PICK t \in Tn(autorizados, sinRevisar) :
          t.servicio \in {"no", "parado"} /\ tunel' = [tunel EXCEPT ![i] = t]
    BY Valores DEF CaerTunel
<1>3. /\ tunel' \in [Ids -> Tn(autorizados, sinRevisar)] /\ ~corriendo(i)' /\ ~arriba(i)'
      /\ \A j \in Ids : corriendo(j)' => corriendo(j) /\ tunel'[j] = tunel[j]
      /\ \A j \in Ids \ {i} : tunel'[j] = tunel[j]
    BY <1>2 DEF IInv, InvDatos, corriendo, arriba
<1>4. InvDatos'
    BY <1>1, <1>3 DEF IInv, InvDatos, inicio, ocupado
<1>5. InvCuentas' /\ InvSolo'
    BY <1>1 DEF IInv, InvCuentas, InvSolo, inicio, ocupado
<1>6. InvQuieto'
  <2> SUFFICES ASSUME NEW h \in Hilos
               PROVE  /\ (/\ tarea[h].paso \in {"escribir", "borrar"}
                          /\ tarea[h].id \notin cruzados) => ~corriendo(tarea[h].id)'
                      /\ (tarea[h].paso = "limpiar" /\ tarea[h].id \notin cruzados)
                          => ~arriba(tarea[h].id)'
                      /\ tarea[h].paso = "borrar" => h \in Tareas
      BY <1>1 DEF InvQuieto, corriendo, arriba
  <2>1. ocupado(h) => tarea[h].id \in Ids
      BY DEF IInv, InvDatos
  <2>. QED
      BY <1>1, <1>3, <2>1 DEF IInv, InvQuieto, ocupado, corriendo, arriba
<1>7. BajadaCoherente'
    BY <1>1, <1>2, <1>3 DEF IInv, BajadaCoherente, InvDatos, arriba
<1>8. InvSinPerfil'
    BY <1>1, <1>3 DEF IInv, InvSinPerfil, inicio, existe, ocupada, ocupado
<1>. QED
    BY <1>4, <1>5, <1>6, <1>7, <1>8 DEF IInv

\* The program ends: the processes with permission go on, and nothing else.
LEMMA PasoMorir ==
    ASSUME IInv, Morir
    PROVE  IInv'
<1>1. /\ UNCHANGED <<conocidos, fichero, tunel, sistema, ediciones, autorizados,
                     sinRevisar, cruzados>>
      /\ averias' \in 0 .. MaxAverias
      /\ perfiles' \in {perfiles, Vacio} /\ huerfanar(perfiles')
      /\ arranque' = Vacio /\ porArrancar' = TRUE
    BY CotasAssumption DEF Morir, averiar, IInv, InvCuentas
<1>2. /\ tarea' \in [Hilos -> Ta(autorizados, sinRevisar)]
      /\ \A h \in Hilos : ocupado(h)' =>
            /\ ocupado(h) /\ tarea'[h].paso \in Elevados
            /\ tarea'[h].id = tarea[h].id /\ tarea'[h].copia = tarea[h].copia
  <2>1. \A h \in Hilos : tarea'[h] = IF tarea[h].paso \in Elevados
                                     THEN [tarea[h] EXCEPT !.viva = FALSE]
                                     ELSE TareaLibre
      BY DEF Morir
  <2>2. \A h \in Hilos : tarea'[h] \in Ta(autorizados, sinRevisar)
    <3> SUFFICES ASSUME NEW h \in Hilos PROVE tarea'[h] \in Ta(autorizados, sinRevisar)
        OBVIOUS
    <3>1. tarea[h] \in Ta(autorizados, sinRevisar)
        BY DEF IInv, InvDatos
    <3>2. [tarea[h] EXCEPT !.viva = FALSE] \in Ta(autorizados, sinRevisar)
        BY <3>1 DEF Ta
    <3>. QED
        BY <2>1, <3>2, LibreBuena
  <2>3. \A h \in Hilos : ocupado(h)' =>
            /\ ocupado(h) /\ tarea'[h].paso \in Elevados
            /\ tarea'[h].id = tarea[h].id /\ tarea'[h].copia = tarea[h].copia
    <3> SUFFICES ASSUME NEW h \in Hilos, ocupado(h)'
                 PROVE  /\ ocupado(h) /\ tarea'[h].paso \in Elevados
                        /\ tarea'[h].id = tarea[h].id /\ tarea'[h].copia = tarea[h].copia
        OBVIOUS
    <3>1. tarea[h].paso \in Elevados
      <4>1. tarea'[h].paso # "libre" /\ TareaLibre.paso = "libre"
          BY DEF ocupado, TareaLibre
      <4>2. tarea'[h] # TareaLibre
          BY <4>1
      <4>. QED
          BY <2>1, <4>2
    <3>2. tarea[h] \in Ta(autorizados, sinRevisar)
        BY DEF IInv, InvDatos
    <3>. QED
        BY <2>1, <3>1, <3>2 DEF Ta, Elevados, ocupado
  <2>4. tarea' = [h \in Hilos |-> tarea'[h]]
      BY DEF Morir
  <2>. QED
      BY <2>2, <2>3, <2>4
<1>3. \A i \in Ids : ocupada(i)' => ocupada(i)
    BY <1>2 DEF ocupada
<1>4. InvDatos'
  <2>1. perfiles' \in [Ids -> PB(autorizados, sinRevisar) \cup {Ninguno}]
        /\ arranque' \in [Ids -> PB(autorizados, sinRevisar) \cup {Ninguno}]
      BY <1>1 DEF IInv, InvDatos, Vacio
  <2>. QED
      BY <1>1, <1>2, <2>1 DEF IInv, InvDatos, corriendo
<1>5. InvCuentas'
    BY <1>1, Huerfanar DEF IInv, InvCuentas
<1>6. InvSolo'
    BY <1>1, <1>2 DEF IInv, InvSolo, Vacio, Hilos
<1>7. InvQuieto'
    BY <1>2 DEF InvQuieto, Elevados, ocupado
<1>8. BajadaCoherente'
    BY <1>1 DEF IInv, BajadaCoherente, corriendo
<1>9. InvSinPerfil'
    BY <1>1, <1>3, Huerfanar DEF IInv, InvSinPerfil, Vacio, corriendo, existe
<1>. QED
    BY <1>4, <1>5, <1>6, <1>7, <1>8, <1>9 DEF IInv

\* The computer restarts: a tunnel that comes up has the file it finds.
LEMMA PasoReiniciar ==
    ASSUME IInv, Reiniciar
    PROVE  IInv'
<1>1. /\ UNCHANGED <<perfiles, conocidos, fichero, sistema, ediciones>>
      /\ UNCHANGED <<autorizados, sinRevisar, cruzados, huerfanos>>
      /\ averias' \in 0 .. MaxAverias
      /\ arranque' = Vacio /\ porArrancar' = TRUE
      /\ tarea' = [h \in Hilos |-> TareaLibre]
    BY CotasAssumption DEF Reiniciar, averiar, historia, IInv, InvCuentas
<1>2. \A h \in Hilos : ~ocupado(h)' /\ tarea'[h].paso = "libre"
    BY <1>1 DEF ocupado, TareaLibre
<1>3. \A i \in Ids :
          /\ tunel'[i] \in Tn(autorizados, sinRevisar)
          /\ existe(i)' => existe(i)
          /\ corriendo(i)' => /\ existe(i) /\ fichero[i] \in CB(autorizados, sinRevisar)
                             /\ tunel'[i].conf = fichero[i]
  <2> SUFFICES ASSUME NEW i \in Ids
               PROVE  /\ tunel'[i] \in Tn(autorizados, sinRevisar)
                      /\ existe(i)' => existe(i)
                      /\ corriendo(i)' => /\ existe(i) /\ fichero[i] \in CB(autorizados, sinRevisar)
                                         /\ tunel'[i].conf = fichero[i]
      OBVIOUS
  <2>1. tunel'[i] = IF ~windows \/ tunel[i].servicio \in {"no", "marcado"} THEN NoHay
                    ELSE IF tunel[i].auto /\ fichero[i] \in Conf THEN levantar(i)[i]
                    ELSE parado(i)[i]
      BY DEF Reiniciar, existe
  <2>2. tunel \in [Ids -> Tn(autorizados, sinRevisar)]
      BY DEF IInv, InvDatos
  <2>3. CASE tunel'[i] = NoHay
      BY <2>3, Valores DEF existe, corriendo
  <2>4. CASE existe(i) /\ fichero[i] \in Conf /\ tunel'[i] = levantar(i)[i]
    <3>1. PICK t \in Tn(autorizados, sinRevisar) : /\ t.conf = fichero[i] /\ t.conf \in CB(autorizados, sinRevisar)
                                      /\ levantar(i) = [tunel EXCEPT ![i] = t]
        BY <2>4, Valores
    <3>. QED
        BY <2>2, <2>4, <3>1 DEF corriendo
  <2>5. CASE existe(i) /\ tunel'[i] = parado(i)[i]
    <3>1. PICK t \in Tn(autorizados, sinRevisar) : /\ t.servicio \in {"no", "parado"}
                                      /\ parado(i) = [tunel EXCEPT ![i] = t]
        BY Valores
    <3>. QED
        BY <2>2, <2>5, <3>1 DEF corriendo
  <2>. QED
      BY <2>1, <2>3, <2>4, <2>5 DEF existe
<1>4. tunel' = [i \in Ids |-> tunel'[i]]
    BY DEF Reiniciar
<1>5. InvDatos'
  <2>1. tunel' \in [Ids -> Tn(autorizados, sinRevisar)]
      BY <1>3, <1>4
  <2>2. tarea' \in [Hilos -> Ta(autorizados, sinRevisar)]
      BY <1>1, LibreBuena
  <2>3. arranque' \in [Ids -> PB(autorizados, sinRevisar) \cup {Ninguno}]
      BY <1>1 DEF Vacio
  <2>. QED
      BY <1>1, <1>2, <1>3, <2>1, <2>2, <2>3 DEF IInv, InvDatos
<1>6. InvCuentas'
    BY <1>1 DEF IInv, InvCuentas
<1>7. InvSolo'
    BY <1>2 DEF InvSolo, Hilos
<1>8. InvQuieto'
    BY <1>2 DEF InvQuieto
<1>9. BajadaCoherente'
    BY <1>1, <1>3 DEF BajadaCoherente, corriendo
<1>10. InvSinPerfil'
  <2>1. \A i \in Ids : ~ocupada(i)' /\ arranque'[i] = Ninguno
      BY <1>1, <1>2 DEF ocupada, Vacio
  <2>2. CB(autorizados, sinRevisar) \subseteq Conf
      BY Buenos
  <2>. QED
      BY <1>1, <1>3, <2>1, <2>2 DEF IInv, InvSinPerfil
<1>. QED
    BY <1>5, <1>6, <1>7, <1>8, <1>9, <1>10 DEF IInv

-----------------------------------------------------------------------------
(* The theorems.                                                           *)

LEMMA Inicial ==
    ASSUME Init
    PROVE  IInv
<1>1. \A h \in Hilos : ~ocupado(h) /\ tarea[h].paso = "libre"
    BY DEF Init, ocupado, TareaLibre
<1>2. \A i \in Ids : ~existe(i) /\ ~corriendo(i) /\ ~ocupada(i) /\ arranque[i] = Ninguno
    BY <1>1 DEF Init, existe, corriendo, ocupada, NoHay, Vacio
<1>3. perfiles \in [Ids -> PB(autorizados, sinRevisar) \cup {Ninguno}]
  <2>1. perfiles \in Almacen /\ \A i \in Ids : perfiles[i] # Ninguno => propias(perfiles[i].peers)
      BY EntradasAssumption DEF Init
  <2>2. autorizados = UNION {permitidos(perfiles[i]) : i \in
                              {j \in Ids : perfiles[j] # Ninguno}}
      BY DEF Init
  <2>3. \A i \in Ids : perfiles[i] # Ninguno => permitidos(perfiles[i]) \subseteq autorizados
      BY <2>2
  <2>4. \A i \in Ids : perfiles[i] # Ninguno => perfiles[i] \in PB(autorizados, sinRevisar)
      BY <2>1, <2>3 DEF Almacen, PB, permitidos
  <2>. QED
      BY <2>1, <2>4 DEF Almacen
<1>4. autorizados \subseteq Textos /\ sinRevisar \subseteq Textos
  <2>1. \A i \in Ids : perfiles[i] # Ninguno => perfiles[i] \in Perfil
      BY EntradasAssumption DEF Init, Almacen
  <2>2. \A i \in Ids : perfiles[i] # Ninguno => permitidos(perfiles[i]) \subseteq Textos
      BY <2>1 DEF permitidos, Perfil
  <2>3. autorizados = UNION {permitidos(perfiles[i]) : i \in
                              {j \in Ids : perfiles[j] # Ninguno}}
        /\ sinRevisar = {}
      BY DEF Init
  <2>. QED
      BY <2>2, <2>3
<1>5. InvDatos
  <2>1. tarea \in [Hilos -> Ta(autorizados, sinRevisar)]
      BY LibreBuena DEF Init
  <2>2. tunel \in [Ids -> Tn(autorizados, sinRevisar)]
      BY DEF Init, NoHay, Tn
  <2>3. fichero \in [Ids -> CB(autorizados, sinRevisar) \cup {Ninguno, Roto}]
        /\ arranque \in [Ids -> PB(autorizados, sinRevisar) \cup {Ninguno}]
      BY DEF Init, Vacio
  <2>. QED
      BY <1>1, <1>2, <1>3, <2>1, <2>2, <2>3 DEF InvDatos
<1>6. InvCuentas
    BY <1>4, CotasAssumption DEF Init, InvCuentas
<1>7. InvSolo /\ InvQuieto
    BY <1>1 DEF InvSolo, InvQuieto, Hilos
<1>8. BajadaCoherente /\ InvSinPerfil
    BY <1>2 DEF BajadaCoherente, InvSinPerfil, corriendo
<1>. QED
    BY <1>5, <1>6, <1>7, <1>8 DEF IInv

LEMMA Inductivo ==
    ASSUME IInv, [Next]_vars
    PROVE  IInv'
<1>1. CASE UNCHANGED vars
    BY <1>1 DEF vars, inicio, cuentas, historia, IInv, InvDatos, InvCuentas, InvSolo,
       InvQuieto, BajadaCoherente, InvSinPerfil, corriendo, arriba, existe, ocupado, ocupada
<1>2. CASE Usuario
    BY <1>2, PasoGuardar, PasoImportarConf, PasoImportarCopia DEF Usuario
<1>3. CASE \E h \in Tareas : Peticion(h)
  <2>1. PICK h \in Tareas : Peticion(h)
      BY <1>3
  <2>2. h \in Hilos
      BY DEF Hilos
  <2>. QED
      BY <2>1, <2>2, PasoLeer, PasoMiradas, PasoBajar, PasoLimpiar, PasoBorrar DEF Peticion
<1>4. CASE \E h \in Hilos : Conexion(h)
    BY <1>4, PasoMiradas, PasoEscribir, PasoSubir, PasoServicio DEF Conexion
<1>5. CASE AutoLeer \/ \E i \in Ids : AutoSiguiente(i)
    BY <1>5, PasoAutoLeer, PasoAutoSiguiente
<1>6. CASE Mundo
    BY <1>6, PasoPerderAlmacen, PasoCaer, PasoMorir, PasoReiniciar DEF Mundo
<1>. QED
    BY <1>1, <1>2, <1>3, <1>4, <1>5, <1>6 DEF Next

\* The inductive invariant: the wireguard.go handlers keep it whatever the
\* order of their steps, the world's and the user's.
THEOREM Invariante == Spec => []IInv
<1>1. Init => IInv
    BY Inicial
<1>2. IInv /\ [Next]_vars => IInv'
    BY Inductivo
<1>. QED
    BY <1>1, <1>2, PTL DEF Spec

LEMMA Refinados ==
    ASSUME IInv
    PROVE  /\ PB(autorizados, sinRevisar) \subseteq Perfil /\ CB(autorizados, sinRevisar) \subseteq Conf
           /\ Tn(autorizados, sinRevisar) \subseteq Tunel /\ Ta(autorizados, sinRevisar) \subseteq Tarea
<1>1. PB(autorizados, sinRevisar) \subseteq Perfil /\ CB(autorizados, sinRevisar) \subseteq Conf
    BY Buenos
<1>. QED
    BY <1>1 DEF Tn, Tunel, Ta, Tarea

\* Every variable keeps its type, and a tunnel that is up has a configuration.
THEOREM TipoCorrecto == Spec => []TypeOK
<1>1. IInv => TypeOK
  <2> SUFFICES ASSUME IInv PROVE TypeOK
      OBVIOUS
  <2>. QED
      BY Refinados DEF IInv, InvDatos, InvCuentas, TypeOK, Almacen
<1>. QED
    BY <1>1, Invariante, PTL

\* Neither a file nor a tunnel has hooks the user did not save as allowed:
\* restaurado and manejarWGImport never let through those they bring.  What
\* Table, DNS and Endpoint add was saved by the user, or came in a backup unseen.
THEOREM HooksSeguros == Spec => []HooksAutorizados
<1>1. IInv => HooksAutorizados
  <2> SUFFICES ASSUME IInv, NEW i \in Ids, NEW c \in {fichero[i], tunel[i].conf} \cap Conf
               PROVE  /\ c.hooks \in autorizados \cup {Ninguno}
                      /\ c.tabla \subseteq autorizados \cup sinRevisar
      BY DEF HooksAutorizados
  <2>1. c \in CB(autorizados, sinRevisar) \cup {Ninguno, Roto}
      BY DEF IInv, InvDatos, Tn
  <2>2. c \in CB(autorizados, sinRevisar)
      BY <2>1, NingunoAssumption
  <2>. QED
      BY <2>2 DEF CB
<1>. QED
    BY <1>1, Invariante, PTL

\* The preshared key of a peer is never in the place of another one's: what
\* manejarWGProfiles keeps by position it keeps for the same public key.
THEOREM PskSeguras == Spec => []PskDeSuPeer
<1>1. IInv => PskDeSuPeer
  <2> SUFFICES ASSUME IInv, NEW i \in Ids, NEW c \in {perfiles[i], fichero[i], tunel[i].conf}
               PROVE  pskPropias(c)
      BY DEF PskDeSuPeer
  <2>1. c \in PB(autorizados, sinRevisar) \cup CB(autorizados, sinRevisar) \cup {Ninguno, Roto}
      BY DEF IInv, InvDatos, Tn
  <2>2. CASE c \in PB(autorizados, sinRevisar) \cup CB(autorizados, sinRevisar)
      BY <2>2 DEF PB, CB, pskPropias
  <2>3. CASE c = Ninguno
      BY <2>3, NingunoAssumption DEF pskPropias
  <2>4. CASE c = Roto
      BY <2>4, NingunoAssumption DEF pskPropias
  <2>. QED
      BY <2>1, <2>2, <2>3, <2>4
<1>. QED
    BY <1>1, Invariante, PTL

\* wg-quick down and the restart of the computer find the file the tunnel
\* came up with, unless two handlers worked on the profile at once, or its
\* service was deleted and goes on only until it ends.
THEOREM BajadaSegura == Spec => []BajadaCoherente
<1>1. IInv => BajadaCoherente
    BY DEF IInv
<1>. QED
    BY <1>1, Invariante, PTL

\* A tunnel that is up has a profile to take it down with, with the two
\* exceptions TunelConPerfil names.
THEOREM TunelAtendido == Spec => []TunelConPerfil
<1>1. IInv => TunelConPerfil
    BY DEF IInv, InvSinPerfil, TunelConPerfil
<1>. QED
    BY <1>1, Invariante, PTL
=============================================================================
