--------------------------- MODULE PerfilesProofs ---------------------------
(***************************************************************************)
(* Proofs about Perfiles, for every number of profiles, servers, handlers, *)
(* backups, requests and faults.                                           *)
(***************************************************************************)
EXTENDS Perfiles, TLAPS

-----------------------------------------------------------------------------
(* The inductive invariant.                                                *)

Al(s) == s \in {"instalar", "escribir", "probar", "guardar"}
Fin(s) == s \in {"filtrar", "mover"}

\* What a handler knows at each step.
Bien(t) ==
    /\ t \in Tarea
    /\ t.paso # "libre" => t.op \in Operaciones /\ t.nombre \in Nombres
    /\ t.paso = "marcar" => t.op \in {"conectar", "crear"}
    /\ t.paso = "sesion" => t.op \in Herramientas
    /\ Al(t.paso) \/ Fin(t.paso) => t.op \in {"crear", "crearKey", "usarKey"}
    /\ (t.paso = "sesion" /\ t.op = "usarKey") =>
          t.clave \in Claves /\ t.ruta \in Rutas
    /\ t.paso \in {"marcar", "sesion"} \/ Al(t.paso) => t.copia \in Perfil
    /\ t.paso \in {"huella", "registrar"} \/ Al(t.paso) \/ Fin(t.paso) =>
          t.cli \in Huellas
    /\ Al(t.paso) \/ Fin(t.paso) => t.token \in Tokens
    /\ Al(t.paso) => t.clave \in Claves
    /\ Al(t.paso) /\ ~(t.op = "crearKey" /\ t.paso = "instalar") =>
          t.ruta \in Rutas

InvTareas == \A h \in Tareas : Bien(tarea[h])

\* Every installation again is a fault.
InvCuentas == \A s \in Hosts : instalacion[s] <= averias

IInv == TypeOK /\ InvTareas /\ InvCuentas /\ UltimaPalabra

\* The rest of the invariant is about the keys.  The files of a key the user
\* chooses or that is named after a profile, and the lines of a server.
Fijas == {Local, Restaurada} \cup {Fija(n) : n \in Nombres}
pendientes(s) == IF gwtmp[s] = Ninguno THEN {} ELSE gwtmp[s]
lineas(s) == autorizadas[s] \cup pendientes(s)

\* The line of a key made by manejarToolCrearKey.
suLinea(k) == [clave |-> k, token |-> k]

\* Which key and which file a handler works with.
Propio(t) ==
    /\ t.token # Ninguno => Al(t.paso) \/ Fin(t.paso)
    /\ t.clave # Ninguno => Al(t.paso) \/ (t.paso = "sesion" /\ t.op = "usarKey")
    /\ Al(t.paso) /\ t.op = "crear" => t.clave = t.token /\ t.ruta \in Fijas
    /\ Al(t.paso) /\ t.op = "crearKey" =>
          /\ t.clave = t.token
          /\ t.paso # "instalar" => \E m \in Tokens : t.ruta = Fechada(m)
    /\ t.op = "usarKey" /\ (Al(t.paso) \/ t.paso = "sesion") => t.ruta \in Fijas
    /\ t.paso = "filtrar" => t.op \in Herramientas
    /\ t.paso = "escribir" => t.op # "usarKey"

InvPropio == \A h \in Tareas : Propio(tarea[h])

\* A token belongs to one handler at most, and to none once it is saved; and
\* nothing in the files or the servers has a number not given yet.
InvTokens ==
    /\ \A h \in Tareas : tarea[h].token # Ninguno =>
          /\ tarea[h].token <= usados
          /\ guardadas[tarea[h].token] = Ninguno
          /\ \A g \in Tareas : tarea[g].token = tarea[h].token => g = h
    /\ \A h \in Tareas : tarea[h].clave # Ninguno => tarea[h].clave <= usados
    /\ \A r \in Rutas : disco[r] # Ninguno => disco[r] <= usados
    /\ \A s \in Hosts : \A l \in lineas(s) :
          l.clave <= usados /\ l.token <= usados
    /\ \A t \in Tokens : guardadas[t] # Ninguno => t <= usados

\* A handler without a link, and not yet at mv, has been noticed.
InvSueltas ==
    \A h \in Tareas : tarea[h].token # Ninguno =>
        /\ tarea[h].op = "crear" => tarea[h].token \in sueltas
        /\ (~tarea[h].viva /\ tarea[h].paso # "mover") =>
              tarea[h].token \in sueltas \/ servidor(h) \in perturbados

\* The lines with the token of a handler are on its server, and it knows that
\* it added them.
InvLineas ==
    \A h \in Tareas, s \in Hosts : \A l \in lineas(s) :
        tarea[h].token = l.token =>
            s = servidor(h) /\ tarea[h].agregada /\ tarea[h].paso # "instalar"

\* Between grep -v and mv the copy of the file is the file without the line,
\* cut if the disk was full; or there is no copy, and the request is noticed.
sinSuya(h) == {l \in autorizadas[servidor(h)] : l.token # tarea[h].token}
InvMover ==
    \A h \in Tareas :
        (tarea[h].paso = "mover" /\ servidor(h) \notin perturbados) =>
            /\ gwtmp[servidor(h)] = Ninguno => tarea[h].token \in sueltas
            /\ (gwtmp[servidor(h)] # Ninguno /\ ~cruce(h, servidor(h))) =>
                  /\ gwtmp[servidor(h)] \subseteq sinSuya(h)
                  /\ servidor(h) \notin recortados =>
                        gwtmp[servidor(h)] = sinSuya(h)

\* The file a handler writes is named after the moment of its own request, or
\* after one that two requests share.
InvRutas ==
    \A h \in Tareas, m \in Tokens :
        tarea[h].ruta = Fechada(m) => m = tarea[h].token \/ m \in compartidas

\* The key a handler is making is in its file and its line and nowhere else.
EnObra(h) == Al(tarea[h].paso) /\ tarea[h].op = "crearKey"
InvObra ==
    \A h \in Tareas : EnObra(h) =>
        /\ \A r \in Fijas : disco[r] # tarea[h].token
        /\ \A g \in Tareas : tarea[g].clave = tarea[h].token => g = h
        /\ \A s \in Hosts : \A l \in lineas(s) :
              l.clave = tarea[h].token => l.token = tarea[h].token
        /\ (tarea[h].paso \in {"probar", "guardar"}
              /\ tarea[h].ruta = Fechada(tarea[h].token)
              /\ tarea[h].token \notin compartidas) =>
              disco[Fechada(tarea[h].token)] = tarea[h].token
        /\ (tarea[h].paso = "guardar" /\ tarea[h].copia.host \notin perturbados \cup recortados)
              => suLinea(tarea[h].token) \in autorizadas[tarea[h].copia.host]

\* And once a profile has it, it stays in both.
InvHechas ==
    \A n \in Nombres, t \in Tokens :
        (perfiles[n] # Ninguno /\ perfiles[n].key = Fechada(t)
           /\ t \notin compartidas) =>
            /\ disco[Fechada(t)] = t
            /\ guardadas[t] \in Hosts
            /\ guardadas[t] \notin perturbados \cup recortados =>
                  suLinea(t) \in autorizadas[guardadas[t]]

IInv2 == /\ InvPropio /\ InvTokens /\ InvSueltas /\ InvLineas /\ InvMover
         /\ InvObra /\ InvHechas /\ SinResiduos

-----------------------------------------------------------------------------
LEMMA LibreBien == Bien(TareaLibre)
BY DEF Bien, TareaLibre, Tarea, Pasos, Al, Fin

LEMMA Iniciales == Init => IInv
<1> SUFFICES ASSUME Init PROVE IInv
    OBVIOUS
<1>1. perfiles \in Almacen
    BY CotasAssumption DEF Init, Almacen, Perfil, Huellas
<1>2. pedido \in [Nombres -> Hosts \cup {Ninguno}]
    BY <1>1 DEF Init, Almacen, Perfil
<1>3. disco \in Disco
    BY DEF Init, Disco, Claves, Propia
<1>4. tarea \in [Tareas -> Tarea] /\ InvTareas
    BY LibreBien DEF Init, InvTareas, Bien
<1>5. TypeOK
  <2>1. 0 \in 0 .. MaxTokens /\ 0 \in 0 .. MaxAverias /\ 0 \in 0 .. MaxEdiciones
      BY CotasAssumption
  <2>. QED
      BY <1>1, <1>2, <1>3, <1>4, <2>1 DEF Init, TypeOK
<1>6. InvCuentas
    BY DEF Init, InvCuentas
<1>7. UltimaPalabra
    BY <1>1, NingunoAssumption DEF Init, UltimaPalabra, Almacen, Perfil
<1>. QED
    BY <1>4, <1>5, <1>6, <1>7 DEF IInv

\* The rest of TypeOK, for the actions that leave it alone.
LEMMA Apuntar ==
    ASSUME NEW a \in Almacen, perfiles' = a, apuntar(a)
    PROVE  UltimaPalabra' /\ pedido' \in [Nombres -> Hosts \cup {Ninguno}]
BY NingunoAssumption DEF apuntar, UltimaPalabra, Almacen, Perfil

LEMMA VacioEsAlmacen == Vacio \in Almacen
BY DEF Vacio, Almacen

LEMMA Editado ==
    ASSUME TypeOK, editar
    PROVE  ediciones' \in 0 .. MaxEdiciones
BY CotasAssumption DEF TypeOK, editar

LEMMA Averiado ==
    ASSUME TypeOK, averiar
    PROVE  /\ averias' \in 0 .. MaxAverias
           /\ ediciones' \in 0 .. MaxEdiciones
           /\ \A s \in Hosts : instalacion[s] <= averias =>
                 /\ instalacion[s] <= averias'
                 /\ instalacion[s] + 1 <= averias'
                 /\ instalacion[s] + 1 \in 0 .. MaxAverias
BY CotasAssumption DEF TypeOK, averiar

LEMMA HuellaGuardada ==
    ASSUME IInv, NEW n \in Nombres
    PROVE  huellaGuardada(n) \in Huellas \cup {Ninguno}
BY DEF huellaGuardada, IInv, TypeOK, Almacen, Perfil

LEMMA PasoEditar ==
    ASSUME IInv, NEW n \in Nombres, NEW s \in Hosts,
           NEW k \in Rutas \cup {Ninguno}, Editar(n, s, k)
    PROVE  IInv'
<1> DEFINE p == [host |-> s, huella |-> huellaGuardada(n), key |-> k]
<1>0. p \in Perfil /\ p.host = s
    BY HuellaGuardada DEF Perfil
<1>01. perfiles' = [perfiles EXCEPT ![n] = p]
    BY DEF Editar
<1> HIDE DEF p
<1>1. perfiles' \in Almacen
    BY <1>0, <1>01 DEF IInv, TypeOK, Almacen
<1>2. UltimaPalabra'
    BY <1>0, <1>01, NingunoAssumption
    DEF Editar, IInv, TypeOK, UltimaPalabra, Almacen
<1>3. TypeOK'
    BY <1>1, Editado DEF Editar, IInv, TypeOK, remoto,
       incidentes
<1>4. InvTareas' /\ InvCuentas'
    BY DEF Editar, IInv, InvTareas, InvCuentas, remoto
<1>. QED
    BY <1>2, <1>3, <1>4 DEF IInv

LEMMA PasoBorrar ==
    ASSUME IInv, NEW n \in Nombres, Borrar(n)
    PROVE  IInv'
<1>1. perfiles' \in Almacen
    BY DEF Borrar, IInv, TypeOK, Almacen, Perfil
<1>2. UltimaPalabra'
    BY NingunoAssumption DEF Borrar, IInv, TypeOK, UltimaPalabra, Almacen, Perfil
<1>3. TypeOK'
    BY <1>1, Editado DEF Borrar, IInv, TypeOK, remoto,
       incidentes
<1>4. InvTareas' /\ InvCuentas'
    BY DEF Borrar, IInv, InvTareas, InvCuentas, remoto
<1>. QED
    BY <1>2, <1>3, <1>4 DEF IInv

LEMMA DestinoEsRuta == \A r \in Rutas : destino(r) \in Rutas
BY DEF destino, Rutas

LEMMA PasoImportar ==
    ASSUME IInv, NEW p \in Paquetes, NEW r \in BOOLEAN, Importar(p, r)
    PROVE  IInv'
<1>1. p.perfiles \in Almacen /\ p.keys \in Disco
    BY PaquetesAssumption
<1>2. ASSUME NEW n \in Nombres
      PROVE  fundir(p, r)[n] \in Perfil \cup {Ninguno}
  <2>1. CASE p.perfiles[n] # Ninguno
    <3>1. p.perfiles[n] \in Perfil
        BY <1>1, <2>1 DEF Almacen
    <3>2. p.perfiles[n].key # Ninguno =>
            destino(p.perfiles[n].key) \in Rutas
        BY <3>1, DestinoEsRuta DEF Perfil
    <3>3. reapuntar(p.perfiles[n], p.keys) \in Perfil
        BY <3>1, <3>2 DEF reapuntar, Perfil
    <3>. QED
        BY <2>1, <3>3 DEF fundir
  <2>2. CASE p.perfiles[n] = Ninguno
      BY <2>2 DEF fundir, IInv, TypeOK, Almacen
  <2>. QED
      BY <2>1, <2>2
<1>3. fundir(p, r) \in Almacen
    BY <1>2 DEF fundir, Almacen
<1>4. disco' \in Disco
  <2>1. ASSUME NEW q \in Rutas
        PROVE  restaurarKeys(p.keys)[q] \in Claves \cup {Ninguno}
    <3>1. CASE \E v \in Rutas : destino(v) = q /\ p.keys[v] # Ninguno
      <4> DEFINE v == CHOOSE v \in Rutas :
                        destino(v) = q /\ p.keys[v] # Ninguno
      <4>1. v \in Rutas
          BY <3>1
      <4>. QED
          BY <1>1, <3>1, <4>1 DEF restaurarKeys, Disco
    <3>2. CASE ~\E v \in Rutas : destino(v) = q /\ p.keys[v] # Ninguno
        BY <3>2 DEF restaurarKeys, IInv, TypeOK, Disco
    <3>. QED
        BY <3>1, <3>2
  <2>. QED
      BY <2>1 DEF Importar, restaurarKeys, Disco
<1>5. perfiles' = fundir(p, r) /\ apuntar(fundir(p, r))
    BY DEF Importar
<1>6. UltimaPalabra' /\ pedido' \in [Nombres -> Hosts \cup {Ninguno}]
    BY <1>3, <1>5, Apuntar
<1>7. TypeOK'
    BY <1>3, <1>4, <1>5, <1>6, Editado DEF Importar, IInv, TypeOK, remoto,
       incidentes
<1>8. InvTareas' /\ InvCuentas'
    BY DEF Importar, IInv, InvTareas, InvCuentas, remoto
<1>. QED
    BY <1>6, <1>7, <1>8 DEF IInv

LEMMA PasoPerderAlmacen ==
    ASSUME IInv, PerderAlmacen
    PROVE  IInv'
<1>1. UltimaPalabra' /\ pedido' \in [Nombres -> Hosts \cup {Ninguno}]
    BY VacioEsAlmacen, Apuntar DEF PerderAlmacen
<1>2. TypeOK'
    BY <1>1, VacioEsAlmacen, Averiado DEF PerderAlmacen, IInv, TypeOK, remoto,
       incidentes
<1>3. InvTareas' /\ InvCuentas'
    BY Averiado DEF PerderAlmacen, IInv, InvTareas, InvCuentas, remoto
<1>. QED
    BY <1>1, <1>2, <1>3 DEF IInv

-----------------------------------------------------------------------------
(* The handlers.                                                           *)

LEMMA Cambiar ==
    ASSUME IInv, NEW h \in Tareas, NEW t, Bien(t),
           tarea' = [tarea EXCEPT ![h] = t]
    PROVE  tarea' \in [Tareas -> Tarea] /\ InvTareas'
BY DEF IInv, TypeOK, InvTareas, Bien

LEMMA Acabar ==
    ASSUME IInv, NEW h \in Tareas, acabar(h)
    PROVE  tarea' \in [Tareas -> Tarea] /\ InvTareas'
BY LibreBien, Cambiar DEF acabar

\* A step that leaves the data of the handler as they are.
LEMMA Pasar ==
    ASSUME IInv, NEW h \in Tareas, NEW p \in Pasos, pasar(h, p),
           \/ Al(tarea[h].paso) /\ tarea[h].paso # "instalar"
           \/ Fin(tarea[h].paso) /\ Fin(p)
           \/ tarea[h].paso = "huella" /\ p = "registrar",
           Al(p) \/ Fin(p) \/ (tarea[h].paso = "huella" /\ p = "registrar")
    PROVE  tarea' \in [Tareas -> Tarea] /\ InvTareas'
<1> DEFINE t == [tarea[h] EXCEPT !.paso = p]
<1>1. tarea' = [tarea EXCEPT ![h] = t]
    BY DEF pasar
<1>2. Bien(t)
  <2>1. tarea[h] \in Tarea /\ Bien(tarea[h])
      BY DEF IInv, TypeOK, InvTareas
  <2>. QED
      BY <2>1 DEF Bien, Tarea, Al, Fin, Pasos
<1> HIDE DEF t
<1>. QED
    BY <1>1, <1>2, Cambiar

\* A handler that begins.
LEMMA Empezar ==
    ASSUME IInv, NEW h \in Tareas, NEW n \in Nombres, NEW c \in Perfil,
           NEW op \in Operaciones, NEW p \in {"marcar", "sesion"},
           p = "marcar" => op \in {"conectar", "crear"},
           p = "sesion" => op = "crearKey",
           empezar(h, op, p, n, c)
    PROVE  tarea' \in [Tareas -> Tarea] /\ InvTareas'
<1> DEFINE t == [TareaLibre EXCEPT !.op = op, !.paso = p, !.nombre = n,
                                   !.copia = c]
<1>1. /\ t.op = op /\ t.paso = p /\ t.nombre = n /\ t.copia = c
    BY DEF TareaLibre
<1>2. t \in Tarea
    BY DEF Tarea, TareaLibre, Pasos, Operaciones
<1>3. tarea' = [tarea EXCEPT ![h] = t]
    BY DEF empezar
<1> HIDE DEF t
<1>4. Bien(t)
    BY <1>1, <1>2 DEF Bien, Al, Fin, Herramientas
<1>. QED
    BY <1>3, <1>4, Cambiar

\* The registry, the servers and the histories stay.
Quieto == UNCHANGED <<perfiles, disco, remoto, sesiones, usados, cuentas, historia>>

LEMMA QuietoBien ==
    ASSUME IInv, Quieto, tarea' \in [Tareas -> Tarea], InvTareas'
    PROVE  IInv'
BY DEF Quieto, IInv, TypeOK, InvCuentas, UltimaPalabra, remoto, cuentas, historia

LEMMA PasoConectar ==
    ASSUME IInv, NEW h \in Tareas, NEW n \in Nombres, Conectar(h, n)
    PROVE  IInv'
<1>1. perfiles[n] \in Perfil
    BY DEF Conectar, IInv, TypeOK, Almacen
<1>2. tarea' \in [Tareas -> Tarea] /\ InvTareas'
    BY <1>1, Empezar DEF Conectar, Operaciones
<1>. QED
    BY <1>2, QuietoBien DEF Conectar, Quieto

LEMMA PasoCrear ==
    ASSUME IInv, NEW h \in Tareas, NEW n \in Nombres, NEW s \in Hosts,
           Crear(h, n, s)
    PROVE  IInv'
<1> DEFINE c == [host |-> s, huella |-> huellaGuardada(n), key |-> Ninguno]
<1>1. c \in Perfil
    BY HuellaGuardada DEF Perfil
<1>2. empezar(h, "crear", "marcar", n, c)
    BY DEF Crear
<1> HIDE DEF c
<1>3. tarea' \in [Tareas -> Tarea] /\ InvTareas'
    BY <1>1, <1>2, Empezar DEF Operaciones
<1>. QED
    BY <1>3, QuietoBien DEF Crear, Quieto

LEMMA SinKey ==
    ASSUME NEW p \in Perfil
    PROVE  [p EXCEPT !.key = Ninguno] \in Perfil
BY DEF Perfil

LEMMA PasoCrearKey ==
    ASSUME IInv, NEW h \in Tareas, NEW n \in Nombres, CrearKey(h, n)
    PROVE  IInv'
<1> DEFINE c == [perfiles[n] EXCEPT !.key = Ninguno]
<1>1. c \in Perfil
    BY SinKey DEF CrearKey, IInv, TypeOK, Almacen
<1>2. empezar(h, "crearKey", "sesion", n, c)
    BY DEF CrearKey
<1> HIDE DEF c
<1>3. tarea' \in [Tareas -> Tarea] /\ InvTareas'
    BY <1>1, <1>2, Empezar DEF Operaciones
<1>. QED
    BY <1>3, QuietoBien DEF CrearKey, Quieto

LEMMA PasoUsarKey ==
    ASSUME IInv, NEW h \in Tareas, NEW n \in Nombres, NEW r \in Rutas,
           UsarKey(h, n, r)
    PROVE  IInv'
<1> DEFINE c == [perfiles[n] EXCEPT !.key = Ninguno]
           k == disco[r]
           t == [TareaLibre EXCEPT !.op = "usarKey", !.paso = "sesion",
                    !.nombre = n, !.copia = c, !.clave = k, !.ruta = r]
<1>1. c \in Perfil /\ k \in Claves
    BY SinKey DEF UsarKey, IInv, TypeOK, Almacen, Disco
<1>2. tarea' = [tarea EXCEPT ![h] = t]
    BY DEF UsarKey
<1> HIDE DEF c, k
<1>3. /\ t.op = "usarKey" /\ t.paso = "sesion" /\ t.nombre = n /\ t.copia = c
      /\ t.clave = k /\ t.ruta = r
    BY DEF TareaLibre
<1>4. t \in Tarea
    BY <1>1 DEF Tarea, TareaLibre, Pasos, Operaciones
<1> HIDE DEF t
<1>5. Bien(t)
    BY <1>1, <1>3, <1>4 DEF Bien, Al, Fin, Herramientas, Operaciones
<1>6. tarea' \in [Tareas -> Tarea] /\ InvTareas'
    BY <1>2, <1>5, Cambiar
<1>. QED
    BY <1>6, QuietoBien DEF UsarKey, Quieto

\* The fingerprint of a server that answers.
LEMMA HuellaDe ==
    ASSUME IInv, NEW s \in Hosts
    PROVE  huella(s) \in Huellas
BY DEF IInv, TypeOK, huella, Huellas

LEMMA PasoMarcar ==
    ASSUME IInv, NEW h \in Tareas, Marcar(h)
    PROVE  IInv'
<1>0. Bien(tarea[h]) /\ tarea[h] \in Tarea
    BY DEF IInv, InvTareas, Bien
<1>1. CASE acabar(h)
    BY <1>1, Acabar, QuietoBien DEF Marcar, Quieto
<1>2. CASE ~acabar(h)
  <2> DEFINE c == tarea[h].copia
             f == huella(c.host)
             p == IF c.huella = Ninguno THEN "huella" ELSE "registrar"
             t == [tarea[h] EXCEPT !.cli = f, !.viva = TRUE, !.copia = Ninguno,
                                   !.paso = p]
  <2>1. c \in Perfil
      BY <1>0 DEF Marcar, Bien
  <2>2. f \in Huellas
      BY <2>1, HuellaDe DEF Perfil
  <2>3. p \in {"huella", "registrar"}
      OBVIOUS
  <2>4. tarea' = [tarea EXCEPT ![h] = t]
      BY <1>2 DEF Marcar
  <2> HIDE DEF c, f, p
  <2>5. t.cli = f /\ t.paso = p /\ t.op = tarea[h].op
        /\ t.nombre = tarea[h].nombre
      BY <1>0 DEF Tarea
  <2>6. t \in Tarea
      BY <1>0, <2>2, <2>3 DEF Tarea, Pasos
  <2> HIDE DEF t
  <2>7. Bien(t)
      BY <1>0, <2>2, <2>3, <2>5, <2>6 DEF Bien, Al, Fin, Marcar
  <2>8. tarea' \in [Tareas -> Tarea] /\ InvTareas'
      BY <2>4, <2>7, Cambiar
  <2>. QED
      BY <2>8, QuietoBien DEF Marcar, Quieto
<1>. QED
    BY <1>1, <1>2

LEMMA Suya ==
    ASSUME IInv, NEW h \in Tareas
    PROVE  Bien(tarea[h]) /\ tarea[h] \in Tarea
BY DEF IInv, InvTareas, Bien

\* The host of a profile stays when another of its fields changes.
LEMMA PonerCampo ==
    ASSUME IInv, NEW n \in Nombres, NEW q \in Perfil,
           perfiles[n] # Ninguno, q.host = perfiles[n].host,
           perfiles' = [perfiles EXCEPT ![n] = q], UNCHANGED pedido
    PROVE  perfiles' \in Almacen /\ UltimaPalabra'
BY NingunoAssumption DEF IInv, TypeOK, UltimaPalabra, Almacen

LEMMA HuellaPuesta ==
    ASSUME IInv, NEW h \in Tareas, tarea[h].paso = "huella"
    PROVE  /\ ponerHuella(h) \in Almacen
           /\ \A n \in Nombres :
                 /\ ponerHuella(h)[n] = Ninguno <=> perfiles[n] = Ninguno
                 /\ perfiles[n] # Ninguno =>
                       /\ ponerHuella(h)[n].host = perfiles[n].host
                       /\ perfiles[n].huella # Ninguno =>
                             ponerHuella(h)[n].huella = perfiles[n].huella
<1> DEFINE n == tarea[h].nombre
           f == tarea[h].cli
           q == [perfiles[n] EXCEPT !.huella = f]
<1>1. n \in Nombres /\ f \in Huellas
    BY Suya DEF Bien
<1>2. CASE perfiles[n] # Ninguno /\ perfiles[n].huella = Ninguno
  <2>1. ponerHuella(h) = [perfiles EXCEPT ![n] = q]
      BY <1>2 DEF ponerHuella
  <2>2. perfiles[n] \in Perfil
      BY <1>1, <1>2 DEF IInv, TypeOK, Almacen
  <2> HIDE DEF n, f
  <2>3. q \in Perfil /\ q.host = perfiles[n].host
      BY <1>1, <2>2 DEF Perfil
  <2> HIDE DEF q
  <2>. QED
      BY <1>1, <1>2, <2>1, <2>2, <2>3, NingunoAssumption
      DEF IInv, TypeOK, Almacen
<1>3. CASE ~(perfiles[n] # Ninguno /\ perfiles[n].huella = Ninguno)
    BY <1>3 DEF ponerHuella, IInv, TypeOK
<1>. QED
    BY <1>2, <1>3

LEMMA PasoGuardarHuella ==
    ASSUME IInv, NEW h \in Tareas, GuardarHuella(h)
    PROVE  IInv'
<1>1. perfiles' \in Almacen /\ UltimaPalabra'
    BY HuellaPuesta DEF GuardarHuella, IInv, UltimaPalabra, historia
<1>2. tarea' \in [Tareas -> Tarea] /\ InvTareas'
    BY Pasar DEF GuardarHuella, Pasos
<1>3. TypeOK'
    BY <1>1, <1>2 DEF GuardarHuella, IInv, TypeOK, remoto, cuentas, historia
<1>4. InvCuentas'
    BY DEF GuardarHuella, IInv, InvCuentas, remoto, cuentas
<1>. QED
    BY <1>1, <1>2, <1>3, <1>4 DEF IInv

LEMMA PasoRegistrar ==
    ASSUME IInv, NEW h \in Tareas, Registrar(h)
    PROVE  IInv'
<1>1. tarea[h].cli \in Huellas
    BY Suya DEF Registrar, Bien
<1>2. tarea' \in [Tareas -> Tarea] /\ InvTareas'
    BY Acabar DEF Registrar
<1>3. sesiones' \in [Nombres -> Huellas \cup {Ninguno}]
    BY <1>1 DEF Registrar, IInv, TypeOK
<1>4. TypeOK'
    BY <1>2, <1>3 DEF Registrar, IInv, TypeOK, remoto, cuentas, historia
<1>5. InvCuentas' /\ UltimaPalabra'
    BY DEF Registrar, IInv, InvCuentas, UltimaPalabra, remoto, cuentas, historia
<1>. QED
    BY <1>2, <1>4, <1>5 DEF IInv

LEMMA Siguiente ==
    ASSUME TypeOK, usados < MaxTokens
    PROVE  usados + 1 \in Tokens /\ usados + 1 \in 0 .. MaxTokens
BY CotasAssumption DEF TypeOK, Tokens

LEMMA PasoCrearMarcar ==
    ASSUME IInv, NEW h \in Tareas, CrearMarcar(h)
    PROVE  IInv'
<1> DEFINE k == usados + 1
<1>1. CASE acabar(h) /\ UNCHANGED <<usados, sueltas>>
    BY <1>1, Acabar, QuietoBien DEF CrearMarcar, Quieto, historia
<1>2. CASE ~(acabar(h) /\ UNCHANGED <<usados, sueltas>>)
  <2> DEFINE c == tarea[h].copia
             f == huella(c.host)
             r == Fija(tarea[h].nombre)
             t == [tarea[h] EXCEPT !.cli = f, !.viva = TRUE, !.token = k,
                       !.clave = k, !.paso = "instalar", !.ruta = r]
  <2>1. c \in Perfil
      BY Suya DEF CrearMarcar, Bien
  <2>2. f \in Huellas
      BY <2>1, HuellaDe DEF Perfil
  <2>3. /\ tarea' = [tarea EXCEPT ![h] = t]
        /\ usados < MaxTokens /\ usados' = k /\ sueltas' = sueltas \cup {k}
      BY <1>2 DEF CrearMarcar
  <2>4. k \in Tokens /\ k \in Claves /\ k \in 0 .. MaxTokens
      BY <2>3, Siguiente DEF IInv, Claves
  <2>5. r \in Rutas
      BY Suya DEF Bien, CrearMarcar, Rutas
  <2> HIDE DEF c, f, k, r
  <2>6. /\ t.cli = f /\ t.paso = "instalar" /\ t.op = tarea[h].op
        /\ t.nombre = tarea[h].nombre /\ t.copia = tarea[h].copia
        /\ t.token = k /\ t.clave = k /\ t.ruta = r
      BY Suya DEF Tarea
  <2>7. t \in Tarea
      BY Suya, <2>2, <2>4, <2>5 DEF Tarea, Pasos
  <2> HIDE DEF t
  <2>8. Bien(t)
      BY Suya, <2>1, <2>2, <2>4, <2>5, <2>6, <2>7
      DEF Bien, Al, Fin, CrearMarcar, c
  <2>9. tarea' \in [Tareas -> Tarea] /\ InvTareas'
      BY <2>3, <2>8, Cambiar
  <2>10. TypeOK'
      BY <2>3, <2>4, <2>9 DEF CrearMarcar, IInv, TypeOK, remoto, cuentas
  <2>11. InvCuentas' /\ UltimaPalabra'
      BY DEF CrearMarcar, IInv, InvCuentas, UltimaPalabra, remoto, cuentas
  <2>. QED
      BY <2>9, <2>10, <2>11 DEF IInv
<1>. QED
    BY <1>1, <1>2

LEMMA PasoSesion ==
    ASSUME IInv, NEW h \in Tareas, Sesion(h)
    PROVE  IInv'
<1> DEFINE k == usados + 1
<1>1. CASE acabar(h) /\ UNCHANGED usados
    BY <1>1, Acabar, QuietoBien DEF Sesion, Quieto
<1>2. CASE ~(acabar(h) /\ UNCHANGED usados)
  <2> DEFINE s == sesiones[tarea[h].nombre]
             nueva == tarea[h].op = "crearKey"
             c == IF nueva THEN k ELSE tarea[h].clave
             t == [tarea[h] EXCEPT !.cli = s, !.viva = TRUE, !.token = k,
                       !.paso = "instalar", !.clave = c]
  <2>1. s \in Huellas
      BY <1>2, Suya DEF Sesion, Bien, IInv, TypeOK
  <2>2. /\ tarea' = [tarea EXCEPT ![h] = t]
        /\ usados < MaxTokens /\ usados' = k
      BY <1>2 DEF Sesion
  <2>3. k \in Tokens /\ k \in Claves /\ k \in 0 .. MaxTokens
      BY <2>2, Siguiente DEF IInv, Claves
  <2>4. c \in Claves /\ (tarea[h].op # "crearKey" => tarea[h].ruta \in Rutas)
      BY Suya, <2>3 DEF Bien, Sesion, Herramientas
  <2> HIDE DEF s, k, c
  <2>5. /\ t.cli = s /\ t.paso = "instalar" /\ t.op = tarea[h].op
        /\ t.nombre = tarea[h].nombre /\ t.copia = tarea[h].copia
        /\ t.token = k /\ t.clave = c /\ t.ruta = tarea[h].ruta
      BY Suya DEF Tarea
  <2>6. t \in Tarea
      BY Suya, <2>1, <2>3, <2>4 DEF Tarea, Pasos
  <2> HIDE DEF t
  <2>7. Bien(t)
      BY Suya, <2>1, <2>3, <2>4, <2>5, <2>6
      DEF Bien, Al, Fin, Sesion, Herramientas
  <2>8. tarea' \in [Tareas -> Tarea] /\ InvTareas'
      BY <2>2, <2>7, Cambiar
  <2>9. TypeOK'
      BY <2>2, <2>3, <2>8 DEF Sesion, IInv, TypeOK, remoto, cuentas, historia
  <2>10. InvCuentas' /\ UltimaPalabra'
      BY DEF Sesion, IInv, InvCuentas, UltimaPalabra, remoto, cuentas, historia
  <2>. QED
      BY <2>8, <2>9, <2>10 DEF IInv
<1>. QED
    BY <1>1, <1>2

LEMMA Cruce ==
    ASSUME IInv, NEW h \in Tareas, NEW s \in Hosts, marcarCruce(h, s)
    PROVE  perturbados' \subseteq Hosts
BY DEF IInv, TypeOK, marcarCruce

LEMMA Linea ==
    ASSUME IInv, NEW h \in Tareas, Al(tarea[h].paso)
    PROVE  linea(h) \in Lineas /\ servidor(h) \in Hosts
           /\ tarea[h].token \in Tokens
BY Suya DEF Bien, linea, servidor, Lineas, Huellas

\* The file the key is written to, and who else may have it.
LEMMA Destinos ==
    ASSUME IInv, NEW h \in Tareas, tarea[h].paso = "instalar",
           NEW r \in destinos(h)
    PROVE  /\ r \in Rutas
           /\ tarea[h].op # "crearKey" => r = tarea[h].ruta
           /\ tarea[h].op = "crearKey" => \E m \in Tokens : r = Fechada(m)
<1>1. CASE tarea[h].op = "crearKey"
  <2>1. PICK m \in 1 .. usados : r = Fechada(m)
      BY <1>1 DEF destinos
  <2>2. m \in Tokens
      BY <2>1, CotasAssumption DEF IInv, TypeOK, Tokens
  <2>. QED
      BY <1>1, <2>1, <2>2 DEF Rutas
<1>2. CASE tarea[h].op # "crearKey"
    BY <1>2, Suya DEF destinos, Bien, Al
<1>. QED
    BY <1>1, <1>2

LEMMA Coinciden ==
    ASSUME NEW h \in Tareas, NEW r
    PROVE  coinciden(h, r) \subseteq Tokens
BY DEF coinciden

LEMMA PasoInstalar ==
    ASSUME IInv, NEW h \in Tareas, Instalar(h)
    PROVE  IInv'
<1> DEFINE s == servidor(h)
           nueva == ~admite(s, tarea[h].clave)
           puesta == IF nueva
                     THEN [autorizadas EXCEPT ![s] = @ \cup {linea(h)}]
                     ELSE autorizadas
<1>1. /\ Al(tarea[h].paso) /\ s \in Hosts /\ linea(h) \in Lineas
      /\ tarea[h].token \in Tokens
    BY Linea DEF Instalar, Al
<1>2. puesta \in [Hosts -> SUBSET Lineas]
    BY <1>1 DEF IInv, TypeOK
<1>3. perturbados' \subseteq Hosts
    BY <1>1, Cruce DEF Instalar
<1>4. autorizadas' \in [Hosts -> SUBSET Lineas]
    BY <1>2 DEF Instalar, IInv, TypeOK
<1>5. tarea' \in [Tareas -> Tarea] /\ InvTareas'
  <2>1. CASE acabar(h)
      BY <2>1, Acabar
  <2>2. CASE ~acabar(h)
    <3>0. PICK r \in destinos(h) :
             tarea' = [tarea EXCEPT ![h].agregada = nueva, ![h].ruta = r,
                          ![h].paso = IF tarea[h].op = "usarKey" THEN "probar"
                                      ELSE "escribir"]
        BY <2>2 DEF Instalar
    <3> DEFINE p == IF tarea[h].op = "usarKey" THEN "probar" ELSE "escribir"
               t == [tarea[h] EXCEPT !.agregada = nueva, !.ruta = r, !.paso = p]
    <3>1. tarea' = [tarea EXCEPT ![h] = t] /\ r \in Rutas
        BY <3>0, Destinos DEF Instalar
    <3>2. p \in {"probar", "escribir"} /\ nueva \in BOOLEAN
        OBVIOUS
    <3> HIDE DEF p, nueva
    <3>3. /\ t.cli = tarea[h].cli /\ t.paso = p /\ t.op = tarea[h].op
          /\ t.nombre = tarea[h].nombre /\ t.copia = tarea[h].copia
          /\ t.token = tarea[h].token /\ t.clave = tarea[h].clave
          /\ t.ruta = r
        BY Suya DEF Tarea
    <3>4. t \in Tarea
        BY Suya, <3>1, <3>2 DEF Tarea, Pasos
    <3> HIDE DEF t
    <3>5. Bien(t)
        BY Suya, <1>1, <3>1, <3>2, <3>3, <3>4 DEF Bien, Al, Fin, Instalar
    <3>. QED
        BY <3>1, <3>5, Cambiar
  <2>. QED
      BY <2>1, <2>2
<1>6. sueltas' \subseteq Tokens /\ compartidas' \subseteq Tokens
    BY <1>1, Coinciden DEF Instalar, IInv, TypeOK
<1>7. cuentas' = cuentas \/ averiar
    BY DEF Instalar
<1>8. /\ averias' \in 0 .. MaxAverias /\ ediciones' \in 0 .. MaxEdiciones
      /\ InvCuentas'
    BY <1>7, Averiado DEF Instalar, IInv, TypeOK, InvCuentas, cuentas
<1>9. TypeOK'
    BY <1>3, <1>4, <1>5, <1>6, <1>8 DEF Instalar, IInv, TypeOK
<1>10. UltimaPalabra'
    BY DEF Instalar, IInv, UltimaPalabra
<1>. QED
    BY <1>5, <1>8, <1>9, <1>10 DEF IInv

LEMMA Desistir ==
    ASSUME IInv, NEW h \in Tareas, Al(tarea[h].paso), desistir(h)
    PROVE  tarea' \in [Tareas -> Tarea] /\ InvTareas'
<1>1. CASE acabar(h)
    BY <1>1, Acabar
<1>2. CASE ~acabar(h)
  <2> DEFINE t == [tarea[h] EXCEPT !.paso = "filtrar", !.copia = Ninguno,
                                   !.clave = Ninguno, !.ruta = Ninguno]
  <2>1. tarea' = [tarea EXCEPT ![h] = t]
      BY <1>2 DEF desistir
  <2>2. /\ t.cli = tarea[h].cli /\ t.paso = "filtrar" /\ t.op = tarea[h].op
        /\ t.nombre = tarea[h].nombre /\ t.token = tarea[h].token
      BY Suya DEF Tarea
  <2>3. t \in Tarea
      BY Suya DEF Tarea, Pasos
  <2> HIDE DEF t
  <2>4. Bien(t)
      BY Suya, <2>2, <2>3 DEF Bien, Al, Fin
  <2>. QED
      BY <2>1, <2>4, Cambiar
<1>. QED
    BY <1>1, <1>2

LEMMA DiscoSin ==
    ASSUME IInv, NEW h \in Tareas, Al(tarea[h].paso),
           tarea[h].paso # "instalar"
    PROVE  /\ [disco EXCEPT ![tarea[h].ruta] = Ninguno] \in Disco
           /\ [disco EXCEPT ![tarea[h].ruta] = tarea[h].clave] \in Disco
           /\ borrarKey(h) => disco' \in Disco
BY Suya DEF Bien, IInv, TypeOK, Disco, borrarKey

LEMMA PasoEscribir ==
    ASSUME IInv, NEW h \in Tareas, Escribir(h)
    PROVE  IInv'
<1>1. Al(tarea[h].paso) /\ tarea[h].paso # "instalar"
    BY DEF Escribir, Al
<1>2. disco' \in Disco
    BY <1>1, DiscoSin DEF Escribir, IInv, TypeOK
<1>3. tarea' \in [Tareas -> Tarea] /\ InvTareas'
  <2>1. CASE pasar(h, "probar")
      BY <1>1, <2>1, Pasar DEF Al, Pasos
  <2>2. CASE desistir(h)
      BY <1>1, <2>2, Desistir
  <2>. QED
      BY <2>1, <2>2 DEF Escribir
<1>4. /\ averias' \in 0 .. MaxAverias /\ ediciones' \in 0 .. MaxEdiciones
      /\ InvCuentas'
    BY Averiado DEF Escribir, IInv, TypeOK, InvCuentas, cuentas, remoto
<1>5. TypeOK'
    BY <1>2, <1>3, <1>4 DEF Escribir, IInv, TypeOK, remoto, historia
<1>6. UltimaPalabra'
    BY DEF Escribir, IInv, UltimaPalabra, historia
<1>. QED
    BY <1>3, <1>4, <1>5, <1>6 DEF IInv

LEMMA PasoProbar ==
    ASSUME IInv, NEW h \in Tareas, Probar(h)
    PROVE  IInv'
<1>1. Al(tarea[h].paso) /\ tarea[h].paso # "instalar"
    BY DEF Probar, Al
<1>2. disco' \in Disco
    BY <1>1, DiscoSin DEF Probar, IInv, TypeOK
<1>3. tarea' \in [Tareas -> Tarea] /\ InvTareas'
  <2>1. CASE pasar(h, "guardar")
      BY <1>1, <2>1, Pasar DEF Al, Pasos
  <2>2. CASE desistir(h)
      BY <1>1, <2>2, Desistir
  <2>. QED
      BY <2>1, <2>2 DEF Probar
<1>5. TypeOK'
    BY <1>2, <1>3 DEF Probar, IInv, TypeOK, remoto, historia, cuentas
<1>6. UltimaPalabra' /\ InvCuentas'
    BY DEF Probar, IInv, UltimaPalabra, InvCuentas, historia, cuentas, remoto
<1>. QED
    BY <1>3, <1>5, <1>6 DEF IInv

LEMMA KeyPuesta ==
    ASSUME IInv, NEW h \in Tareas, Guardar(h)
    PROVE  /\ perfiles' \in Almacen
           /\ UltimaPalabra'
           /\ pedido' \in [Nombres -> Hosts \cup {Ninguno}]
           /\ \A n \in Nombres : perfiles[n] # Ninguno =>
                 /\ perfiles'[n] # Ninguno
                 /\ perfiles[n].huella # Ninguno =>
                       perfiles'[n].huella = perfiles[n].huella
<1> DEFINE n == tarea[h].nombre
           c == tarea[h].copia
           r == tarea[h].ruta
<1>1. n \in Nombres /\ c \in Perfil /\ r \in Rutas /\ tarea[h].cli \in Huellas
    BY Suya DEF Bien, Al, Guardar
<1>2. CASE tarea[h].op = "crear"
  <2> DEFINE f == IF huellaGuardada(n) = Ninguno THEN tarea[h].cli
                  ELSE huellaGuardada(n)
             q == [host |-> c.host, key |-> r, huella |-> f]
  <2>1. perfiles' = [perfiles EXCEPT ![n] = q]
      BY <1>2 DEF Guardar, conKey
  <2>2. f \in Huellas \cup {Ninguno}
      BY <1>1, HuellaGuardada
  <2>3. (perfiles[n] # Ninguno /\ perfiles[n].huella # Ninguno) =>
            f = perfiles[n].huella
      BY DEF huellaGuardada
  <2>4. pedido' = [pedido EXCEPT ![n] = c.host]
      BY <1>2 DEF Guardar
  <2>5. c.host \in Hosts
      BY <1>1 DEF Perfil
  <2> HIDE DEF n, c, r, f
  <2>6. q \in Perfil /\ q.host = c.host /\ q.huella = f
      BY <1>1, <2>2, <2>5 DEF Perfil
  <2> HIDE DEF q
  <2>. QED
      BY <1>1, <2>1, <2>3, <2>4, <2>5, <2>6, NingunoAssumption
      DEF IInv, TypeOK, UltimaPalabra, Almacen
<1>3. CASE tarea[h].op # "crear"
  <2> DEFINE q == [perfiles[n] EXCEPT !.key = r]
  <2>1. tarea[h].op \in Herramientas
      BY <1>3, Suya DEF Bien, Al, Guardar, Herramientas
  <2>2. perfiles[n] \in Perfil
      BY <1>1, <2>1 DEF Guardar, IInv, TypeOK, Almacen
  <2>3. perfiles' = [perfiles EXCEPT ![n] = q] /\ pedido' = pedido
      BY <1>3 DEF Guardar, conKey
  <2> HIDE DEF n, r
  <2>4. q \in Perfil /\ q.host = perfiles[n].host
        /\ q.huella = perfiles[n].huella
      BY <1>1, <2>2 DEF Perfil
  <2> HIDE DEF q
  <2>. QED
      BY <1>1, <2>2, <2>3, <2>4, NingunoAssumption
      DEF IInv, TypeOK, UltimaPalabra, Almacen
<1>. QED
    BY <1>2, <1>3

LEMMA PasoGuardar ==
    ASSUME IInv, NEW h \in Tareas, Guardar(h)
    PROVE  IInv'
<1>1. tarea[h].copia.host \in Hosts /\ tarea[h].token \in Tokens
    BY Suya DEF Bien, Al, Guardar, Perfil
<1>2. guardadas' \in [Tokens -> Hosts \cup {Ninguno}]
    BY <1>1 DEF Guardar, IInv, TypeOK
<1>3. tarea' \in [Tareas -> Tarea] /\ InvTareas'
    BY Acabar DEF Guardar
<1>4. TypeOK'
    BY <1>2, <1>3, KeyPuesta DEF Guardar, IInv, TypeOK, remoto, incidentes, cuentas
<1>5. InvCuentas'
    BY DEF Guardar, IInv, InvCuentas, remoto, cuentas
<1>. QED
    BY <1>3, <1>4, <1>5, KeyPuesta DEF IInv

LEMMA PasoGuardarFalla ==
    ASSUME IInv, NEW h \in Tareas, GuardarFalla(h)
    PROVE  IInv'
<1>1. Al(tarea[h].paso) /\ tarea[h].paso # "instalar"
    BY DEF GuardarFalla, Al
<1>2. disco' \in Disco
    BY <1>1, DiscoSin DEF GuardarFalla, IInv, TypeOK
<1>3. tarea' \in [Tareas -> Tarea] /\ InvTareas'
    BY <1>1, Desistir DEF GuardarFalla
<1>4. /\ averias' \in 0 .. MaxAverias /\ ediciones' \in 0 .. MaxEdiciones
      /\ InvCuentas'
    BY Averiado DEF GuardarFalla, IInv, TypeOK, InvCuentas, cuentas, remoto
<1>5. /\ perfiles' \in Almacen /\ UltimaPalabra'
      /\ pedido' \in [Nombres -> Hosts \cup {Ninguno}]
  <2>1. CASE UNCHANGED <<perfiles, pedido>>
      BY <2>1 DEF IInv, TypeOK, UltimaPalabra
  <2>2. CASE perfiles' = Vacio /\ apuntar(Vacio)
      BY <2>2, VacioEsAlmacen, Apuntar
  <2>. QED
      BY <2>1, <2>2 DEF GuardarFalla
<1>6. TypeOK'
    BY <1>2, <1>3, <1>4, <1>5 DEF GuardarFalla, IInv, TypeOK, remoto,
       incidentes
<1>. QED
    BY <1>3, <1>4, <1>5, <1>6 DEF IInv

LEMMA PasoFiltrar ==
    ASSUME IInv, NEW h \in Tareas, Filtrar(h)
    PROVE  IInv'
<1> DEFINE s == servidor(h)
           g == {l \in autorizadas[s] : l.token # tarea[h].token}
<1>1. /\ Fin(tarea[h].paso) /\ s \in Hosts
      /\ tarea[h].token \in Tokens
    BY Suya DEF Filtrar, Fin, Bien, servidor, Huellas
<1>2. tarea' \in [Tareas -> Tarea] /\ InvTareas'
  <2>1. CASE pasar(h, "mover")
      BY <1>1, <2>1, Pasar DEF Fin, Pasos
  <2>2. CASE acabar(h)
      BY <2>2, Acabar
  <2>. QED
      BY <2>1, <2>2 DEF Filtrar
<1>3. gwtmp' \in [Hosts -> (SUBSET Lineas) \cup {Ninguno}]
  <2>1. g \in SUBSET Lineas
      BY <1>1 DEF IInv, TypeOK
  <2>2. gwtmp' = gwtmp \/ \E parte \in SUBSET g : gwtmp' = [gwtmp EXCEPT ![s] = parte]
      BY DEF Filtrar
  <2> HIDE DEF s, g
  <2>. QED
      BY <1>1, <2>1, <2>2 DEF IInv, TypeOK
<1> HIDE DEF s, g
<1>4. cuentas' = cuentas \/ averiar
    BY DEF Filtrar
<1>5. /\ averias' \in 0 .. MaxAverias /\ ediciones' \in 0 .. MaxEdiciones
      /\ InvCuentas'
    BY <1>4, Averiado DEF Filtrar, IInv, TypeOK, InvCuentas, cuentas
<1>6. sueltas' \subseteq Tokens /\ recortados' \subseteq Hosts
    BY <1>1 DEF Filtrar, IInv, TypeOK, s
<1>7. TypeOK'
    BY <1>2, <1>3, <1>5, <1>6 DEF Filtrar, IInv, TypeOK
<1>8. UltimaPalabra'
    BY DEF Filtrar, IInv, UltimaPalabra
<1>. QED
    BY <1>2, <1>5, <1>7, <1>8 DEF IInv

LEMMA PasoMover ==
    ASSUME IInv, NEW h \in Tareas, Mover(h)
    PROVE  IInv'
<1> DEFINE s == servidor(h)
           a == IF gwtmp[s] = Ninguno THEN autorizadas[s] ELSE gwtmp[s]
<1>1. s \in Hosts
    BY Suya DEF Mover, Bien, Fin, servidor, Huellas
<1>2. a \in SUBSET Lineas
    BY <1>1 DEF IInv, TypeOK
<1>3. /\ autorizadas' = [autorizadas EXCEPT ![s] = a]
      /\ gwtmp' = [gwtmp EXCEPT ![s] = Ninguno]
      /\ marcarCruce(h, s)
    BY DEF Mover
<1>4. tarea' \in [Tareas -> Tarea] /\ InvTareas'
    BY Acabar DEF Mover
<1> HIDE DEF s, a
<1>5. /\ autorizadas' \in [Hosts -> SUBSET Lineas]
      /\ gwtmp' \in [Hosts -> (SUBSET Lineas) \cup {Ninguno}]
      /\ perturbados' \subseteq Hosts
    BY <1>1, <1>2, <1>3, Cruce DEF IInv, TypeOK
<1>6. TypeOK'
    BY <1>4, <1>5 DEF Mover, IInv, TypeOK, cuentas
<1>7. InvCuentas' /\ UltimaPalabra'
    BY DEF Mover, IInv, InvCuentas, UltimaPalabra, cuentas
<1>. QED
    BY <1>4, <1>6, <1>7 DEF IInv

-----------------------------------------------------------------------------
(* The world.                                                              *)

LEMMA Cortar ==
    ASSUME IInv, NEW T, tarea' = cortar(T)
    PROVE  tarea' \in [Tareas -> Tarea] /\ InvTareas'
<1>1. ASSUME NEW h \in Tareas
      PROVE  Bien(tarea'[h])
  <2>1. CASE h \notin T
      BY <2>1, Suya DEF cortar
  <2>2. CASE h \in T
    <3> DEFINE t == [tarea[h] EXCEPT !.viva = FALSE]
    <3>1. tarea'[h] = t
        BY <2>2 DEF cortar
    <3>2. Bien(t)
        BY Suya DEF Bien, Tarea
    <3>. QED
        BY <3>1, <3>2
  <2>. QED
      BY <2>1, <2>2
<1>2. tarea' = [h \in Tareas |-> tarea'[h]]
    BY DEF cortar
<1>. QED
    BY <1>1, <1>2 DEF InvTareas, Bien

LEMMA TokensDe ==
    ASSUME IInv, NEW T \in SUBSET Tareas
    PROVE  tokensDe(T) \subseteq Tokens
BY Suya DEF tokensDe, Tarea

LEMMA PasoCaerSesion ==
    ASSUME IInv, NEW n \in Nombres, CaerSesion(n)
    PROVE  IInv'
<1> DEFINE T == {h \in Tareas : tarea[h].nombre = n
                    /\ tarea[h].op \in Herramientas /\ tarea[h].viva}
<1>1. /\ tarea' = cortar(T) /\ sueltas' = sueltas \cup tokensDe(T)
      /\ T \in SUBSET Tareas
    BY DEF CaerSesion
<1> HIDE DEF T
<1>2. tarea' \in [Tareas -> Tarea] /\ InvTareas'
    BY <1>1, Cortar
<1>3. sueltas' \subseteq Tokens
    BY <1>1, TokensDe DEF IInv, TypeOK
<1>4. sesiones' \in [Nombres -> Huellas \cup {Ninguno}]
    BY DEF CaerSesion, IInv, TypeOK
<1>5. TypeOK'
    BY <1>2, <1>3, <1>4, Averiado DEF CaerSesion, IInv, TypeOK, remoto
<1>6. InvCuentas' /\ UltimaPalabra'
    BY Averiado
    DEF CaerSesion, IInv, InvCuentas, UltimaPalabra, remoto
<1>. QED
    BY <1>2, <1>5, <1>6 DEF IInv

LEMMA PasoCaerCliente ==
    ASSUME IInv, NEW h \in Tareas, CaerCliente(h)
    PROVE  IInv'
<1>1. tarea' \in [Tareas -> Tarea] /\ InvTareas'
    BY Cortar DEF CaerCliente
<1>2. TypeOK'
    BY <1>1, Averiado DEF CaerCliente, IInv, TypeOK, remoto, historia
<1>3. InvCuentas' /\ UltimaPalabra'
    BY Averiado
    DEF CaerCliente, IInv, InvCuentas, UltimaPalabra, remoto, historia
<1>. QED
    BY <1>1, <1>2, <1>3 DEF IInv

LEMMA PasoReinstalar ==
    ASSUME IInv, NEW s \in Hosts, Reinstalar(s)
    PROVE  IInv'
<1>1. tarea' \in [Tareas -> Tarea] /\ InvTareas'
    BY Cortar DEF Reinstalar
<1>2. instalacion' = [instalacion EXCEPT ![s] = instalacion[s] + 1]
    BY DEF Reinstalar
<1>3. instalacion' \in [Hosts -> 0 .. MaxAverias] /\ InvCuentas'
    BY <1>2, Averiado DEF Reinstalar, IInv, TypeOK, InvCuentas
<1>4. /\ autorizadas' \in [Hosts -> SUBSET Lineas]
      /\ gwtmp' \in [Hosts -> (SUBSET Lineas) \cup {Ninguno}]
      /\ perturbados' \subseteq Hosts
    BY DEF Reinstalar, IInv, TypeOK
<1>5. sesiones' \in [Nombres -> Huellas \cup {Ninguno}]
    BY DEF Reinstalar, IInv, TypeOK
<1>6. TypeOK'
    BY <1>1, <1>3, <1>4, <1>5, Averiado DEF Reinstalar, IInv, TypeOK
<1>7. UltimaPalabra'
    BY DEF Reinstalar, IInv, UltimaPalabra
<1>. QED
    BY <1>1, <1>3, <1>6, <1>7 DEF IInv

LEMMA PasoMorir ==
    ASSUME IInv, Morir
    PROVE  IInv'
<1> DEFINE fuera == {h \in Tareas : tarea[h].paso # "mover"}
<1>1. /\ tarea' = [h \in Tareas |-> IF h \in fuera THEN TareaLibre
                     ELSE [tarea[h] EXCEPT !.viva = FALSE]]
      /\ sueltas' = sueltas \cup tokensDe(fuera) /\ fuera \in SUBSET Tareas
    BY DEF Morir
<1> HIDE DEF fuera
<1>2. ASSUME NEW h \in Tareas
      PROVE  Bien(tarea'[h])
  <2>1. CASE h \in fuera
      BY <1>1, <2>1, LibreBien
  <2>2. CASE h \notin fuera
    <3> DEFINE t == [tarea[h] EXCEPT !.viva = FALSE]
    <3>1. tarea'[h] = t
        BY <1>1, <2>2
    <3>2. Bien(t)
        BY Suya DEF Bien, Tarea
    <3>. QED
        BY <3>1, <3>2
  <2>. QED
      BY <2>1, <2>2
<1>3. tarea' \in [Tareas -> Tarea] /\ InvTareas'
  <2>1. tarea' = [h \in Tareas |-> tarea'[h]]
      BY <1>1
  <2>. QED
      BY <1>2, <2>1 DEF InvTareas, Bien
<1>4. sueltas' \subseteq Tokens
    BY <1>1, TokensDe DEF IInv, TypeOK
<1>5. /\ perfiles' \in Almacen /\ UltimaPalabra'
      /\ pedido' \in [Nombres -> Hosts \cup {Ninguno}]
  <2>1. CASE UNCHANGED <<perfiles, pedido>>
      BY <2>1 DEF IInv, TypeOK, UltimaPalabra
  <2>2. CASE perfiles' = Vacio /\ apuntar(Vacio)
      BY <2>2, VacioEsAlmacen, Apuntar
  <2>. QED
      BY <2>1, <2>2 DEF Morir
<1>6. sesiones' \in [Nombres -> Huellas \cup {Ninguno}]
    BY DEF Morir
<1>7. TypeOK'
    BY <1>3, <1>4, <1>5, <1>6, Averiado DEF Morir, IInv, TypeOK, remoto
<1>8. InvCuentas'
    BY Averiado DEF Morir, IInv, InvCuentas, remoto
<1>. QED
    BY <1>3, <1>5, <1>7, <1>8 DEF IInv

-----------------------------------------------------------------------------
(* Every step.                                                             *)

LEMMA PasoUsuario == ASSUME IInv, Usuario PROVE IInv'
<1>1. CASE \E n \in Nombres, s \in Hosts : \E k \in {Ninguno} \cup
              (IF perfiles[n] = Ninguno THEN {Local} ELSE {perfiles[n].key}) :
              Editar(n, s, k)
  <2>1. PICK n \in Nombres, s \in Hosts : \E k \in {Ninguno} \cup
              (IF perfiles[n] = Ninguno THEN {Local} ELSE {perfiles[n].key}) :
              Editar(n, s, k)
      BY <1>1
  <2>2. PICK k \in {Ninguno} \cup
              (IF perfiles[n] = Ninguno THEN {Local} ELSE {perfiles[n].key}) :
              Editar(n, s, k)
      BY <2>1
  <2>3. k \in Rutas \cup {Ninguno}
      BY <2>2 DEF Rutas, IInv, TypeOK, Almacen, Perfil
  <2>. QED
      BY <2>2, <2>3, PasoEditar
<1>2. CASE \E n \in Nombres : Borrar(n)
    BY <1>2, PasoBorrar
<1>3. CASE \E p \in Paquetes, r \in BOOLEAN : Importar(p, r)
    BY <1>3, PasoImportar
<1>. QED
    BY <1>1, <1>2, <1>3 DEF Usuario

LEMMA PasoPeticion == ASSUME IInv, NEW h \in Tareas, Peticion(h) PROVE IInv'
<1>1. ASSUME NEW n \in Nombres, NEW r \in {Local, Fija(n)}, UsarKey(h, n, r)
      PROVE  IInv'
  <2>1. r \in Rutas
      BY DEF Rutas
  <2>. QED
      BY <1>1, <2>1, PasoUsarKey
<1>. QED
    BY <1>1, PasoConectar, PasoMarcar, PasoGuardarHuella, PasoRegistrar,
       PasoCrear, PasoCrearMarcar, PasoCrearKey, PasoSesion, PasoInstalar,
       PasoEscribir, PasoProbar, PasoGuardar, PasoGuardarFalla, PasoFiltrar,
       PasoMover DEF Peticion

LEMMA PasoMundo == ASSUME IInv, Mundo PROVE IInv'
BY PasoPerderAlmacen, PasoCaerSesion, PasoCaerCliente, PasoReinstalar,
   PasoMorir DEF Mundo

LEMMA PasoIInv == ASSUME IInv, [Next]_vars PROVE IInv'
<1>1. CASE Usuario
    BY <1>1, PasoUsuario
<1>2. CASE \E h \in Tareas : Peticion(h)
    BY <1>2, PasoPeticion
<1>3. CASE Mundo
    BY <1>3, PasoMundo
<1>4. CASE UNCHANGED vars
    BY <1>4 DEF vars, remoto, cuentas, historia, IInv, TypeOK, InvTareas,
       InvCuentas, UltimaPalabra
<1>. QED
    BY <1>1, <1>2, <1>3, <1>4 DEF Next

\* The inductive invariant holds in every reachable state.
THEOREM Invariante == Spec => []IInv
<1>1. Init => IInv
    BY Iniciales
<1>2. IInv /\ [Next]_vars => IInv'
    BY PasoIInv
<1>. QED
    BY <1>1, <1>2, PTL DEF Spec

\* Every variable of the store, the servers and the handlers has its type.
THEOREM TipoCorrecto == Spec => []TypeOK
<1>1. IInv => TypeOK
    BY DEF IInv
<1>. QED
    BY <1>1, Invariante, PTL

\* The store says of every profile what its last edit, deletion or import
\* said, however many handlers save what they learnt from a server.
THEOREM AlmacenAlDia == Spec => []UltimaPalabra
<1>1. IInv => UltimaPalabra
    BY DEF IInv
<1>. QED
    BY <1>1, Invariante, PTL

-----------------------------------------------------------------------------
(* The fingerprint.                                                        *)

Firme ==
    \A n \in Nombres :
        (/\ tarea' # tarea
         /\ perfiles[n] # Ninguno /\ perfiles'[n] # Ninguno
         /\ perfiles[n].huella # Ninguno)
        => perfiles'[n].huella = perfiles[n].huella

LEMMA PerfilesQuietos ==
    ASSUME perfiles' = perfiles \/ tarea' = tarea \/ perfiles' = Vacio
    PROVE  Firme
BY DEF Firme, Vacio

LEMMA PasoFirme == ASSUME IInv, [Next]_vars PROVE Firme
<1>1. CASE Usuario
    BY <1>1, PerfilesQuietos DEF Usuario, Editar, Borrar, Importar
<1>2. CASE Mundo
    BY <1>2, PerfilesQuietos DEF Mundo, PerderAlmacen, CaerSesion, CaerCliente,
       Reinstalar, Morir, historia
<1>3. CASE UNCHANGED vars
    BY <1>3, PerfilesQuietos DEF vars
<1>4. ASSUME NEW h \in Tareas, Peticion(h)
      PROVE  Firme
  <2>1. CASE GuardarHuella(h)
      BY <2>1, HuellaPuesta DEF GuardarHuella, Firme
  <2>2. CASE Guardar(h)
      BY <2>2, KeyPuesta DEF Firme
  <2>3. CASE GuardarFalla(h)
      BY <2>3, PerfilesQuietos DEF GuardarFalla
  <2>4. CASE ~(GuardarHuella(h) \/ Guardar(h) \/ GuardarFalla(h))
      BY <1>4, <2>4, PerfilesQuietos DEF Peticion, Conectar, Marcar, Registrar,
         Crear, CrearMarcar, CrearKey, UsarKey, Sesion, Instalar, Escribir,
         Probar, Filtrar, Mover
  <2>. QED
      BY <2>1, <2>2, <2>3, <2>4
<1>. QED
    BY <1>1, <1>2, <1>3, <1>4 DEF Next

\* TOFU: no handler ever replaces the fingerprint a profile has, for any
\* number of handlers that met any servers.
THEOREM TofuFirme == Spec => HuellaFirme
<1>1. IInv /\ [Next]_vars => [Firme]_vars
    BY PasoFirme
<1>. QED
    BY <1>1, Invariante, PTL DEF Spec, HuellaFirme, Firme

-----------------------------------------------------------------------------
(* The keys.                                                               *)

LEMMA Iniciales2 == Init => IInv2
<1> SUFFICES ASSUME Init PROVE IInv2
    OBVIOUS
<1>1. ASSUME NEW h \in Tareas
      PROVE  /\ tarea[h].token = Ninguno /\ tarea[h].clave = Ninguno
             /\ tarea[h].paso = "libre" /\ tarea[h].op = Ninguno
             /\ tarea[h].viva = FALSE
    BY DEF Init, TareaLibre
<1>2. \A s \in Hosts : lineas(s) = {} /\ autorizadas[s] = {}
    BY DEF Init, lineas, pendientes
<1>3. InvPropio
    BY <1>1 DEF InvPropio, Propio, Al, Fin, Init, TareaLibre
<1>4. InvTokens
  <2>1. \A r \in Rutas : disco[r] # Ninguno => disco[r] <= usados
      BY DEF Init, Propia
  <2>2. \A t \in Tokens : guardadas[t] = Ninguno
      BY DEF Init
  <2>. QED
      BY <1>1, <1>2, <2>1, <2>2 DEF InvTokens
<1>5. InvSueltas /\ InvLineas /\ InvMover /\ InvObra
    BY <1>1, <1>2 DEF InvSueltas, InvLineas, InvMover, InvObra, EnObra, Al
<1>6. InvHechas
    BY NingunoAssumption DEF Init, InvHechas, Rutas
<1>7. SinResiduos
    BY <1>2 DEF SinResiduos
<1>. QED
    BY <1>3, <1>4, <1>5, <1>6, <1>7 DEF IInv2

\* A handler with a token is between the installation and the end, and the
\* places it names exist.
LEMMA ConToken ==
    ASSUME IInv, InvPropio, NEW h \in Tareas
    PROVE  /\ tarea[h].token # Ninguno <=> Al(tarea[h].paso) \/ Fin(tarea[h].paso)
           /\ tarea[h].token # Ninguno =>
                 /\ tarea[h].token \in Tokens
                 /\ servidor(h) \in Hosts
                 /\ tarea[h].op \in {"crear", "crearKey", "usarKey"}
                 /\ tarea[h].paso # "libre"
<1>1. tarea[h].token # Ninguno => Al(tarea[h].paso) \/ Fin(tarea[h].paso)
    BY DEF InvPropio, Propio
<1>2. Al(tarea[h].paso) \/ Fin(tarea[h].paso) => tarea[h].token \in Tokens
    BY Suya DEF Bien
<1>3. Ninguno \notin Tokens
    BY NingunoAssumption DEF Claves
<1>. QED
    BY <1>1, <1>2, <1>3, Suya DEF Bien, servidor, Huellas, Al, Fin

LEMMA ConTokenPrima ==
    ASSUME IInv', InvPropio', NEW h \in Tareas
    PROVE  /\ tarea'[h].token # Ninguno
                 <=> Al(tarea'[h].paso) \/ Fin(tarea'[h].paso)
           /\ tarea'[h].token # Ninguno =>
                 /\ tarea'[h].token \in Tokens
                 /\ servidor(h)' \in Hosts
                 /\ tarea'[h].op \in {"crear", "crearKey", "usarKey"}
<1>1. Bien(tarea'[h]) /\ tarea'[h] \in Tarea
    BY DEF IInv, InvTareas, Bien
<1>2. Propio(tarea'[h])
    BY DEF InvPropio
<1>3. Ninguno \notin Tokens
    BY NingunoAssumption DEF Claves
<1>. QED
    BY <1>1, <1>2, <1>3 DEF Bien, Propio, servidor, Huellas, Al, Fin

\* What a step may do to a handler that does not work on the files.
Sigue(h) ==
    \/ tarea'[h] = tarea[h]
    \/ /\ tarea[h].token = Ninguno /\ tarea'[h].token = Ninguno
       /\ Propio(tarea'[h])
       /\ \/ tarea'[h].clave \in {tarea[h].clave, Ninguno}
          \/ \E r \in Fijas : tarea'[h].clave = disco[r]
    \/ /\ tarea'[h] = TareaLibre
       /\ tarea[h].paso # "mover"
       /\ tarea[h].token \in sueltas' \/ servidor(h) \in perturbados'
    \/ /\ tarea'[h] = [tarea[h] EXCEPT !.viva = FALSE]
       /\ \/ tarea[h].paso = "mover" \/ tarea[h].token \in sueltas'
          \/ servidor(h) \in perturbados'

\* No profile gets a key made by a handler.
MenosKeys ==
    \A n \in Nombres, t \in Tokens :
        (perfiles'[n] # Ninguno /\ perfiles'[n].key = Fechada(t)) =>
            perfiles[n] # Ninguno /\ perfiles[n].key = Fechada(t)

\* The files of a server stay, or it is installed again.
LineasQuietas ==
    \A s \in Hosts :
        \/ autorizadas'[s] = autorizadas[s] /\ gwtmp'[s] = gwtmp[s]
        \/ s \in perturbados' /\ autorizadas'[s] = {} /\ gwtmp'[s] = Ninguno

LEMMA FijasSonRutas == Fijas \subseteq Rutas /\ \A t \in Tokens : Fechada(t) \in Rutas \ Fijas
BY DEF Fijas, Rutas, Local, Restaurada, Fija, Fechada

LEMMA LibrePropia == Propio(TareaLibre) /\ TareaLibre.token = Ninguno
                     /\ TareaLibre.clave = Ninguno /\ TareaLibre.paso = "libre"
BY DEF Propio, TareaLibre, Al, Fin

LEMMA PasoSigue ==
    ASSUME IInv, IInv2, IInv', \A h \in Tareas : Sigue(h),
           UNCHANGED <<disco, usados, guardadas, recortados, compartidas>>,
           sueltas \subseteq sueltas',
           perturbados \subseteq perturbados', LineasQuietas, MenosKeys
    PROVE  IInv2'
<1>1. ASSUME NEW h \in Tareas, tarea'[h].token # Ninguno
      PROVE  /\ tarea'[h].token = tarea[h].token /\ tarea'[h].op = tarea[h].op
             /\ tarea'[h].cli = tarea[h].cli /\ tarea'[h].paso = tarea[h].paso
             /\ tarea'[h].agregada = tarea[h].agregada
             /\ tarea'[h].clave = tarea[h].clave
             /\ tarea'[h].ruta = tarea[h].ruta
             /\ tarea'[h].copia = tarea[h].copia
             /\ servidor(h)' = servidor(h)
             /\ \/ tarea'[h].viva = tarea[h].viva \/ tarea[h].paso = "mover"
                \/ tarea[h].token \in sueltas' \/ servidor(h) \in perturbados'
    BY <1>1, LibrePropia, Suya DEF Sigue, Tarea, servidor
<1>2. ASSUME NEW h \in Tareas, tarea'[h].clave # Ninguno
      PROVE  \/ tarea'[h].clave = tarea[h].clave
             \/ \E r \in Fijas : tarea'[h].clave = disco[r]
    BY <1>2, LibrePropia, Suya DEF Sigue, Tarea
<1>3. \A s \in Hosts : lineas(s)' \subseteq lineas(s)
    BY DEF LineasQuietas, lineas, pendientes
<1>4. \A s \in Hosts : s \notin perturbados' =>
         autorizadas'[s] = autorizadas[s] /\ gwtmp'[s] = gwtmp[s]
         /\ s \notin perturbados
    BY DEF LineasQuietas
<1>5. InvPropio'
  <2>1. ASSUME NEW h \in Tareas
        PROVE  Propio(tarea'[h])
    <3>1. CASE tarea'[h] = [tarea[h] EXCEPT !.viva = FALSE]
        BY <3>1, Suya DEF IInv2, InvPropio, Propio, Tarea
    <3>2. CASE tarea'[h] # [tarea[h] EXCEPT !.viva = FALSE]
        BY <3>2, LibrePropia DEF Sigue, IInv2, InvPropio
    <3>. QED
        BY <3>1, <3>2
  <2>. QED
      BY <2>1 DEF InvPropio
<1>6. InvTokens'
  <2>1. \A h \in Tareas : tarea'[h].token # Ninguno =>
          /\ tarea'[h].token <= usados'
          /\ guardadas'[tarea'[h].token] = Ninguno
          /\ \A g \in Tareas : tarea'[g].token = tarea'[h].token => g = h
      BY <1>1 DEF IInv2, InvTokens
  <2>2. \A h \in Tareas : tarea'[h].clave # Ninguno =>
          tarea'[h].clave <= usados'
      BY <1>2, FijasSonRutas DEF IInv2, InvTokens
  <2>3. \A s \in Hosts : \A l \in lineas(s)' :
          l.clave <= usados' /\ l.token <= usados'
      BY <1>3 DEF IInv2, InvTokens
  <2>. QED
      BY <2>1, <2>2, <2>3 DEF IInv2, InvTokens
<1>7. InvSueltas'
    BY <1>1 DEF IInv2, InvSueltas
<1>8. InvLineas'
  <2> SUFFICES ASSUME NEW h \in Tareas, NEW s \in Hosts, NEW l \in lineas(s)',
                      tarea'[h].token = l.token
               PROVE  s = servidor(h)' /\ tarea'[h].agregada
                      /\ tarea'[h].paso # "instalar"
      BY DEF InvLineas
  <2>1. l \in lineas(s) /\ l.token \in Tokens
      BY <1>3 DEF IInv, TypeOK, lineas, pendientes, Lineas
  <2>2. tarea'[h].token # Ninguno
      BY <2>1, NingunoAssumption DEF Claves
  <2>. QED
      BY <1>1, <2>1, <2>2 DEF IInv2, InvLineas
<1>9. InvMover'
  <2> SUFFICES ASSUME NEW h \in Tareas, tarea'[h].paso = "mover",
                      servidor(h)' \notin perturbados'
               PROVE  /\ gwtmp'[servidor(h)'] = Ninguno =>
                            tarea'[h].token \in sueltas'
                      /\ (gwtmp'[servidor(h)'] # Ninguno
                            /\ ~cruce(h, servidor(h))') =>
                            /\ gwtmp'[servidor(h)'] \subseteq sinSuya(h)'
                            /\ servidor(h)' \notin recortados' =>
                                  gwtmp'[servidor(h)'] = sinSuya(h)'
      BY DEF InvMover
  <2>1. tarea'[h].token # Ninguno
      BY <1>5, ConTokenPrima DEF Fin
  <2>2. tarea[h].paso = "mover" /\ servidor(h)' = servidor(h)
        /\ tarea'[h].token = tarea[h].token /\ servidor(h) \in Hosts
      BY <1>1, <2>1, ConToken DEF IInv2
  <2>3. cruce(h, servidor(h)) => cruce(h, servidor(h))'
    <3> SUFFICES ASSUME NEW g \in Tareas \ {h}, tarea[g].paso = "mover",
                        servidor(g) = servidor(h)
                 PROVE  cruce(h, servidor(h))'
        BY DEF cruce
    <3>1. tarea[g].token # Ninguno
        BY ConToken DEF IInv2, Fin
    <3>2. tarea'[g].paso = "mover" /\ servidor(g)' = servidor(g)
        BY <3>1, Suya DEF Sigue, Tarea, servidor
    <3>. QED
        BY <2>2, <3>2 DEF cruce
  <2>4. sinSuya(h)' = sinSuya(h)
      BY <1>4, <2>2 DEF sinSuya
  <2>. QED
      BY <1>4, <2>2, <2>3, <2>4 DEF IInv2, InvMover
<1>10. InvObra'
  <2> SUFFICES ASSUME NEW h \in Tareas, EnObra(h)'
               PROVE  /\ \A r \in Fijas : disco[r] # tarea'[h].token
                      /\ \A g \in Tareas :
                            tarea'[g].clave = tarea'[h].token => g = h
                      /\ \A s \in Hosts : \A l \in lineas(s)' :
                            l.clave = tarea'[h].token => l.token = tarea'[h].token
                      /\ (tarea'[h].paso \in {"probar", "guardar"}
                            /\ tarea'[h].ruta = Fechada(tarea'[h].token)
                            /\ tarea'[h].token \notin compartidas) =>
                            disco[Fechada(tarea'[h].token)] = tarea'[h].token
                      /\ (tarea'[h].paso = "guardar"
                            /\ tarea'[h].copia.host \notin perturbados' \cup recortados) =>
                            suLinea(tarea'[h].token)
                               \in autorizadas'[tarea'[h].copia.host]
      BY DEF InvObra
  <2>1. tarea'[h].token # Ninguno
      BY <1>5, ConTokenPrima DEF EnObra
  <2>2. EnObra(h) /\ tarea'[h].token = tarea[h].token
        /\ tarea'[h].paso = tarea[h].paso /\ tarea'[h].copia = tarea[h].copia
        /\ tarea'[h].ruta = tarea[h].ruta
      BY <1>1, <2>1 DEF EnObra
  <2>3. tarea[h].copia.host \in Hosts
      BY <2>2, Suya DEF EnObra, Bien, Perfil
  <2>4. ASSUME NEW g \in Tareas, tarea'[g].clave = tarea'[h].token
        PROVE  g = h
      BY <1>2, <2>1, <2>2, <2>4 DEF IInv2, InvObra
  <2>. QED
      BY <1>3, <1>4, <2>2, <2>3, <2>4 DEF IInv2, InvObra
<1>11. InvHechas'
    BY <1>4 DEF IInv2, InvHechas, MenosKeys
<1>12. SinResiduos'
  <2> SUFFICES ASSUME NEW s \in Hosts \ perturbados', NEW l \in autorizadas'[s]
               PROVE  \/ guardadas[l.token] # Ninguno
                      \/ l.token \in sueltas'
                      \/ \E h \in Tareas : tarea'[h].token = l.token
      BY DEF SinResiduos
  <2>1. s \notin perturbados /\ l \in autorizadas[s] /\ l \in lineas(s)
      BY <1>4 DEF lineas
  <2>2. CASE \E h \in Tareas : tarea[h].token = l.token
    <3>1. PICK h \in Tareas : tarea[h].token = l.token
        BY <2>2
    <3>2. s = servidor(h)
        BY <2>1, <3>1 DEF IInv2, InvLineas
    <3>3. l.token \in Tokens /\ l.token # Ninguno
        BY <2>1, NingunoAssumption DEF IInv, TypeOK, Lineas, Claves
    <3>. QED
        BY <3>1, <3>2, <3>3, Suya DEF Sigue, Tarea
  <2>. QED
      BY <2>1, <2>2 DEF IInv2, SinResiduos
<1>. QED
    BY <1>5, <1>6, <1>7, <1>8, <1>9, <1>10, <1>11, <1>12 DEF IInv2

\* The steps that do not touch the files.  A handler that moves without a key.
LEMMA SigueSolo ==
    ASSUME IInv, IInv2, NEW h \in Tareas, NEW t, Propio(t),
           t.token = Ninguno, t.clave = Ninguno, tarea[h].token = Ninguno,
           tarea' = [tarea EXCEPT ![h] = t]
    PROVE  \A g \in Tareas : Sigue(g)
BY DEF Sigue, IInv, TypeOK

LEMMA SigueAcabar ==
    ASSUME IInv, IInv2, NEW h \in Tareas, acabar(h),
           \/ tarea[h].token = Ninguno
           \/ /\ tarea[h].paso # "mover"
              /\ tarea[h].token \in sueltas' \/ servidor(h) \in perturbados'
    PROVE  \A g \in Tareas : Sigue(g)
BY LibrePropia DEF acabar, Sigue, IInv, TypeOK

LEMMA SigueEmpezar ==
    ASSUME IInv, IInv2, NEW h \in Tareas, NEW op, NEW n, NEW c,
           NEW p \in {"marcar", "sesion"}, op # "usarKey",
           ~ocupado(h), empezar(h, op, p, n, c)
    PROVE  \A g \in Tareas : Sigue(g)
<1> DEFINE t == [TareaLibre EXCEPT !.op = op, !.paso = p, !.nombre = n,
                                   !.copia = c]
<1>1. tarea' = [tarea EXCEPT ![h] = t]
    BY DEF empezar
<1>2. t.paso = p /\ t.op = op /\ t.token = Ninguno /\ t.clave = Ninguno
    BY DEF TareaLibre
<1> HIDE DEF t
<1>3. tarea[h].token = Ninguno
    BY ConToken DEF IInv2, ocupado
<1>4. Propio(t)
    BY <1>2 DEF Propio, Al, Fin
<1>. QED
    BY <1>1, <1>2, <1>3, <1>4, SigueSolo

\* The store, the files and the histories do not change.
LEMMA QuietoSigue ==
    ASSUME IInv, IInv2, IInv', Quieto, \A g \in Tareas : Sigue(g)
    PROVE  IInv2'
<1>1. LineasQuietas /\ MenosKeys
    BY DEF Quieto, LineasQuietas, MenosKeys, remoto
<1>2. /\ UNCHANGED <<disco, usados, guardadas, recortados, compartidas>>
      /\ sueltas \subseteq sueltas' /\ perturbados \subseteq perturbados'
    BY DEF Quieto, historia
<1>. QED
    BY <1>1, <1>2, PasoSigue

\* Only the profiles change.
LEMMA AlmacenSigue ==
    ASSUME IInv, IInv2, IInv', MenosKeys,
           UNCHANGED <<disco, remoto, usados, guardadas, incidentes>>,
           \A g \in Tareas : Sigue(g)
    PROVE  IInv2'
<1>1. LineasQuietas
    BY DEF LineasQuietas, remoto
<1>. QED
    BY <1>1, PasoSigue DEF incidentes

LEMMA MenosEditar ==
    ASSUME IInv, NEW n \in Nombres, NEW s \in Hosts,
           NEW k \in {Ninguno} \cup
              (IF perfiles[n] = Ninguno THEN {Local} ELSE {perfiles[n].key}),
           Editar(n, s, k)
    PROVE  MenosKeys
<1> DEFINE p == [host |-> s, huella |-> huellaGuardada(n), key |-> k]
<1>1. perfiles' = [perfiles EXCEPT ![n] = p] /\ p.key = k
    BY DEF Editar
<1> HIDE DEF p
<1>2. \A t \in Tokens : k = Fechada(t) =>
         perfiles[n] # Ninguno /\ perfiles[n].key = k
    BY NingunoAssumption, FijasSonRutas DEF Fijas
<1>. QED
    BY <1>1, <1>2 DEF MenosKeys, IInv, TypeOK, Almacen

LEMMA Paso2Usuario ==
    ASSUME IInv, IInv2, IInv', Usuario, ~\E p \in Paquetes, r \in BOOLEAN : Importar(p, r)
    PROVE  IInv2'
<1>1. CASE \E n \in Nombres, s \in Hosts : \E k \in {Ninguno} \cup
              (IF perfiles[n] = Ninguno THEN {Local} ELSE {perfiles[n].key}) :
              Editar(n, s, k)
  <2>1. PICK n \in Nombres, s \in Hosts : \E k \in {Ninguno} \cup
              (IF perfiles[n] = Ninguno THEN {Local} ELSE {perfiles[n].key}) :
              Editar(n, s, k)
      BY <1>1
  <2>2. PICK k \in {Ninguno} \cup
              (IF perfiles[n] = Ninguno THEN {Local} ELSE {perfiles[n].key}) :
              Editar(n, s, k)
      BY <2>1
  <2>3. MenosKeys
      BY <2>2, MenosEditar
  <2>. QED
      BY <2>2, <2>3, AlmacenSigue DEF Editar, Sigue
<1>2. ASSUME NEW n \in Nombres, Borrar(n) PROVE IInv2'
  <2>1. MenosKeys
      BY <1>2 DEF Borrar, MenosKeys, IInv, TypeOK, Almacen
  <2>. QED
      BY <1>2, <2>1, AlmacenSigue DEF Borrar, Sigue
<1>. QED
    BY <1>1, <1>2 DEF Usuario

LEMMA Paso2PerderAlmacen ==
    ASSUME IInv, IInv2, IInv', PerderAlmacen
    PROVE  IInv2'
<1>1. MenosKeys
    BY DEF PerderAlmacen, MenosKeys, Vacio
<1>. QED
    BY <1>1, AlmacenSigue DEF PerderAlmacen, Sigue

LEMMA Paso2Empezar ==
    ASSUME IInv, IInv2, IInv', NEW h \in Tareas, NEW n \in Nombres,
           \/ Conectar(h, n) \/ CrearKey(h, n)
           \/ \E s \in Hosts : Crear(h, n, s)
    PROVE  IInv2'
<1>1. CASE Conectar(h, n)
    BY <1>1, SigueEmpezar, QuietoSigue DEF Conectar, Quieto
<1>2. CASE CrearKey(h, n)
    BY <1>2, SigueEmpezar, QuietoSigue DEF CrearKey, Quieto
<1>3. ASSUME NEW s \in Hosts, Crear(h, n, s)
      PROVE  IInv2'
    BY <1>3, SigueEmpezar, QuietoSigue DEF Crear, Quieto
<1>. QED
    BY <1>1, <1>2, <1>3

LEMMA Paso2UsarKey ==
    ASSUME IInv, IInv2, IInv', NEW h \in Tareas, NEW n \in Nombres,
           NEW r \in Fijas, UsarKey(h, n, r)
    PROVE  IInv2'
<1> DEFINE c == [perfiles[n] EXCEPT !.key = Ninguno]
           k == disco[r]
           t == [TareaLibre EXCEPT !.op = "usarKey", !.paso = "sesion",
                    !.nombre = n, !.copia = c, !.clave = k, !.ruta = r]
<1>2. tarea' = [tarea EXCEPT ![h] = t]
    BY DEF UsarKey
<1> HIDE DEF c
<1>3. /\ t.op = "usarKey" /\ t.paso = "sesion" /\ t.clave = disco[r]
      /\ t.ruta = r /\ t.token = Ninguno
    BY DEF TareaLibre
<1> HIDE DEF t
<1>4. Propio(t)
    BY <1>3 DEF Propio, Al, Fin
<1>5. tarea[h].token = Ninguno
    BY ConToken DEF IInv2, ocupado, UsarKey
<1>6. \A g \in Tareas : Sigue(g)
    BY <1>2, <1>3, <1>4, <1>5 DEF Sigue, IInv, TypeOK
<1>. QED
    BY <1>6, QuietoSigue DEF UsarKey, Quieto

\* The handlers of /api/conectar have no key of their own.
LEMMA SinToken ==
    ASSUME IInv, IInv2, NEW h \in Tareas,
           tarea[h].paso \in {"marcar", "huella", "registrar", "sesion"}
    PROVE  tarea[h].token = Ninguno
           /\ (tarea[h].paso # "sesion" => tarea[h].clave = Ninguno)
BY ConToken DEF IInv2, InvPropio, Propio, Al, Fin

LEMMA Paso2Marcar ==
    ASSUME IInv, IInv2, IInv', NEW h \in Tareas, Marcar(h)
    PROVE  IInv2'
<1>1. tarea[h].token = Ninguno /\ tarea[h].clave = Ninguno
    BY SinToken DEF Marcar
<1>2. CASE acabar(h)
    BY <1>1, <1>2, SigueAcabar, QuietoSigue DEF Marcar, Quieto
<1>3. CASE ~acabar(h)
  <2> DEFINE c == tarea[h].copia
             f == huella(c.host)
             p == IF c.huella = Ninguno THEN "huella" ELSE "registrar"
             t == [tarea[h] EXCEPT !.cli = f, !.viva = TRUE, !.copia = Ninguno,
                                   !.paso = p]
  <2>1. tarea' = [tarea EXCEPT ![h] = t]
      BY <1>3 DEF Marcar
  <2>2. p \in {"huella", "registrar"}
      OBVIOUS
  <2> HIDE DEF f, p
  <2>3. t.paso = p /\ t.token = Ninguno /\ t.clave = Ninguno
        /\ t.op = "conectar"
      BY <1>1, Suya DEF Tarea, Marcar
  <2> HIDE DEF t
  <2>4. Propio(t)
      BY <2>2, <2>3 DEF Propio, Al, Fin
  <2>5. \A g \in Tareas : Sigue(g)
      BY <1>1, <2>1, <2>3, <2>4, SigueSolo
  <2>. QED
      BY <2>5, QuietoSigue DEF Marcar, Quieto
<1>. QED
    BY <1>2, <1>3

LEMMA Paso2GuardarHuella ==
    ASSUME IInv, IInv2, IInv', NEW h \in Tareas, GuardarHuella(h)
    PROVE  IInv2'
<1> DEFINE t == [tarea[h] EXCEPT !.paso = "registrar"]
<1>1. tarea[h].token = Ninguno /\ tarea[h].clave = Ninguno
    BY SinToken DEF GuardarHuella
<1>2. tarea' = [tarea EXCEPT ![h] = t]
    BY DEF GuardarHuella, pasar
<1>3. t.paso = "registrar" /\ t.token = Ninguno /\ t.clave = Ninguno
    BY <1>1, Suya DEF Tarea
<1> HIDE DEF t
<1>4. \A g \in Tareas : Sigue(g)
  <2>1. Propio(t)
      BY <1>3 DEF Propio, Al, Fin
  <2>. QED
      BY <1>1, <1>2, <1>3, <2>1, SigueSolo
<1>5. MenosKeys
  <2> DEFINE n == tarea[h].nombre
             q == [perfiles[n] EXCEPT !.huella = tarea[h].cli]
  <2>1. n \in Nombres
      BY Suya DEF Bien, GuardarHuella
  <2>2. CASE perfiles' = perfiles
      BY <2>2 DEF MenosKeys
  <2>3. CASE perfiles' # perfiles
    <3>1. perfiles' = [perfiles EXCEPT ![n] = q] /\ perfiles[n] # Ninguno
        BY <2>3 DEF GuardarHuella, ponerHuella
    <3>2. perfiles[n] \in Perfil
        BY <2>1, <3>1 DEF IInv, TypeOK, Almacen
    <3>3. q.key = perfiles[n].key
        BY <3>2 DEF Perfil
    <3> HIDE DEF n, q
    <3>. QED
        BY <2>1, <3>1, <3>3 DEF MenosKeys, IInv, TypeOK, Almacen
  <2>. QED
      BY <2>2, <2>3
<1>. QED
    BY <1>4, <1>5, AlmacenSigue DEF GuardarHuella, historia, incidentes

LEMMA Paso2Registrar ==
    ASSUME IInv, IInv2, IInv', NEW h \in Tareas, Registrar(h)
    PROVE  IInv2'
<1>1. \A g \in Tareas : Sigue(g)
    BY SinToken, SigueAcabar DEF Registrar
<1>2. MenosKeys
    BY DEF Registrar, MenosKeys
<1>. QED
    BY <1>1, <1>2, AlmacenSigue DEF Registrar, historia, incidentes

\* A link falls: the requests that had it, or the server, are noticed.
LEMMA SigueCortar ==
    ASSUME IInv, IInv2, NEW T \in SUBSET Tareas, tarea' = cortar(T),
           \A h \in T : tarea[h].token # Ninguno =>
              tarea[h].token \in sueltas' \/ servidor(h) \in perturbados'
    PROVE  \A h \in Tareas : Sigue(h)
<1> SUFFICES ASSUME NEW h \in Tareas PROVE Sigue(h)
    OBVIOUS
<1>1. CASE h \notin T
    BY <1>1 DEF cortar, Sigue
<1>2. CASE h \in T /\ tarea[h].token # Ninguno
    BY <1>2 DEF cortar, Sigue
<1>3. CASE h \in T /\ tarea[h].token = Ninguno
  <2> DEFINE t == [tarea[h] EXCEPT !.viva = FALSE]
  <2>1. tarea'[h] = t
      BY <1>3 DEF cortar
  <2>2. t.token = Ninguno /\ t.clave = tarea[h].clave
      BY <1>3, Suya DEF Tarea
  <2>3. Propio(t)
      BY Suya DEF Tarea, IInv2, InvPropio, Propio
  <2> HIDE DEF t
  <2>. QED
      BY <1>3, <2>1, <2>2, <2>3 DEF Sigue
<1>. QED
    BY <1>1, <1>2, <1>3

LEMMA Paso2CaerSesion ==
    ASSUME IInv, IInv2, IInv', NEW n \in Nombres, CaerSesion(n)
    PROVE  IInv2'
<1> DEFINE T == {h \in Tareas : tarea[h].nombre = n
                    /\ tarea[h].op \in Herramientas /\ tarea[h].viva}
<1>1. /\ tarea' = cortar(T) /\ sueltas' = sueltas \cup tokensDe(T)
      /\ T \in SUBSET Tareas
    BY DEF CaerSesion
<1> HIDE DEF T
<1>2. \A h \in Tareas : Sigue(h)
    BY <1>1, SigueCortar DEF tokensDe
<1>3. MenosKeys /\ LineasQuietas
    BY DEF CaerSesion, MenosKeys, LineasQuietas, remoto
<1>. QED
    BY <1>1, <1>2, <1>3, PasoSigue DEF CaerSesion

LEMMA Paso2CaerCliente ==
    ASSUME IInv, IInv2, IInv', NEW h \in Tareas, CaerCliente(h)
    PROVE  IInv2'
<1>1. tarea[h].token # Ninguno => tarea[h].token \in sueltas
    BY ConToken DEF CaerCliente, IInv2, InvSueltas, Herramientas
<1>2. {h} \in SUBSET Tareas /\ tarea' = cortar({h}) /\ sueltas' = sueltas
    BY DEF CaerCliente, historia
<1>3. \A g \in Tareas : Sigue(g)
    BY <1>1, <1>2, SigueCortar
<1>4. MenosKeys
    BY DEF CaerCliente, MenosKeys
<1>. QED
    BY <1>3, <1>4, AlmacenSigue DEF CaerCliente, historia,
       incidentes

LEMMA Paso2Reinstalar ==
    ASSUME IInv, IInv2, IInv', NEW s \in Hosts, Reinstalar(s)
    PROVE  IInv2'
<1> DEFINE T == {h \in Tareas : tarea[h].cli # Ninguno /\ servidor(h) = s}
<1>1. tarea' = cortar(T) /\ T \in SUBSET Tareas
    BY DEF Reinstalar
<1>2. \A h \in T : servidor(h) \in perturbados'
    BY DEF Reinstalar
<1> HIDE DEF T
<1>3. \A h \in Tareas : Sigue(h)
    BY <1>1, <1>2, SigueCortar
<1>4. MenosKeys
    BY DEF Reinstalar, MenosKeys
<1>5. LineasQuietas
    BY DEF Reinstalar, LineasQuietas, IInv, TypeOK
<1>. QED
    BY <1>3, <1>4, <1>5, PasoSigue DEF Reinstalar

LEMMA Paso2Morir ==
    ASSUME IInv, IInv2, IInv', Morir
    PROVE  IInv2'
<1> DEFINE fuera == {h \in Tareas : tarea[h].paso # "mover"}
<1>1. /\ tarea' = [h \in Tareas |-> IF h \in fuera THEN TareaLibre
                     ELSE [tarea[h] EXCEPT !.viva = FALSE]]
      /\ sueltas' = sueltas \cup tokensDe(fuera)
      /\ \A h \in Tareas : h \in fuera <=> tarea[h].paso # "mover"
    BY DEF Morir
<1> HIDE DEF fuera
<1>2. ASSUME NEW h \in Tareas
      PROVE  Sigue(h)
  <2>1. CASE tarea[h].paso = "mover"
      BY <1>1, <2>1 DEF Sigue
  <2>2. CASE tarea[h].paso # "mover" /\ tarea[h].token = Ninguno
      BY <1>1, <2>2, LibrePropia DEF Sigue
  <2>3. CASE tarea[h].paso # "mover" /\ tarea[h].token # Ninguno
    <3>1. tarea[h].token \in sueltas'
        BY <1>1, <2>3 DEF tokensDe
    <3>. QED
        BY <1>1, <2>3, <3>1 DEF Sigue
  <2>. QED
      BY <2>1, <2>2, <2>3
<1>3. MenosKeys
    BY DEF Morir, MenosKeys, Vacio
<1>4. LineasQuietas
    BY DEF Morir, LineasQuietas, remoto
<1>. QED
    BY <1>1, <1>2, <1>3, <1>4, PasoSigue DEF Morir

\* The requests that end before they have a key, or with their link down.
LEMMA Paso2Acabar ==
    ASSUME IInv, IInv2, IInv', NEW h \in Tareas, acabar(h),
           \/ CrearMarcar(h) /\ UNCHANGED <<usados, sueltas>>
           \/ Sesion(h) /\ UNCHANGED usados
           \/ Filtrar(h)
    PROVE  IInv2'
<1>1. CASE CrearMarcar(h) /\ UNCHANGED <<usados, sueltas>>
  <2>1. \A g \in Tareas : Sigue(g)
      BY <1>1, SinToken, SigueAcabar DEF CrearMarcar
  <2>. QED
      BY <1>1, <2>1, QuietoSigue DEF CrearMarcar, Quieto, historia
<1>2. CASE Sesion(h) /\ UNCHANGED usados
  <2>1. \A g \in Tareas : Sigue(g)
      BY <1>2, SinToken, SigueAcabar DEF Sesion
  <2>. QED
      BY <1>2, <2>1, QuietoSigue DEF Sesion, Quieto
<1>3. CASE Filtrar(h)
  <2>1. tarea[h] \in Tarea /\ tarea[h].paso = "filtrar" /\ h \in DOMAIN tarea
      BY <1>3, Suya DEF Filtrar, IInv, TypeOK
  <2>2. ~pasar(h, "mover")
    <3>1. TareaLibre # [tarea[h] EXCEPT !.paso = "mover"]
        BY <2>1 DEF TareaLibre, Tarea
    <3>. QED
        BY <2>1, <3>1 DEF acabar, pasar
  <2>3. /\ UNCHANGED <<perfiles, disco, autorizadas, gwtmp, usados, guardadas,
                        perturbados, recortados, compartidas>>
        /\ sueltas' = sueltas \cup {tarea[h].token}
      BY <1>3, <2>2 DEF Filtrar
  <2>4. \A g \in Tareas : Sigue(g)
      BY <2>1, <2>3, SigueAcabar
  <2>5. LineasQuietas /\ MenosKeys
      BY <2>3 DEF LineasQuietas, MenosKeys
  <2>. QED
      BY <2>3, <2>4, <2>5, PasoSigue
<1>. QED
    BY <1>1, <1>2, <1>3

\* A request is given its number.
LEMMA PasoNumero ==
    ASSUME IInv, IInv2, IInv', NEW h \in Tareas, NEW t,
           tarea[h].token = Ninguno, tarea[h].paso # "mover", Propio(t),
           t.token = usados + 1, t.paso = "instalar", t.viva = TRUE,
           t.clave \in {usados + 1, tarea[h].clave},
           t.op = "crear" => usados + 1 \in sueltas', sueltas \subseteq sueltas',
           tarea' = [tarea EXCEPT ![h] = t],
           usados < MaxTokens, usados' = usados + 1,
           UNCHANGED <<perfiles, disco, autorizadas, gwtmp, guardadas,
                       perturbados, recortados, compartidas>>
    PROVE  IInv2'
<1> DEFINE k == usados + 1
<1>0. usados \in Nat /\ k \in Tokens /\ k \in Nat /\ k # Ninguno
    BY Siguiente, NingunoAssumption DEF IInv, TypeOK, Tokens, Claves
<1>1. /\ tarea'[h] = t
      /\ \A g \in Tareas \ {h} : tarea'[g] = tarea[g]
                                 /\ servidor(g)' = servidor(g)
    BY DEF IInv, TypeOK, servidor
<1>2. \A s \in Hosts : lineas(s)' = lineas(s)
    BY DEF lineas, pendientes
<1>3. InvPropio'
    BY <1>1 DEF IInv2, InvPropio
<1>4. \A g \in Tareas : tarea[g].token # Ninguno =>
         tarea[g].token \in Nat /\ tarea[g].token # k
    BY <1>0, ConToken DEF IInv2, InvTokens, Tokens
<1>5. \A g \in Tareas : tarea[g].clave # Ninguno =>
         tarea[g].clave \in Nat /\ tarea[g].clave # k
    BY <1>0, Suya DEF IInv2, InvTokens, Tarea, Claves, Propia, Tokens
<1>6. \A s \in Hosts : \A l \in lineas(s) :
         /\ l.clave \in Nat /\ l.clave # k /\ l.clave <= k
         /\ l.token \in Nat /\ l.token # k /\ l.token <= k
  <2> SUFFICES ASSUME NEW s \in Hosts, NEW l \in lineas(s)
               PROVE  /\ l.clave \in Nat /\ l.clave # k /\ l.clave <= k
                      /\ l.token \in Nat /\ l.token # k /\ l.token <= k
      OBVIOUS
  <2>1. l \in Lineas
      BY DEF IInv, TypeOK, lineas, pendientes
  <2>2. l.clave \in Nat /\ l.token \in Nat
      BY <2>1 DEF Lineas, Claves, Tokens, Propia
  <2>3. l.clave <= usados /\ l.token <= usados
      BY DEF IInv2, InvTokens
  <2>. QED
      BY <1>0, <2>2, <2>3
<1>7. \A r \in Rutas : disco[r] # Ninguno =>
         disco[r] \in Nat /\ disco[r] # k /\ disco[r] <= k
    BY <1>0 DEF IInv, TypeOK, IInv2, InvTokens, Disco, Claves, Propia, Tokens
<1>8. InvTokens'
  <2>1. guardadas[k] = Ninguno
      BY <1>0 DEF IInv2, InvTokens
  <2>2. \A g \in Tareas : tarea[g].token # Ninguno => tarea[g].token <= k
      BY <1>0, <1>4 DEF IInv2, InvTokens
  <2>3. \A g \in Tareas : tarea[g].clave # Ninguno => tarea[g].clave <= k
      BY <1>0, <1>5 DEF IInv2, InvTokens
  <2>4. \A x \in Tokens : guardadas[x] # Ninguno => x <= k
      BY <1>0 DEF IInv2, InvTokens, Tokens
  <2>5. ASSUME NEW f \in Tareas, tarea'[f].token # Ninguno
        PROVE  /\ tarea'[f].token <= k
               /\ guardadas[tarea'[f].token] = Ninguno
               /\ \A g \in Tareas : tarea'[g].token = tarea'[f].token => g = f
    <3>1. CASE f = h
        BY <1>0, <1>1, <1>4, <2>1, <3>1
    <3>2. CASE f # h
        BY <1>0, <1>1, <1>4, <2>2, <2>5, <3>2 DEF IInv2, InvTokens
    <3>. QED
        BY <3>1, <3>2
  <2>6. \A g \in Tareas : tarea'[g].clave # Ninguno => tarea'[g].clave <= k
      BY <1>0, <1>1, <2>3
  <2>. QED
      BY <1>2, <1>6, <1>7, <2>4, <2>5, <2>6 DEF InvTokens
<1>9. InvSueltas'
    BY <1>0, <1>1 DEF IInv2, InvSueltas
<1>10. InvLineas'
    BY <1>0, <1>1, <1>2, <1>6 DEF IInv2, InvLineas
<1>11. InvMover'
  <2>1. ASSUME NEW g \in Tareas, tarea'[g].paso = "mover"
        PROVE  g # h /\ \A s : cruce(g, s)' <=> cruce(g, s)
    <3>1. g # h
        BY <1>1, <2>1
    <3>2. \A f \in Tareas \ {g} : \A s :
             (tarea'[f].paso = "mover" /\ servidor(f)' = s)
                <=> (tarea[f].paso = "mover" /\ servidor(f) = s)
        BY <1>1
    <3>. QED
        BY <3>1, <3>2 DEF cruce
  <2>2. ASSUME NEW g \in Tareas, tarea'[g].paso = "mover"
        PROVE  sinSuya(g)' = sinSuya(g)
      BY <1>1, <2>1, <2>2 DEF sinSuya
  <2>. QED
      BY <1>1, <2>1, <2>2 DEF IInv2, InvMover
<1>12. InvObra'
  <2> SUFFICES ASSUME NEW f \in Tareas, EnObra(f)'
               PROVE  /\ \A r \in Fijas : disco[r] # tarea'[f].token
                      /\ \A g \in Tareas :
                            tarea'[g].clave = tarea'[f].token => g = f
                      /\ \A s \in Hosts : \A l \in lineas(s) :
                            l.clave = tarea'[f].token => l.token = tarea'[f].token
                      /\ (tarea'[f].paso \in {"probar", "guardar"}
                            /\ tarea'[f].ruta = Fechada(tarea'[f].token)
                            /\ tarea'[f].token \notin compartidas) =>
                            disco[Fechada(tarea'[f].token)] = tarea'[f].token
                      /\ (tarea'[f].paso = "guardar"
                            /\ tarea'[f].copia.host \notin perturbados \cup recortados) =>
                            suLinea(tarea'[f].token)
                               \in autorizadas[tarea'[f].copia.host]
      BY <1>2 DEF InvObra
  <2>1. CASE f = h
      BY <1>0, <1>1, <1>5, <1>6, <1>7, <2>1, FijasSonRutas
  <2>2. CASE f # h
    <3>1. EnObra(f) /\ tarea'[f] = tarea[f]
        BY <1>1, <2>2 DEF EnObra
    <3>2. tarea[f].token # Ninguno
        BY <3>1, ConToken DEF IInv2, EnObra
    <3>. QED
        BY <1>1, <1>4, <2>2, <3>1, <3>2 DEF IInv2, InvObra
  <2>. QED
      BY <2>1, <2>2
<1>13. InvHechas'
    BY DEF IInv2, InvHechas
<1>14. SinResiduos'
  <2> SUFFICES ASSUME NEW s \in Hosts \ perturbados, NEW l \in autorizadas[s]
               PROVE  \/ guardadas[l.token] # Ninguno
                      \/ l.token \in sueltas'
                      \/ \E f \in Tareas : tarea'[f].token = l.token
      BY DEF SinResiduos
  <2>1. l.token # Ninguno
      BY NingunoAssumption DEF IInv, TypeOK, Lineas, Claves
  <2>2. ASSUME NEW f \in Tareas, tarea[f].token = l.token
        PROVE  tarea'[f].token = l.token
      BY <1>1, <2>1, <2>2
  <2>. QED
      BY <2>2 DEF IInv2, SinResiduos
<1>. QED
    BY <1>3, <1>8, <1>9, <1>10, <1>11, <1>12, <1>13, <1>14 DEF IInv2

LEMMA Paso2CrearMarcar ==
    ASSUME IInv, IInv2, IInv', NEW h \in Tareas, CrearMarcar(h)
    PROVE  IInv2'
<1>1. CASE acabar(h) /\ UNCHANGED <<usados, sueltas>>
    BY <1>1, Paso2Acabar
<1>2. CASE ~(acabar(h) /\ UNCHANGED <<usados, sueltas>>)
  <2> DEFINE k == usados + 1
             f == huella(tarea[h].copia.host)
             r == Fija(tarea[h].nombre)
             t == [tarea[h] EXCEPT !.cli = f, !.viva = TRUE, !.token = k,
                       !.clave = k, !.paso = "instalar", !.ruta = r]
  <2>1. /\ tarea' = [tarea EXCEPT ![h] = t]
        /\ usados < MaxTokens /\ usados' = k /\ sueltas' = sueltas \cup {k}
        /\ tarea[h].paso = "marcar" /\ tarea[h].op = "crear"
      BY <1>2 DEF CrearMarcar
  <2>2. r \in Fijas
      BY <2>1, Suya DEF Bien, Fijas
  <2> HIDE DEF f, r
  <2>3. /\ t.paso = "instalar" /\ t.op = "crear" /\ t.viva = TRUE
        /\ t.token = k /\ t.clave = k /\ t.ruta = r
      BY <2>1, Suya DEF Tarea
  <2> HIDE DEF t, k
  <2>4. Propio(t)
      BY <2>2, <2>3 DEF Propio, Al, Fin
  <2>. QED
      BY <2>1, <2>3, <2>4, SinToken, PasoNumero DEF CrearMarcar, k, remoto
<1>. QED
    BY <1>1, <1>2

LEMMA Paso2Sesion ==
    ASSUME IInv, IInv2, IInv', NEW h \in Tareas, Sesion(h)
    PROVE  IInv2'
<1>1. CASE acabar(h) /\ UNCHANGED usados
    BY <1>1, Paso2Acabar
<1>2. CASE ~(acabar(h) /\ UNCHANGED usados)
  <2> DEFINE k == usados + 1
             f == sesiones[tarea[h].nombre]
             nueva == tarea[h].op = "crearKey"
             c == IF nueva THEN k ELSE tarea[h].clave
             t == [tarea[h] EXCEPT !.cli = f, !.viva = TRUE, !.token = k,
                       !.paso = "instalar", !.clave = c]
  <2>1. /\ tarea' = [tarea EXCEPT ![h] = t]
        /\ usados < MaxTokens /\ usados' = k
        /\ tarea[h].paso = "sesion"
      BY <1>2 DEF Sesion
  <2>2. tarea[h].op \in Herramientas
      BY <2>1, Suya DEF Bien
  <2> HIDE DEF f, c
  <2>3. /\ t.paso = "instalar" /\ t.op = tarea[h].op /\ t.viva = TRUE
        /\ t.token = k /\ t.clave = c /\ t.ruta = tarea[h].ruta
      BY <2>1, Suya DEF Tarea
  <2> HIDE DEF t
  <2>4. Propio(tarea[h])
      BY DEF IInv2, InvPropio
  <2>5. Propio(t)
      BY <2>1, <2>2, <2>3, <2>4 DEF Propio, Al, Fin, Herramientas, c
  <2>6. t.op # "crear" /\ t.clave \in {k, tarea[h].clave}
      BY <2>2, <2>3 DEF Herramientas, c
  <2>. QED
      BY <2>1, <2>3, <2>5, <2>6, SinToken, PasoNumero
      DEF Sesion, remoto, historia
<1>. QED
    BY <1>1, <1>2

\* An import restores the keys the user had, under names that are not of the
\* keys made here.
LEMMA Paso2Importar ==
    ASSUME IInv, IInv2, IInv', NEW p \in Paquetes, NEW r \in BOOLEAN,
           Importar(p, r)
    PROVE  IInv2'
<1>1. p.perfiles \in Almacen /\ p.keys \in Disco
    BY PaquetesAssumption
<1>2. \A q \in Rutas : disco'[q] \in {disco[q], Propia}
  <2> SUFFICES ASSUME NEW q \in Rutas PROVE disco'[q] \in {disco[q], Propia}
      OBVIOUS
  <2>1. disco'[q] = restaurarKeys(p.keys)[q]
      BY DEF Importar
  <2>2. CASE \E v \in Rutas : destino(v) = q /\ p.keys[v] # Ninguno
    <3> DEFINE v == CHOOSE v \in Rutas : destino(v) = q /\ p.keys[v] # Ninguno
    <3>1. v \in Rutas /\ p.keys[v] # Ninguno
        BY <2>2
    <3>2. disco'[q] = p.keys[v]
        BY <2>1, <2>2 DEF restaurarKeys
    <3> HIDE DEF v
    <3>. QED
        BY <3>1, <3>2, PaquetesAnterioresAssumption
  <2>3. CASE ~\E v \in Rutas : destino(v) = q /\ p.keys[v] # Ninguno
      BY <2>1, <2>3 DEF restaurarKeys
  <2>. QED
      BY <2>2, <2>3
<1>3. \A t \in Tokens : disco'[Fechada(t)] = disco[Fechada(t)]
  <2> SUFFICES ASSUME NEW t \in Tokens
               PROVE  disco'[Fechada(t)] = disco[Fechada(t)]
      OBVIOUS
  <2>1. ~\E v \in Rutas : destino(v) = Fechada(t) /\ p.keys[v] # Ninguno
      BY FijasSonRutas, PaquetesAnterioresAssumption DEF destino, Fijas
  <2>2. Fechada(t) \in Rutas
      BY FijasSonRutas
  <2>. QED
      BY <2>1, <2>2 DEF Importar, restaurarKeys
<1>4. MenosKeys
  <2> SUFFICES ASSUME NEW n \in Nombres, NEW t \in Tokens,
                      perfiles'[n] # Ninguno, perfiles'[n].key = Fechada(t)
               PROVE  perfiles[n] # Ninguno /\ perfiles[n].key = Fechada(t)
      BY DEF MenosKeys
  <2>0. perfiles'[n] = fundir(p, r)[n]
      BY DEF Importar
  <2>1. CASE p.perfiles[n] # Ninguno
    <3> DEFINE q == p.perfiles[n]
    <3>1. q \in Perfil /\ perfiles'[n] = reapuntar(q, p.keys)
        BY <1>1, <2>0, <2>1 DEF Almacen, fundir
    <3>2. q.key # Fechada(t)
        BY <2>1, PaquetesAnterioresAssumption
    <3>3. CASE q.key # Ninguno /\ p.keys[q.key] # Ninguno
      <4>1. perfiles'[n].key = destino(q.key)
          BY <3>1, <3>3 DEF reapuntar, Perfil
      <4>2. destino(q.key) = Fechada(t) => q.key = Fechada(t)
          BY FijasSonRutas DEF destino, Fijas
      <4>. QED
          BY <3>2, <4>1, <4>2
    <3>4. CASE ~(q.key # Ninguno /\ p.keys[q.key] # Ninguno)
        BY <3>1, <3>2, <3>4 DEF reapuntar
    <3>. QED
        BY <3>3, <3>4
  <2>2. CASE p.perfiles[n] = Ninguno
      BY <2>0, <2>2 DEF fundir
  <2>. QED
      BY <2>1, <2>2
<1>5. UNCHANGED <<remoto, sesiones, tarea, usados, guardadas, sueltas,
                  perturbados, recortados, compartidas>>
    BY DEF Importar, incidentes
<1>6. \A s \in Hosts : lineas(s)' = lineas(s)
    BY <1>5 DEF lineas, pendientes, remoto
<1>7. InvPropio' /\ InvSueltas' /\ InvLineas' /\ InvMover' /\ SinResiduos'
    BY <1>5, <1>6
    DEF remoto, IInv2, InvPropio, InvSueltas, InvLineas, InvMover, SinResiduos,
        cruce, servidor, sinSuya
<1>8. InvTokens'
  <2>1. Propia <= usados
      BY DEF Propia, IInv, TypeOK
  <2>. QED
      BY <1>2, <1>5, <1>6, <2>1 DEF IInv2, InvTokens
<1>9. InvObra'
  <2> SUFFICES ASSUME NEW h \in Tareas, EnObra(h)
               PROVE  /\ \A q \in Fijas : disco'[q] # tarea[h].token
                      /\ (tarea[h].paso \in {"probar", "guardar"}
                            /\ tarea[h].ruta = Fechada(tarea[h].token)
                            /\ tarea[h].token \notin compartidas) =>
                            disco'[Fechada(tarea[h].token)] = tarea[h].token
      BY <1>5, <1>6 DEF InvObra, IInv2, EnObra, remoto
  <2>1. tarea[h].token \in Tokens /\ tarea[h].token # Propia
      BY Suya DEF EnObra, Bien, Tokens, Propia
  <2>. QED
      BY <1>2, <1>3, <2>1, FijasSonRutas DEF IInv2, InvObra
<1>10. InvHechas'
    BY <1>3, <1>4, <1>5 DEF IInv2, InvHechas, MenosKeys, remoto
<1>. QED
    BY <1>7, <1>8, <1>9, <1>10 DEF IInv2

-----------------------------------------------------------------------------
(* The steps on the files.                                                 *)

LEMMA LineaTipada ==
    ASSUME IInv, NEW s \in Hosts, NEW l \in lineas(s)
    PROVE  l \in Lineas /\ l.token \in Tokens /\ l.token # Ninguno
BY NingunoAssumption DEF IInv, TypeOK, lineas, pendientes, Lineas, Claves

\* Only h moves, and it is not between grep -v and mv.
LEMMA CruceIgual ==
    ASSUME NEW h \in Tareas, tarea[h].paso # "mover", tarea'[h].paso # "mover",
           \A g \in Tareas \ {h} : tarea'[g] = tarea[g]
    PROVE  \A g \in Tareas : \A s : cruce(g, s)' <=> cruce(g, s)
<1>1. \A g \in Tareas : \A s :
         (tarea'[g].paso = "mover" /\ servidor(g)' = s)
            <=> (tarea[g].paso = "mover" /\ servidor(g) = s)
    BY DEF servidor
<1>. QED
    BY <1>1 DEF cruce

LEMMA Distintos ==
    ASSUME IInv, IInv2, NEW h \in Tareas, NEW f \in Tareas \ {h},
           tarea[h].token # Ninguno
    PROVE  tarea[f].token # tarea[h].token
BY DEF IInv2, InvTokens

LEMMA FechadaUnica ==
    ASSUME NEW t, NEW u, Fechada(t) = Fechada(u)
    PROVE  t = u
BY DEF Fechada

LEMMA Paso2Instalar ==
    ASSUME IInv, IInv2, IInv', NEW h \in Tareas, Instalar(h)
    PROVE  IInv2'
<1> DEFINE s == servidor(h)
           k == tarea[h].token
           nueva == ~admite(s, tarea[h].clave)
<1>0. /\ Al(tarea[h].paso) /\ tarea[h].paso = "instalar"
      /\ s \in Hosts /\ k \in Tokens /\ k # Ninguno
      /\ tarea[h].clave \in Claves /\ tarea[h].clave # Ninguno
    BY Suya, ConToken, NingunoAssumption DEF Instalar, Al, Bien, IInv2
<1>1. /\ \/ autorizadas' = autorizadas
         \/ nueva /\ autorizadas' = [autorizadas EXCEPT ![s] = @ \cup {linea(h)}]
      /\ UNCHANGED <<perfiles, disco, gwtmp, usados, guardadas>>
      /\ perturbados \subseteq perturbados'
      /\ cruce(h, s) => s \in perturbados'
      /\ sueltas \subseteq sueltas' /\ compartidas \subseteq compartidas'
      /\ UNCHANGED recortados
    BY DEF Instalar, marcarCruce
<1>2. /\ \A x \in Hosts : autorizadas[x] \subseteq autorizadas'[x]
      /\ \A x \in Hosts : x # s => autorizadas'[x] = autorizadas[x]
      /\ autorizadas'[s] # autorizadas[s] => nueva
      /\ autorizadas'[s] \subseteq autorizadas[s] \cup {linea(h)}
    BY <1>0, <1>1 DEF IInv, TypeOK
<1>3. \A x \in Hosts : \A l \in lineas(x)' :
         l \in lineas(x) \/ (l = linea(h) /\ x = s /\ nueva)
    BY <1>1, <1>2 DEF lineas, pendientes
<1>4. linea(h).token = k /\ linea(h).clave = tarea[h].clave
    BY DEF linea
<1>5. \A x \in Hosts : \A l \in lineas(x) : l.token # k
    BY <1>0 DEF IInv2, InvLineas
<1>6. \A g \in Tareas \ {h} : tarea'[g] = tarea[g] /\ servidor(g)' = servidor(g)
                              /\ tarea[g].token # k
    BY <1>0, Distintos DEF Instalar, acabar, IInv, TypeOK, servidor
<1>7. \/ /\ tarea'[h] = TareaLibre /\ k \in sueltas'
      \/ /\ tarea'[h].paso \in {"escribir", "probar"}
         /\ tarea[h].op # "usarKey" <=> tarea'[h].paso = "escribir"
         /\ tarea'[h].agregada = nueva /\ tarea'[h].op = tarea[h].op
         /\ tarea'[h].token = k /\ tarea'[h].clave = tarea[h].clave
         /\ tarea[h].op # "crearKey" => tarea'[h].ruta = tarea[h].ruta
         /\ tarea[h].op = "crearKey" =>
               \E m \in Tokens : tarea'[h].ruta = Fechada(m)
         /\ tarea'[h].cli = tarea[h].cli
         /\ servidor(h)' = s /\ tarea'[h].viva = TRUE
  <2>1. CASE acabar(h)
    <3>1. tarea'[h] = TareaLibre
        BY <2>1 DEF acabar, IInv, TypeOK
    <3>2. k \in sueltas'
      <4> SUFFICES ASSUME k \notin sueltas' PROVE FALSE
          OBVIOUS
      <4>1. PICK r \in destinos(h) :
               tarea' = [tarea EXCEPT ![h].agregada = nueva, ![h].ruta = r,
                            ![h].paso = IF tarea[h].op = "usarKey" THEN "probar"
                                        ELSE "escribir"]
          BY DEF Instalar
      <4> HIDE DEF nueva
      <4>2. tarea'[h].token = k
          BY <4>1, Suya DEF IInv, TypeOK, Tarea
      <4>. QED
          BY <1>0, <3>1, <4>2, LibrePropia
    <3>. QED
        BY <3>1, <3>2
  <2>2. CASE ~acabar(h)
    <3>0. PICK r \in destinos(h) :
             tarea' = [tarea EXCEPT ![h].agregada = nueva, ![h].ruta = r,
                          ![h].paso = IF tarea[h].op = "usarKey" THEN "probar"
                                      ELSE "escribir"]
        BY <2>2 DEF Instalar
    <3> DEFINE p == IF tarea[h].op = "usarKey" THEN "probar" ELSE "escribir"
               t == [tarea[h] EXCEPT !.agregada = nueva, !.ruta = r, !.paso = p]
    <3>1. tarea' = [tarea EXCEPT ![h] = t] /\ tarea[h].viva
        BY <2>2, <3>0 DEF Instalar
    <3>7. /\ tarea[h].op # "crearKey" => r = tarea[h].ruta
          /\ tarea[h].op = "crearKey" => \E m \in Tokens : r = Fechada(m)
        BY <1>0, Destinos
    <3>2. /\ p \in {"escribir", "probar"}
          /\ tarea[h].op # "usarKey" <=> p = "escribir"
        OBVIOUS
    <3> HIDE DEF p, nueva
    <3>3. /\ t.cli = tarea[h].cli /\ t.paso = p /\ t.op = tarea[h].op
          /\ t.token = k /\ t.clave = tarea[h].clave /\ t.agregada = nueva
          /\ t.ruta = r /\ t.viva = tarea[h].viva
        BY Suya DEF Tarea
    <3>4. tarea'[h] = t
        BY <3>1 DEF IInv, TypeOK
    <3>5. servidor(h)' = s
        BY <3>3, <3>4 DEF servidor
    <3>6. tarea[h].viva \in BOOLEAN
        BY Suya DEF Tarea
    <3> HIDE DEF t
    <3>. QED
        BY <3>1, <3>2, <3>3, <3>4, <3>5, <3>6, <3>7
  <2>. QED
      BY <2>1, <2>2
<1> HIDE DEF nueva
<1>8. \A g \in Tareas : \A x : cruce(g, x)' <=> cruce(g, x)
    BY <1>0, <1>6, <1>7, LibrePropia, CruceIgual
<1>9. InvPropio'
  <2>1. Propio(tarea'[h])
      BY <1>0, <1>7, LibrePropia DEF IInv2, InvPropio, Propio, Al, Fin
  <2>. QED
      BY <1>6, <2>1 DEF IInv2, InvPropio
<1>10. InvTokens'
  <2>1. \A g \in Tareas : tarea'[g].token # Ninguno =>
           tarea'[g].token = tarea[g].token
      BY <1>6, <1>7, LibrePropia
  <2>2. \A g \in Tareas : tarea'[g].clave # Ninguno =>
           tarea'[g].clave = tarea[g].clave
      BY <1>6, <1>7, LibrePropia
  <2>3. k <= usados /\ tarea[h].clave <= usados
      BY <1>0 DEF IInv2, InvTokens
  <2>4. \A x \in Hosts : \A l \in lineas(x)' :
           l.clave <= usados /\ l.token <= usados
      BY <1>3, <1>4, <2>3 DEF IInv2, InvTokens
  <2>. QED
      BY <1>1, <2>1, <2>2, <2>4 DEF IInv2, InvTokens
<1>11. InvSueltas'
  <2>1. k \in sueltas \/ tarea[h].op # "crear"
      BY <1>0 DEF IInv2, InvSueltas
  <2>. QED
      BY <1>1, <1>6, <1>7, <2>1, LibrePropia DEF IInv2, InvSueltas
<1>12. InvLineas'
  <2> SUFFICES ASSUME NEW g \in Tareas, NEW x \in Hosts, NEW l \in lineas(x)',
                      tarea'[g].token = l.token
               PROVE  x = servidor(g)' /\ tarea'[g].agregada
                      /\ tarea'[g].paso # "instalar"
      BY DEF InvLineas
  <2>1. CASE l \in lineas(x)
    <3>1. l.token # Ninguno /\ l.token # k
        BY <1>5, <2>1, LineaTipada
    <3>2. g # h
        BY <1>7, <3>1, LibrePropia
    <3>. QED
        BY <1>6, <2>1, <3>2 DEF IInv2, InvLineas
  <2>2. CASE l \notin lineas(x)
    <3>1. l = linea(h) /\ x = s /\ nueva
        BY <1>3, <2>2
    <3>2. g = h /\ tarea'[g].token # Ninguno
        BY <1>0, <1>4, <1>6, <3>1
    <3>. QED
        BY <1>7, <3>1, <3>2, LibrePropia
  <2>. QED
      BY <2>1, <2>2
<1>13. InvMover'
  <2> SUFFICES ASSUME NEW g \in Tareas, tarea'[g].paso = "mover",
                      servidor(g)' \notin perturbados'
               PROVE  /\ gwtmp'[servidor(g)'] = Ninguno =>
                            tarea'[g].token \in sueltas'
                      /\ (gwtmp'[servidor(g)'] # Ninguno
                            /\ ~cruce(g, servidor(g))') =>
                            /\ gwtmp'[servidor(g)'] \subseteq sinSuya(g)'
                            /\ servidor(g)' \notin recortados' =>
                                  gwtmp'[servidor(g)'] = sinSuya(g)'
      BY DEF InvMover
  <2>1. g # h
      BY <1>7, LibrePropia
  <2>2. tarea[g].paso = "mover" /\ servidor(g)' = servidor(g)
        /\ tarea'[g] = tarea[g]
      BY <1>6, <2>1
  <2>3. servidor(g) # s
      BY <1>1, <2>1, <2>2 DEF cruce
  <2>4. servidor(g) \in Hosts
      BY <2>2, ConToken DEF IInv2, Fin
  <2>5. sinSuya(g)' = sinSuya(g) /\ (cruce(g, servidor(g))' <=> cruce(g, servidor(g)))
      BY <1>2, <1>8, <2>2, <2>3, <2>4 DEF sinSuya
  <2>. QED
      BY <1>1, <1>2, <2>2, <2>3, <2>4, <2>5 DEF IInv2, InvMover
<1>14. InvObra'
  <2> SUFFICES ASSUME NEW f \in Tareas, EnObra(f)'
               PROVE  /\ \A r \in Fijas : disco[r] # tarea'[f].token
                      /\ \A g \in Tareas :
                            tarea'[g].clave = tarea'[f].token => g = f
                      /\ \A x \in Hosts : \A l \in lineas(x)' :
                            l.clave = tarea'[f].token => l.token = tarea'[f].token
                      /\ (tarea'[f].paso \in {"probar", "guardar"}
                            /\ tarea'[f].ruta = Fechada(tarea'[f].token)
                            /\ tarea'[f].token \notin compartidas') =>
                            disco[Fechada(tarea'[f].token)] = tarea'[f].token
                      /\ (tarea'[f].paso = "guardar"
                            /\ tarea'[f].copia.host \notin perturbados' \cup recortados) =>
                            suLinea(tarea'[f].token)
                               \in autorizadas'[tarea'[f].copia.host]
      BY <1>1 DEF InvObra
  <2>1. EnObra(f) /\ tarea'[f].token = tarea[f].token
      BY <1>0, <1>6, <1>7, LibrePropia DEF EnObra, Al
  <2>2. tarea[f].token # Ninguno
      BY <2>1, ConToken DEF EnObra, IInv2
  <2>3. \A g \in Tareas : tarea'[g].clave # Ninguno =>
           tarea'[g].clave = tarea[g].clave
      BY <1>6, <1>7, LibrePropia
  <2>4. \A g \in Tareas : tarea'[g].clave = tarea'[f].token => g = f
      BY <2>1, <2>2, <2>3 DEF IInv2, InvObra
  <2>5. \A x \in Hosts : \A l \in lineas(x)' :
           l.clave = tarea[f].token => l.token = tarea[f].token
    <3>1. tarea[h].clave = tarea[f].token => h = f
        BY <2>1 DEF IInv2, InvObra
    <3>. QED
        BY <1>3, <1>4, <2>1, <3>1 DEF IInv2, InvObra
  <2>6. CASE f = h
    <3>1. tarea'[h].paso = "escribir"
        BY <1>7, <2>1, <2>6, LibrePropia DEF EnObra, Al
    <3>. QED
        BY <2>1, <2>4, <2>5, <2>6, <3>1 DEF IInv2, InvObra
  <2>7. CASE f # h
    <3>1. tarea'[f] = tarea[f] /\ tarea[f].copia.host \in Hosts
        BY <1>6, <2>1, <2>7, Suya DEF EnObra, Bien, Perfil
    <3>. QED
        BY <1>1, <1>2, <2>1, <2>4, <2>5, <3>1 DEF IInv2, InvObra
  <2>. QED
      BY <2>6, <2>7
<1>15. InvHechas'
    BY <1>1, <1>2 DEF IInv2, InvHechas
<1>16. SinResiduos'
  <2> SUFFICES ASSUME NEW x \in Hosts \ perturbados', NEW l \in autorizadas'[x]
               PROVE  \/ guardadas[l.token] # Ninguno
                      \/ l.token \in sueltas'
                      \/ \E f \in Tareas : tarea'[f].token = l.token
      BY <1>1 DEF SinResiduos
  <2>1. CASE l \in lineas(x)
    <3>1. l \in autorizadas[x] /\ x \notin perturbados /\ l.token # k
        BY <1>1, <1>2, <1>4, <1>5, <2>1
    <3>. QED
        BY <1>1, <1>6, <3>1 DEF IInv2, SinResiduos
  <2>2. CASE l \notin lineas(x)
    <3>1. l.token = k
        BY <1>3, <1>4, <2>2 DEF lineas, pendientes
    <3>. QED
        BY <1>7, <3>1
  <2>. QED
      BY <2>1, <2>2
<1>. QED
    BY <1>9, <1>10, <1>11, <1>12, <1>13, <1>14, <1>15, <1>16 DEF IInv2

\* A handler fails after the installation: its file may go, and the tools go
\* on to take their line back.
LEMMA PasoDesistir ==
    ASSUME IInv, IInv2, InvRutas, IInv', NEW h \in Tareas,
           tarea[h].paso \in {"escribir", "probar", "guardar"}, desistir(h),
           \A r \in Rutas : disco'[r] # disco[r] =>
              disco'[r] = Ninguno /\ r = tarea[h].ruta
                 /\ tarea[h].op # "usarKey",
           UNCHANGED <<autorizadas, gwtmp, usados, guardadas, incidentes>>,
           MenosKeys
    PROVE  IInv2'
<1> DEFINE k == tarea[h].token
<1> USE DEF incidentes
<1>0. /\ Al(tarea[h].paso) /\ k \in Tokens /\ k # Ninguno
      /\ guardadas[k] = Ninguno
      /\ tarea[h].op \in {"crear", "crearKey", "usarKey"}
    BY ConToken DEF Al, IInv2, InvTokens
<1>1. \A g \in Tareas \ {h} : tarea'[g] = tarea[g] /\ servidor(g)' = servidor(g)
                              /\ tarea[g].token # k
    BY <1>0, Distintos DEF desistir, acabar, IInv, TypeOK, servidor
<1>2. \/ /\ tarea'[h] = TareaLibre
         /\ tarea[h].op = "crear" \/ ~tarea[h].agregada
      \/ /\ tarea'[h].paso = "filtrar" /\ tarea'[h].token = k
         /\ tarea'[h].clave = Ninguno /\ tarea'[h].op = tarea[h].op
         /\ tarea'[h].viva = tarea[h].viva /\ tarea'[h].cli = tarea[h].cli
         /\ tarea'[h].agregada = tarea[h].agregada
         /\ tarea[h].op \in Herramientas /\ servidor(h)' = servidor(h)
  <2>1. CASE tarea[h].op \in Herramientas /\ tarea[h].agregada
    <3> DEFINE t == [tarea[h] EXCEPT !.paso = "filtrar", !.copia = Ninguno,
                                     !.clave = Ninguno, !.ruta = Ninguno]
    <3>1. tarea'[h] = t
        BY <2>1 DEF desistir, IInv, TypeOK
    <3>2. /\ t.paso = "filtrar" /\ t.token = k /\ t.clave = Ninguno
          /\ t.op = tarea[h].op /\ t.viva = tarea[h].viva
          /\ t.cli = tarea[h].cli /\ t.agregada = tarea[h].agregada
        BY Suya DEF Tarea
    <3>. QED
        BY <2>1, <3>1, <3>2 DEF servidor
  <2>2. CASE ~(tarea[h].op \in Herramientas /\ tarea[h].agregada)
      BY <1>0, <2>2 DEF desistir, acabar, IInv, TypeOK, Herramientas
  <2>. QED
      BY <2>1, <2>2
<1>3. \A x \in Hosts : lineas(x)' = lineas(x)
    BY DEF lineas, pendientes
<1>4. \A g \in Tareas : \A x : cruce(g, x)' <=> cruce(g, x)
    BY <1>1, <1>2, LibrePropia, CruceIgual
<1>5. \A g \in Tareas : /\ tarea'[g].token # Ninguno =>
                              tarea'[g].token = tarea[g].token
                        /\ tarea'[g].clave # Ninguno =>
                              tarea'[g].clave = tarea[g].clave
    BY <1>1, <1>2, LibrePropia
\* The file of the handler is not the file of another key made by the program,
\* but for the names two requests share.
<1>6. \A t \in Tokens : (t # k /\ t \notin compartidas) =>
         disco'[Fechada(t)] = disco[Fechada(t)]
    BY FijasSonRutas DEF InvRutas
<1>7. InvPropio'
  <2>1. Propio(tarea'[h])
      BY <1>2, LibrePropia DEF Propio, Al, Fin
  <2>. QED
      BY <1>1, <2>1 DEF IInv2, InvPropio
<1>8. InvTokens'
  <2>1. \A r \in Rutas : disco'[r] # Ninguno => disco'[r] <= usados
      BY DEF IInv2, InvTokens
  <2>. QED
      BY <1>3, <1>5, <2>1 DEF IInv2, InvTokens
<1>9. InvSueltas'
    BY <1>0, <1>1, <1>2, LibrePropia DEF IInv2, InvSueltas
<1>10. InvLineas'
  <2> SUFFICES ASSUME NEW g \in Tareas, NEW x \in Hosts, NEW l \in lineas(x),
                      tarea'[g].token = l.token
               PROVE  x = servidor(g)' /\ tarea'[g].agregada
                      /\ tarea'[g].paso # "instalar"
      BY <1>3 DEF InvLineas
  <2>1. l.token # Ninguno
      BY LineaTipada
  <2>2. tarea[g].token = l.token
      BY <1>5, <2>1
  <2>3. x = servidor(g) /\ tarea[g].agregada /\ tarea[g].paso # "instalar"
      BY <2>2 DEF IInv2, InvLineas
  <2>. QED
      BY <1>1, <1>2, <2>1, <2>3, LibrePropia
<1>11. InvMover'
  <2>1. tarea'[h].paso # "mover"
      BY <1>2, LibrePropia
  <2>2. \A g \in Tareas \ {h} : sinSuya(g)' = sinSuya(g)
      BY <1>1 DEF sinSuya
  <2>. QED
      BY <1>1, <1>4, <2>1, <2>2 DEF IInv2, InvMover
<1>12. InvObra'
  <2> SUFFICES ASSUME NEW f \in Tareas, EnObra(f)'
               PROVE  /\ \A r \in Fijas : disco'[r] # tarea'[f].token
                      /\ \A g \in Tareas :
                            tarea'[g].clave = tarea'[f].token => g = f
                      /\ \A x \in Hosts : \A l \in lineas(x) :
                            l.clave = tarea'[f].token => l.token = tarea'[f].token
                      /\ (tarea'[f].paso \in {"probar", "guardar"}
                            /\ tarea'[f].ruta = Fechada(tarea'[f].token)
                            /\ tarea'[f].token \notin compartidas) =>
                            disco'[Fechada(tarea'[f].token)] = tarea'[f].token
                      /\ (tarea'[f].paso = "guardar"
                            /\ tarea'[f].copia.host \notin perturbados \cup recortados) =>
                            suLinea(tarea'[f].token)
                               \in autorizadas[tarea'[f].copia.host]
      BY <1>3 DEF InvObra
  <2>1. f # h
      BY <1>2, LibrePropia DEF EnObra, Al
  <2>2. EnObra(f) /\ tarea'[f] = tarea[f]
      BY <1>1, <2>1 DEF EnObra
  <2>3. tarea[f].token # k /\ tarea[f].token \in Tokens
        /\ tarea[f].token # Ninguno
      BY <1>1, <2>1, <2>2, ConToken DEF IInv2, EnObra
  <2>4. \A r \in Fijas : disco'[r] # tarea[f].token
      BY <2>2, <2>3, FijasSonRutas DEF IInv2, InvObra
  <2>5. tarea[f].token \notin compartidas =>
           disco'[Fechada(tarea[f].token)] = disco[Fechada(tarea[f].token)]
      BY <1>6, <2>3
  <2>6. \A g \in Tareas : tarea'[g].clave = tarea[f].token => g = f
      BY <1>5, <2>2, <2>3 DEF IInv2, InvObra
  <2>. QED
      BY <2>2, <2>4, <2>5, <2>6 DEF IInv2, InvObra
<1>13. InvHechas'
    BY <1>0, <1>6, NingunoAssumption DEF IInv2, InvHechas, MenosKeys
<1>14. SinResiduos'
  <2> SUFFICES ASSUME NEW x \in Hosts \ perturbados, NEW l \in autorizadas[x]
               PROVE  \/ guardadas[l.token] # Ninguno
                      \/ l.token \in sueltas
                      \/ \E f \in Tareas : tarea'[f].token = l.token
      BY DEF SinResiduos
  <2>1. l \in lineas(x)
      BY DEF lineas
  <2>2. CASE l.token = k
    <3>1. tarea[h].agregada
        BY <2>1, <2>2 DEF IInv2, InvLineas
    <3>2. tarea[h].op = "crear" => k \in sueltas
        BY <1>0 DEF IInv2, InvSueltas
    <3>. QED
        BY <1>2, <2>2, <3>1, <3>2
  <2>3. CASE l.token # k
      BY <1>1, <2>3 DEF IInv2, SinResiduos
  <2>. QED
      BY <2>2, <2>3
<1>. QED
    BY <1>7, <1>8, <1>9, <1>10, <1>11, <1>12, <1>13, <1>14 DEF IInv2

LEMMA BorrarKeyBien ==
    ASSUME IInv, NEW h \in Tareas, Al(tarea[h].paso), borrarKey(h)
    PROVE  \A r \in Rutas : disco'[r] # disco[r] =>
              disco'[r] = Ninguno /\ r = tarea[h].ruta
                 /\ tarea[h].op # "usarKey"
<1>1. CASE tarea[h].op = "usarKey"
    BY <1>1 DEF borrarKey
<1>2. CASE tarea[h].op # "usarKey"
  <2>1. disco' = [disco EXCEPT ![tarea[h].ruta] = Ninguno]
      BY <1>2 DEF borrarKey
  <2>. QED
      BY <1>2, <2>1, Suya DEF Bien, IInv, TypeOK, Disco
<1>. QED
    BY <1>1, <1>2

\* A step that keeps what the handler knows and takes it from the installation
\* to the next one of the shared steps.
LEMMA PasoAvanza ==
    ASSUME IInv, IInv2, InvRutas, IInv', NEW h \in Tareas, NEW p \in {"probar", "guardar"},
           tarea[h].paso \in {"escribir", "probar"}, pasar(h, p),
           \A r \in Rutas : disco'[r] # disco[r] =>
              disco'[r] = tarea[h].clave /\ r = tarea[h].ruta,
           (tarea[h].op = "crearKey" /\ tarea[h].ruta = Fechada(tarea[h].token)
              /\ tarea[h].token \notin compartidas) =>
              disco'[Fechada(tarea[h].token)] = tarea[h].token,
           (tarea[h].op = "crearKey" /\ p = "guardar"
              /\ tarea[h].copia.host \notin perturbados \cup recortados) =>
              suLinea(tarea[h].token) \in autorizadas[tarea[h].copia.host],
           UNCHANGED <<perfiles, autorizadas, gwtmp, usados, guardadas,
                       incidentes>>
    PROVE  IInv2'
<1> DEFINE k == tarea[h].token
           t == [tarea[h] EXCEPT !.paso = p]
<1> USE DEF incidentes
<1>0. /\ Al(tarea[h].paso) /\ k \in Tokens /\ k # Ninguno
      /\ guardadas[k] = Ninguno /\ tarea[h].paso # "instalar"
      /\ tarea[h].clave \in Claves /\ tarea[h].clave # Ninguno
    BY ConToken, Suya, NingunoAssumption DEF Al, IInv2, InvTokens, Bien
<1>1. /\ \A g \in Tareas \ {h} : tarea'[g] = tarea[g]
                              /\ tarea[g].token # k
      /\ tarea'[h] = t
    BY <1>0, Distintos DEF pasar, IInv, TypeOK
<1>2. /\ t.paso = p /\ t.token = k /\ t.clave = tarea[h].clave
      /\ t.op = tarea[h].op /\ t.viva = tarea[h].viva /\ t.cli = tarea[h].cli
      /\ t.agregada = tarea[h].agregada /\ t.ruta = tarea[h].ruta
      /\ t.copia = tarea[h].copia
    BY Suya DEF Tarea
<1> HIDE DEF t
<1>3. \A x \in Hosts : lineas(x)' = lineas(x)
    BY DEF lineas, pendientes
<1>4. \A g \in Tareas : \A x : cruce(g, x)' <=> cruce(g, x)
    BY <1>1, <1>2, CruceIgual
<1>5. \A g \in Tareas :
         /\ tarea'[g].token = tarea[g].token /\ tarea'[g].clave = tarea[g].clave
         /\ tarea'[g].op = tarea[g].op /\ tarea'[g].viva = tarea[g].viva
         /\ tarea'[g].agregada = tarea[g].agregada
         /\ tarea'[g].copia = tarea[g].copia /\ tarea'[g].ruta = tarea[g].ruta
         /\ servidor(g)' = servidor(g)
         /\ tarea'[g].paso = IF g = h THEN p ELSE tarea[g].paso
    BY <1>1, <1>2 DEF servidor
<1>6. \A x \in Tokens : (x # k /\ x \notin compartidas) =>
         disco'[Fechada(x)] = disco[Fechada(x)]
    BY FijasSonRutas DEF InvRutas
<1>7. InvPropio'
  <2>1. Propio(t)
      BY <1>0, <1>2 DEF IInv2, InvPropio, Propio, Al, Fin
  <2>. QED
      BY <1>1, <2>1 DEF IInv2, InvPropio
<1>8. InvTokens'
  <2>1. tarea[h].clave <= usados
      BY <1>0 DEF IInv2, InvTokens
  <2>2. \A r \in Rutas : disco'[r] # Ninguno => disco'[r] <= usados
      BY <2>1 DEF IInv2, InvTokens
  <2>. QED
      BY <1>3, <1>5, <2>2 DEF IInv2, InvTokens
<1>9. InvSueltas' /\ InvLineas'
    BY <1>0, <1>3, <1>5 DEF IInv2, InvSueltas, InvLineas
<1>10. InvMover'
  <2>1. \A g \in Tareas : sinSuya(g)' = sinSuya(g)
      BY <1>5 DEF sinSuya
  <2>. QED
      BY <1>4, <1>5, <2>1 DEF IInv2, InvMover
<1>11. InvObra'
  <2> SUFFICES ASSUME NEW f \in Tareas, EnObra(f)'
               PROVE  /\ \A r \in Fijas : disco'[r] # tarea'[f].token
                      /\ \A g \in Tareas :
                            tarea'[g].clave = tarea'[f].token => g = f
                      /\ \A x \in Hosts : \A l \in lineas(x) :
                            l.clave = tarea'[f].token => l.token = tarea'[f].token
                      /\ (tarea'[f].paso \in {"probar", "guardar"}
                            /\ tarea'[f].ruta = Fechada(tarea'[f].token)
                            /\ tarea'[f].token \notin compartidas) =>
                            disco'[Fechada(tarea'[f].token)] = tarea'[f].token
                      /\ (tarea'[f].paso = "guardar"
                            /\ tarea'[f].copia.host \notin perturbados \cup recortados) =>
                            suLinea(tarea'[f].token)
                               \in autorizadas[tarea'[f].copia.host]
      BY <1>3 DEF InvObra
  <2>1. EnObra(f) /\ tarea[f].token \in Tokens
      BY <1>0, <1>5, Suya DEF EnObra, Bien
  <2>2. ASSUME NEW r \in Fijas PROVE disco'[r] # tarea[f].token
    <3>1. CASE disco'[r] = disco[r]
        BY <2>1, <3>1 DEF IInv2, InvObra
    <3>2. CASE disco'[r] # disco[r]
      <4>1. disco'[r] = tarea[h].clave /\ r = tarea[h].ruta
          BY <3>2, FijasSonRutas
      <4>2. f # h
          BY <2>1, <4>1, FijasSonRutas DEF IInv2, InvPropio, Propio, EnObra
      <4>. QED
          BY <2>1, <4>1, <4>2 DEF IInv2, InvObra
    <3>. QED
        BY <3>1, <3>2
  <2>3. CASE f = h
      BY <1>5, <2>1, <2>2, <2>3 DEF IInv2, InvObra, EnObra
  <2>4. CASE f # h
    <3>1. tarea[f].token \notin compartidas =>
             disco'[Fechada(tarea[f].token)] = disco[Fechada(tarea[f].token)]
        BY <1>1, <1>6, <2>1, <2>4
    <3>. QED
        BY <1>5, <2>1, <2>2, <2>4, <3>1 DEF IInv2, InvObra
  <2>. QED
      BY <2>3, <2>4
<1>12. InvHechas'
    BY <1>0, <1>6, NingunoAssumption DEF IInv2, InvHechas
<1>13. SinResiduos'
    BY <1>5 DEF IInv2, SinResiduos
<1>. QED
    BY <1>7, <1>8, <1>9, <1>10, <1>11, <1>12, <1>13 DEF IInv2

LEMMA Paso2Escribir ==
    ASSUME IInv, IInv2, InvRutas, IInv', NEW h \in Tareas, Escribir(h)
    PROVE  IInv2'
<1>0. Al(tarea[h].paso) /\ tarea[h].paso = "escribir"
    BY DEF Escribir, Al
<1>1. UNCHANGED <<perfiles, autorizadas, gwtmp, usados, guardadas, incidentes>>
      /\ MenosKeys
    BY DEF Escribir, remoto, historia, incidentes, MenosKeys
<1>2. Propio(tarea[h])
    BY DEF IInv2, InvPropio
<1>3. CASE disco' = [disco EXCEPT ![tarea[h].ruta] = tarea[h].clave]
           /\ pasar(h, "probar")
  <2>1. \A r \in Rutas : disco'[r] = IF r = tarea[h].ruta THEN tarea[h].clave
                                     ELSE disco[r]
      BY <1>0, <1>3, Suya DEF Bien, IInv, TypeOK, Disco
  <2>2. tarea[h].ruta \in Rutas
      BY <1>0, Suya DEF Bien
  <2>3. (tarea[h].op = "crearKey" /\ tarea[h].ruta = Fechada(tarea[h].token)) =>
           disco'[Fechada(tarea[h].token)] = tarea[h].token
      BY <1>0, <1>2, <2>1, <2>2 DEF Propio
  <2>. QED
      BY <1>0, <1>1, <1>3, <2>1, <2>3, PasoAvanza
<1>4. CASE disco' \in {disco, [disco EXCEPT ![tarea[h].ruta] = Ninguno]}
           /\ desistir(h)
  <2>1. CASE disco' = disco
      BY <1>0, <1>1, <1>4, <2>1, PasoDesistir
  <2>2. CASE disco' = [disco EXCEPT ![tarea[h].ruta] = Ninguno]
           /\ tarea[h].op # "usarKey"
    <3>1. \A r \in Rutas : disco'[r] = IF r = tarea[h].ruta THEN Ninguno
                                       ELSE disco[r]
        BY <1>0, <2>2, Suya DEF Bien, IInv, TypeOK, Disco
    <3>. QED
        BY <1>0, <1>1, <1>4, <2>2, <3>1, PasoDesistir
  <2>. QED
      BY <1>0, <1>2, <1>4, <2>1, <2>2 DEF Propio
<1>. QED
    BY <1>3, <1>4 DEF Escribir

\* The key that passes the test is admitted by the line of the handler.
LEMMA SuLineaAdmite ==
    ASSUME IInv, IInv2, NEW h \in Tareas, EnObra(h), superaPrueba(h)
    PROVE  suLinea(tarea[h].token) \in autorizadas[tarea[h].copia.host]
<1> DEFINE s == tarea[h].copia.host
           k == tarea[h].token
<1>1. s \in Hosts /\ k \in Tokens /\ tarea[h].clave = k
    BY Suya DEF EnObra, Bien, Perfil, IInv2, InvPropio, Propio
<1>2. PICK l \in autorizadas[s] : l.clave = k
    BY <1>1 DEF superaPrueba, admite
<1>3. l \in lineas(s) /\ l \in Lineas
    BY <1>1, <1>2, LineaTipada DEF lineas
<1>4. l.token = k
    BY <1>1, <1>2, <1>3 DEF IInv2, InvObra
<1>5. l = suLinea(k)
    BY <1>2, <1>3, <1>4 DEF Lineas, suLinea
<1>. QED
    BY <1>2, <1>5

LEMMA Paso2Probar ==
    ASSUME IInv, IInv2, InvRutas, IInv', NEW h \in Tareas, Probar(h)
    PROVE  IInv2'
<1>0. Al(tarea[h].paso) /\ tarea[h].paso = "probar"
    BY DEF Probar, Al
<1>1. UNCHANGED <<perfiles, autorizadas, gwtmp, usados, guardadas, incidentes>>
      /\ MenosKeys
    BY DEF Probar, remoto, historia, incidentes, MenosKeys
<1>2. CASE superaPrueba(h) /\ pasar(h, "guardar") /\ UNCHANGED disco
  <2>1. tarea[h].op = "crearKey" =>
           /\ (tarea[h].ruta = Fechada(tarea[h].token)
                 /\ tarea[h].token \notin compartidas) =>
                 disco[Fechada(tarea[h].token)] = tarea[h].token
           /\ suLinea(tarea[h].token) \in autorizadas[tarea[h].copia.host]
      BY <1>0, <1>2, SuLineaAdmite DEF EnObra, IInv2, InvObra
  <2>. QED
      BY <1>0, <1>1, <1>2, <2>1, PasoAvanza
<1>3. CASE borrarKey(h) /\ desistir(h)
    BY <1>0, <1>1, <1>3, BorrarKeyBien, PasoDesistir
<1>. QED
    BY <1>2, <1>3 DEF Probar

LEMMA Paso2GuardarFalla ==
    ASSUME IInv, IInv2, InvRutas, IInv', NEW h \in Tareas, GuardarFalla(h)
    PROVE  IInv2'
<1>0. Al(tarea[h].paso) /\ tarea[h].paso = "guardar"
    BY DEF GuardarFalla, Al
<1>1. UNCHANGED <<autorizadas, gwtmp, usados, guardadas, incidentes>>
      /\ desistir(h)
    BY DEF GuardarFalla, remoto
<1>2. MenosKeys
    BY DEF GuardarFalla, MenosKeys, Vacio
<1>3. CASE UNCHANGED disco
    BY <1>0, <1>1, <1>2, <1>3, PasoDesistir
<1>4. CASE borrarKey(h)
    BY <1>0, <1>1, <1>2, <1>4, BorrarKeyBien, PasoDesistir
<1>. QED
    BY <1>3, <1>4 DEF GuardarFalla

LEMMA Paso2Guardar ==
    ASSUME IInv, IInv2, InvRutas, IInv', NEW h \in Tareas, Guardar(h)
    PROVE  IInv2'
<1> DEFINE k == tarea[h].token
           n == tarea[h].nombre
           r == tarea[h].ruta
           s == tarea[h].copia.host
<1>0. /\ Al(tarea[h].paso) /\ tarea[h].paso = "guardar" /\ k \in Tokens
      /\ k # Ninguno /\ guardadas[k] = Ninguno /\ n \in Nombres
      /\ r \in Rutas /\ s \in Hosts /\ tarea[h].copia \in Perfil
      /\ tarea[h].op \in {"crear", "crearKey", "usarKey"} /\ k <= usados
    BY Suya, ConToken DEF Guardar, Al, Bien, IInv2, InvTokens, Perfil
<1>1. /\ \A g \in Tareas \ {h} : tarea'[g] = tarea[g] /\ servidor(g)' = servidor(g)
                              /\ tarea[g].token # k
      /\ tarea'[h] = TareaLibre
    BY <1>0, Distintos DEF Guardar, acabar, IInv, TypeOK, servidor
<1>2. /\ UNCHANGED <<disco, autorizadas, gwtmp, usados, sueltas, perturbados,
                      recortados, compartidas>>
      /\ guardadas' = [guardadas EXCEPT ![k] = s]
    BY DEF Guardar, remoto, incidentes
<1>3. /\ guardadas'[k] = s
      /\ \A t \in Tokens \ {k} : guardadas'[t] = guardadas[t]
    BY <1>0, <1>2 DEF IInv, TypeOK
<1>4. \A x \in Hosts : lineas(x)' = lineas(x)
    BY <1>2 DEF lineas, pendientes
<1>5. \A g \in Tareas : \A x : cruce(g, x)' <=> cruce(g, x)
    BY <1>0, <1>1, LibrePropia, CruceIgual
<1>6. \A g \in Tareas :
         (tarea'[g].token # Ninguno \/ tarea'[g].clave # Ninguno
            \/ tarea'[g].paso # "libre") => g # h /\ tarea'[g] = tarea[g]
    BY <1>1, LibrePropia
<1>7. InvPropio'
    BY <1>1, LibrePropia DEF IInv2, InvPropio
<1>8. InvTokens'
  <2>1. ASSUME NEW g \in Tareas, tarea'[g].token # Ninguno
        PROVE  /\ tarea'[g].token <= usados
               /\ guardadas'[tarea'[g].token] = Ninguno
               /\ \A f \in Tareas : tarea'[f].token = tarea'[g].token => f = g
    <3>1. g # h /\ tarea'[g] = tarea[g] /\ tarea[g].token \in Tokens \ {k}
        BY <1>1, <1>6, <2>1, ConToken DEF IInv2
    <3>2. guardadas'[tarea[g].token] = guardadas[tarea[g].token]
        BY <1>3, <3>1
    <3>3. \A f \in Tareas : tarea'[f].token = tarea[g].token =>
             tarea[f].token = tarea[g].token
        BY <1>6, <2>1, <3>1
    <3>. QED
        BY <2>1, <3>1, <3>2, <3>3 DEF IInv2, InvTokens
  <2>2. \A t \in Tokens : guardadas'[t] # Ninguno => t <= usados
      BY <1>0, <1>3 DEF IInv2, InvTokens
  <2>. QED
      BY <1>2, <1>4, <1>6, <2>1, <2>2 DEF IInv2, InvTokens
<1>9. InvSueltas'
    BY <1>1, <1>2, <1>6 DEF IInv2, InvSueltas
<1>10. InvLineas'
    BY <1>1, <1>4, <1>6, LineaTipada DEF IInv2, InvLineas
<1>11. InvMover'
  <2>1. \A g \in Tareas \ {h} : sinSuya(g)' = sinSuya(g)
      BY <1>1, <1>2 DEF sinSuya
  <2>. QED
      BY <1>1, <1>2, <1>5, <1>6, <2>1 DEF IInv2, InvMover
<1>12. InvObra'
  <2>1. \A f \in Tareas : EnObra(f)' => EnObra(f) /\ tarea'[f] = tarea[f]
      BY <1>1, LibrePropia DEF EnObra, Al
  <2>2. \A f \in Tareas : EnObra(f) => tarea[f].token # Ninguno
      BY ConToken DEF EnObra, IInv2
  <2>. QED
      BY <1>2, <1>4, <1>6, <2>1, <2>2 DEF IInv2, InvObra
<1>13. InvHechas'
  <2> SUFFICES ASSUME NEW m \in Nombres, NEW t \in Tokens,
                      perfiles'[m] # Ninguno, perfiles'[m].key = Fechada(t),
                      t \notin compartidas
               PROVE  /\ disco[Fechada(t)] = t
                      /\ guardadas'[t] \in Hosts
                      /\ guardadas'[t] \notin perturbados \cup recortados =>
                            suLinea(t) \in autorizadas[guardadas'[t]]
      BY <1>2 DEF InvHechas
  <2>0. perfiles' = conKey(h) /\ (tarea[h].op # "crear" => perfiles[n] # Ninguno)
      BY <1>0 DEF Guardar, Herramientas
  <2>1. CASE m = n
    <3>1. perfiles'[n].key = r
        BY <1>0, <2>0 DEF conKey, IInv, TypeOK, Almacen, Perfil
    <3>2. tarea[h].op = "crearKey"
        BY <1>0, <2>1, <3>1, FijasSonRutas DEF IInv2, InvPropio, Propio
    <3>3. t = k
        BY <2>1, <3>1 DEF InvRutas
    <3>4. disco[Fechada(k)] = k
          /\ (s \notin perturbados \cup recortados => suLinea(k) \in autorizadas[s])
        BY <1>0, <2>1, <3>1, <3>2, <3>3 DEF IInv2, InvObra, EnObra
    <3>. QED
        BY <1>0, <1>3, <3>3, <3>4
  <2>2. CASE m # n
    <3>1. perfiles'[m] = perfiles[m]
        BY <1>0, <2>0, <2>2 DEF conKey, IInv, TypeOK, Almacen
    <3>2. t # k
        BY <1>0, <3>1, NingunoAssumption DEF IInv2, InvHechas
    <3>. QED
        BY <1>3, <3>1, <3>2 DEF IInv2, InvHechas
  <2>. QED
      BY <2>1, <2>2
<1>14. SinResiduos'
  <2> SUFFICES ASSUME NEW x \in Hosts \ perturbados, NEW l \in autorizadas[x]
               PROVE  \/ guardadas'[l.token] # Ninguno
                      \/ l.token \in sueltas
                      \/ \E f \in Tareas : tarea'[f].token = l.token
      BY <1>2 DEF SinResiduos
  <2>1. l.token \in Tokens
      BY LineaTipada DEF lineas
  <2>2. CASE l.token = k
      BY <1>0, <1>3, <2>2, NingunoAssumption
  <2>3. CASE l.token # k
      BY <1>1, <1>3, <2>1, <2>3 DEF IInv2, SinResiduos
  <2>. QED
      BY <2>2, <2>3
<1>. QED
    BY <1>7, <1>8, <1>9, <1>10, <1>11, <1>12, <1>13, <1>14 DEF IInv2

\* grep -v: the copy of the file lacks the line of the handler.
LEMMA Paso2Filtrar ==
    ASSUME IInv, IInv2, IInv', NEW h \in Tareas, Filtrar(h)
    PROVE  IInv2'
<1>0. CASE acabar(h)
    BY <1>0, Paso2Acabar
<1> SUFFICES ASSUME ~acabar(h) PROVE IInv2'
    BY <1>0
<1> DEFINE k == tarea[h].token
           s == servidor(h)
           t == [tarea[h] EXCEPT !.paso = "mover"]
           copia == sinSuya(h)
<1>1. /\ tarea[h].paso = "filtrar" /\ Fin(tarea[h].paso)
      /\ s \in Hosts /\ k \in Tokens /\ k # Ninguno
    BY ConToken DEF Filtrar, Fin, IInv2
<1>2. /\ tarea' = [tarea EXCEPT ![h] = t]
      /\ UNCHANGED <<perfiles, disco, autorizadas, usados, guardadas,
                     perturbados, compartidas>>
      /\ sueltas \subseteq sueltas' /\ recortados \subseteq recortados'
      /\ \/ gwtmp' = [gwtmp EXCEPT ![s] = copia]
         \/ /\ \E parte \in SUBSET copia : gwtmp' = [gwtmp EXCEPT ![s] = parte]
            /\ s \in recortados'
         \/ gwtmp' = gwtmp /\ gwtmp[s] = Ninguno /\ k \in sueltas'
    BY DEF Filtrar, pasar, sinSuya
<1>3. /\ \A x \in Hosts \ {s} : gwtmp'[x] = gwtmp[x]
      /\ gwtmp'[s] = Ninguno => gwtmp[s] = Ninguno /\ k \in sueltas'
      /\ gwtmp'[s] # Ninguno =>
            gwtmp'[s] \subseteq copia /\ (s \notin recortados' => gwtmp'[s] = copia)
  <2>1. copia \in SUBSET Lineas
      BY <1>1 DEF IInv, TypeOK, sinSuya
  <2>2. \A parte \in SUBSET copia : parte # Ninguno
      BY <2>1, NingunoAssumption
  <2> HIDE DEF copia
  <2>. QED
      BY <1>1, <1>2, <2>2 DEF IInv, TypeOK
<1>4. /\ t.paso = "mover" /\ t.token = k /\ t.clave = tarea[h].clave
      /\ t.op = tarea[h].op /\ t.viva = tarea[h].viva /\ t.cli = tarea[h].cli
      /\ t.agregada = tarea[h].agregada /\ t.ruta = tarea[h].ruta
    BY Suya DEF Tarea
<1>5. /\ \A g \in Tareas \ {h} : tarea'[g] = tarea[g]
      /\ tarea'[h] = t
    BY <1>2 DEF IInv, TypeOK
<1> HIDE DEF t, copia
<1>6. \A g \in Tareas :
         /\ tarea'[g].token = tarea[g].token /\ tarea'[g].clave = tarea[g].clave
         /\ tarea'[g].op = tarea[g].op /\ tarea'[g].viva = tarea[g].viva
         /\ tarea'[g].agregada = tarea[g].agregada
         /\ servidor(g)' = servidor(g)
         /\ tarea'[g].paso = IF g = h THEN "mover" ELSE tarea[g].paso
    BY <1>4, <1>5 DEF servidor
<1>7. \A x \in Hosts : lineas(x)' \subseteq lineas(x)
  <2>1. copia \subseteq autorizadas[s]
      BY DEF copia, sinSuya
  <2>. QED
      BY <1>2, <1>3, <2>1 DEF lineas, pendientes
<1>8. InvPropio'
  <2>1. Propio(t)
      BY <1>1, <1>4 DEF IInv2, InvPropio, Propio, Al, Fin
  <2>. QED
      BY <1>5, <2>1 DEF IInv2, InvPropio
<1>9. InvTokens'
    BY <1>2, <1>6, <1>7 DEF IInv2, InvTokens
<1>10. InvSueltas' /\ InvLineas'
    BY <1>1, <1>2, <1>6, <1>7 DEF IInv2, InvSueltas, InvLineas
<1>11. InvMover'
  <2> SUFFICES ASSUME NEW g \in Tareas, tarea'[g].paso = "mover",
                      servidor(g) \notin perturbados
               PROVE  /\ gwtmp'[servidor(g)] = Ninguno =>
                            tarea[g].token \in sueltas'
                      /\ (gwtmp'[servidor(g)] # Ninguno
                            /\ ~cruce(g, servidor(g))') =>
                            /\ gwtmp'[servidor(g)] \subseteq sinSuya(g)
                            /\ servidor(g) \notin recortados' =>
                                  gwtmp'[servidor(g)] = sinSuya(g)
    <3>1. \A f \in Tareas : sinSuya(f)' = sinSuya(f)
        BY <1>2, <1>6 DEF sinSuya
    <3>. QED
        BY <1>2, <1>6, <3>1 DEF InvMover, cruce
  <2>1. CASE g = h
      BY <1>3, <2>1 DEF copia
  <2>2. CASE g # h
    <3>1. tarea[g].paso = "mover" /\ servidor(g) \in Hosts
        BY <1>6, <2>2, ConToken DEF IInv2, Fin
    <3>2. CASE servidor(g) = s
      <4>1. cruce(g, servidor(g))'
          BY <1>6, <2>2, <3>2 DEF cruce
      <4>2. gwtmp'[s] = Ninguno => tarea[g].token \in sueltas'
          BY <1>2, <1>3, <3>1, <3>2 DEF IInv2, InvMover
      <4>. QED
          BY <3>2, <4>1, <4>2
    <3>3. CASE servidor(g) # s
      <4>1. cruce(g, servidor(g)) => cruce(g, servidor(g))'
          BY <1>1, <1>6 DEF cruce
      <4>. QED
          BY <1>2, <1>3, <3>1, <3>3, <4>1 DEF IInv2, InvMover
    <3>. QED
        BY <3>2, <3>3
  <2>. QED
      BY <2>1, <2>2
<1>12. InvObra'
  <2>1. \A f \in Tareas : EnObra(f)' => EnObra(f) /\ tarea'[f] = tarea[f]
      BY <1>4, <1>5 DEF EnObra, Al
  <2>. QED
      BY <1>2, <1>6, <1>7, <2>1 DEF IInv2, InvObra
<1>13. InvHechas'
    BY <1>2 DEF IInv2, InvHechas
<1>14. SinResiduos'
    BY <1>2, <1>6 DEF IInv2, SinResiduos
<1>. QED
    BY <1>8, <1>9, <1>10, <1>11, <1>12, <1>13, <1>14 DEF IInv2

\* mv: the copy replaces the file, unless another handler has moved its own.
LEMMA Paso2Mover ==
    ASSUME IInv, IInv2, IInv', NEW h \in Tareas, Mover(h)
    PROVE  IInv2'
<1> DEFINE k == tarea[h].token
           s == servidor(h)
<1>1. /\ tarea[h].paso = "mover" /\ s \in Hosts /\ k \in Tokens /\ k # Ninguno
    BY ConToken DEF Mover, Fin, IInv2
<1>2. /\ UNCHANGED <<perfiles, disco, usados, guardadas, sueltas, recortados,
                      compartidas>>
      /\ autorizadas' = [autorizadas EXCEPT ![s] =
            IF gwtmp[s] = Ninguno THEN @ ELSE gwtmp[s]]
      /\ gwtmp' = [gwtmp EXCEPT ![s] = Ninguno]
      /\ perturbados \subseteq perturbados'
      /\ cruce(h, s) => s \in perturbados'
    BY DEF Mover, marcarCruce
<1>3. /\ autorizadas'[s] = IF gwtmp[s] = Ninguno THEN autorizadas[s] ELSE gwtmp[s]
      /\ gwtmp'[s] = Ninguno
      /\ \A x \in Hosts \ {s} : autorizadas'[x] = autorizadas[x]
                               /\ gwtmp'[x] = gwtmp[x]
    BY <1>1, <1>2 DEF IInv, TypeOK
<1>4. /\ \A g \in Tareas \ {h} : tarea'[g] = tarea[g] /\ servidor(g)' = servidor(g)
                              /\ tarea[g].token # k
      /\ tarea'[h] = TareaLibre
    BY <1>1, Distintos DEF Mover, acabar, IInv, TypeOK, servidor
<1>5. \A g \in Tareas :
         (tarea'[g].token # Ninguno \/ tarea'[g].clave # Ninguno
            \/ tarea'[g].paso # "libre") => g # h /\ tarea'[g] = tarea[g]
    BY <1>4, LibrePropia
<1>6. \A x \in Hosts : lineas(x)' \subseteq lineas(x)
    BY <1>3 DEF lineas, pendientes
\* When nobody else is at it and the disk is not full, the file loses the line
\* of the handler only; it keeps it when the copy could not be made.
<1>7. s \notin perturbados' =>
         /\ autorizadas'[s] \subseteq autorizadas[s]
         /\ k \notin sueltas => \A l \in autorizadas'[s] : l.token # k
         /\ s \notin recortados =>
               \A l \in autorizadas[s] : l.token # k => l \in autorizadas'[s]
    BY <1>1, <1>2, <1>3 DEF IInv2, InvMover, sinSuya
<1>8. InvPropio'
    BY <1>4, LibrePropia DEF IInv2, InvPropio
<1>9. InvTokens'
    BY <1>2, <1>5, <1>6 DEF IInv2, InvTokens
<1>10. InvSueltas'
    BY <1>2, <1>4, <1>5 DEF IInv2, InvSueltas
<1>11. InvLineas'
  <2> SUFFICES ASSUME NEW g \in Tareas, NEW x \in Hosts, NEW l \in lineas(x)',
                      tarea'[g].token = l.token
               PROVE  x = servidor(g)' /\ tarea'[g].agregada
                      /\ tarea'[g].paso # "instalar"
      BY DEF InvLineas
  <2>1. l \in lineas(x) /\ l.token # Ninguno
      BY <1>6, LineaTipada
  <2>. QED
      BY <1>4, <1>5, <2>1 DEF IInv2, InvLineas
<1>12. InvMover'
  <2> SUFFICES ASSUME NEW g \in Tareas, tarea'[g].paso = "mover",
                      servidor(g)' \notin perturbados'
               PROVE  /\ gwtmp'[servidor(g)'] = Ninguno =>
                            tarea'[g].token \in sueltas'
                      /\ (gwtmp'[servidor(g)'] # Ninguno
                            /\ ~cruce(g, servidor(g))') =>
                            /\ gwtmp'[servidor(g)'] \subseteq sinSuya(g)'
                            /\ servidor(g)' \notin recortados' =>
                                  gwtmp'[servidor(g)'] = sinSuya(g)'
      BY DEF InvMover
  <2>1. g # h /\ tarea'[g] = tarea[g] /\ servidor(g)' = servidor(g)
        /\ tarea[g].paso = "mover"
      BY <1>4, <1>5
  <2>2. servidor(g) # s /\ servidor(g) \in Hosts
      BY <1>2, <2>1, ConToken DEF cruce, IInv2, Fin
  <2>3. cruce(g, servidor(g)) => cruce(g, servidor(g))'
    <3>1. \A f \in Tareas \ {g} : tarea[f].paso = "mover"
             /\ servidor(f) = servidor(g) => f # h
        BY <2>2
    <3>. QED
        BY <1>4, <2>1, <3>1 DEF cruce
  <2>4. sinSuya(g)' = sinSuya(g)
      BY <1>3, <2>1, <2>2 DEF sinSuya
  <2>. QED
      BY <1>2, <1>3, <2>1, <2>2, <2>3, <2>4 DEF IInv2, InvMover
<1>13. InvObra'
  <2>1. \A f \in Tareas : EnObra(f)' => /\ EnObra(f) /\ tarea'[f] = tarea[f]
                                        /\ tarea[f].token # k
      BY <1>4, LibrePropia DEF EnObra, Al
  <2>2. \A f \in Tareas : EnObra(f) =>
           tarea[f].token # Ninguno /\ tarea[f].copia.host \in Hosts
      BY ConToken, Suya DEF EnObra, IInv2, Bien, Perfil
  <2>3. \A f \in Tareas : \A x \in Hosts :
           (EnObra(f)' /\ x \notin perturbados' \cup recortados
              /\ suLinea(tarea[f].token) \in autorizadas[x])
           => suLinea(tarea[f].token) \in autorizadas'[x]
      BY <1>3, <1>7, <2>1 DEF suLinea
  <2> SUFFICES ASSUME NEW f \in Tareas, EnObra(f)'
               PROVE  /\ \A r \in Fijas : disco[r] # tarea[f].token
                      /\ \A g \in Tareas :
                            tarea'[g].clave = tarea[f].token => g = f
                      /\ \A x \in Hosts : \A l \in lineas(x)' :
                            l.clave = tarea[f].token => l.token = tarea[f].token
                      /\ (tarea[f].paso \in {"probar", "guardar"}
                            /\ tarea[f].ruta = Fechada(tarea[f].token)
                            /\ tarea[f].token \notin compartidas) =>
                            disco[Fechada(tarea[f].token)] = tarea[f].token
                      /\ (tarea[f].paso = "guardar"
                            /\ tarea[f].copia.host \notin perturbados' \cup recortados) =>
                            suLinea(tarea[f].token)
                               \in autorizadas'[tarea[f].copia.host]
      BY <1>2, <2>1 DEF InvObra
  <2>. QED
      BY <1>2, <1>5, <1>6, <2>1, <2>2, <2>3 DEF IInv2, InvObra
<1>14. InvHechas'
  <2> SUFFICES ASSUME NEW n \in Nombres, NEW t \in Tokens,
                      perfiles[n] # Ninguno, perfiles[n].key = Fechada(t),
                      t \notin compartidas
               PROVE  /\ disco[Fechada(t)] = t
                      /\ guardadas[t] \in Hosts
                      /\ guardadas[t] \notin perturbados' \cup recortados =>
                            suLinea(t) \in autorizadas'[guardadas[t]]
      BY <1>2 DEF InvHechas
  <2>1. /\ disco[Fechada(t)] = t /\ guardadas[t] \in Hosts
        /\ guardadas[t] \notin perturbados \cup recortados =>
              suLinea(t) \in autorizadas[guardadas[t]]
      BY DEF IInv2, InvHechas
  <2>2. guardadas[k] = Ninguno
      BY <1>1 DEF IInv2, InvTokens
  <2>3. t # k
      BY <2>1, <2>2, NingunoAssumption
  <2>. QED
      BY <1>2, <1>3, <1>7, <2>1, <2>3 DEF suLinea
<1>15. SinResiduos'
  <2> SUFFICES ASSUME NEW x \in Hosts \ perturbados', NEW l \in autorizadas'[x]
               PROVE  \/ guardadas[l.token] # Ninguno
                      \/ l.token \in sueltas
                      \/ \E f \in Tareas : tarea'[f].token = l.token
      BY <1>2 DEF SinResiduos
  <2>1. l \in autorizadas[x] /\ x \notin perturbados
      BY <1>2, <1>3, <1>7
  <2>2. l.token # k \/ k \in sueltas
    <3>1. CASE x = s
        BY <1>7, <3>1
    <3>2. CASE x # s
        BY <2>1, <3>2 DEF IInv2, InvLineas, lineas
    <3>. QED
        BY <3>1, <3>2
  <2>. QED
      BY <1>4, <2>1, <2>2 DEF IInv2, SinResiduos
<1>. QED
    BY <1>8, <1>9, <1>10, <1>11, <1>12, <1>13, <1>14, <1>15 DEF IInv2

-----------------------------------------------------------------------------
(* The names of the files.                                                 *)

\* A step that names no new file leaves the handler with the one it had.
RutaQueda(h) ==
    \/ tarea'[h].ruta \in Fijas \cup {Ninguno}
    \/ /\ tarea'[h].ruta = tarea[h].ruta
       /\ tarea[h].token \in {Ninguno, tarea'[h].token}

LEMMA RutasQuedan ==
    ASSUME InvRutas, compartidas \subseteq compartidas',
           \A h \in Tareas :
              \/ RutaQueda(h)
              \/ \A m \in Tokens : tarea'[h].ruta = Fechada(m) =>
                    m = tarea'[h].token \/ m \in compartidas'
    PROVE  InvRutas'
<1>1. \A m \in Tokens : m # Ninguno /\ Fechada(m) \notin Fijas \cup {Ninguno}
    BY NingunoAssumption, FijasSonRutas DEF Claves
<1>. QED
    BY <1>1 DEF InvRutas, RutaQueda

\* One handler moves.
LEMMA QuedaUna ==
    ASSUME IInv, NEW h \in Tareas, NEW t, tarea' = [tarea EXCEPT ![h] = t],
           \/ t.ruta \in Fijas \cup {Ninguno}
           \/ t.ruta = tarea[h].ruta /\ tarea[h].token \in {Ninguno, t.token}
    PROVE  \A g \in Tareas : RutaQueda(g)
BY DEF RutaQueda, IInv, TypeOK

LEMMA QuedaAcabar ==
    ASSUME IInv, NEW h \in Tareas, acabar(h)
    PROVE  \A g \in Tareas : RutaQueda(g)
<1>1. TareaLibre.ruta = Ninguno
    BY DEF TareaLibre
<1>. QED
    BY <1>1, QuedaUna DEF acabar

LEMMA QuedaPasar ==
    ASSUME IInv, NEW h \in Tareas, NEW p, pasar(h, p)
    PROVE  \A g \in Tareas : RutaQueda(g)
<1> DEFINE t == [tarea[h] EXCEPT !.paso = p]
<1>1. tarea' = [tarea EXCEPT ![h] = t]
    BY DEF pasar
<1>2. t.ruta = tarea[h].ruta /\ t.token = tarea[h].token
    BY Suya DEF Tarea
<1> HIDE DEF t
<1>. QED
    BY <1>1, <1>2, QuedaUna

LEMMA QuedaEmpezar ==
    ASSUME IInv, NEW h \in Tareas, NEW op, NEW p, NEW n, NEW c,
           empezar(h, op, p, n, c)
    PROVE  \A g \in Tareas : RutaQueda(g)
<1> DEFINE t == [TareaLibre EXCEPT !.op = op, !.paso = p, !.nombre = n,
                                   !.copia = c]
<1>1. tarea' = [tarea EXCEPT ![h] = t]
    BY DEF empezar
<1>2. t.ruta = Ninguno
    BY DEF TareaLibre
<1> HIDE DEF t
<1>. QED
    BY <1>1, <1>2, QuedaUna

LEMMA QuedaDesistir ==
    ASSUME IInv, NEW h \in Tareas, desistir(h)
    PROVE  \A g \in Tareas : RutaQueda(g)
<1>1. CASE acabar(h)
    BY <1>1, QuedaAcabar
<1>2. CASE ~acabar(h)
  <2> DEFINE t == [tarea[h] EXCEPT !.paso = "filtrar", !.copia = Ninguno,
                                   !.clave = Ninguno, !.ruta = Ninguno]
  <2>1. tarea' = [tarea EXCEPT ![h] = t]
      BY <1>2 DEF desistir
  <2>2. t.ruta = Ninguno
      BY Suya DEF Tarea
  <2> HIDE DEF t
  <2>. QED
      BY <2>1, <2>2, QuedaUna
<1>. QED
    BY <1>1, <1>2

LEMMA QuedaCortar ==
    ASSUME IInv, NEW T, tarea' = cortar(T)
    PROVE  \A g \in Tareas : RutaQueda(g)
<1> SUFFICES ASSUME NEW g \in Tareas PROVE RutaQueda(g)
    OBVIOUS
<1>1. tarea'[g].ruta = tarea[g].ruta /\ tarea'[g].token = tarea[g].token
    BY Suya DEF cortar, Tarea
<1>. QED
    BY <1>1 DEF RutaQueda

\* Only the second step of a tool names a file after a moment; when it takes
\* that of another request the two share it from then on.
LEMMA RutaInstalada ==
    ASSUME IInv, InvRutas, NEW h \in Tareas, Instalar(h)
    PROVE  InvRutas'
<1>1. CASE acabar(h)
    BY <1>1, QuedaAcabar, RutasQuedan DEF Instalar
<1>2. CASE ~acabar(h)
  <2>1. PICK r \in destinos(h) :
           /\ tarea' = [tarea EXCEPT ![h].agregada = ~admite(servidor(h), tarea[h].clave),
                  ![h].ruta = r, ![h].paso = IF tarea[h].op = "usarKey" THEN "probar"
                                             ELSE "escribir"]
           /\ compartidas' = compartidas \cup coinciden(h, r)
      BY <1>2 DEF Instalar
  <2>2. /\ \A g \in Tareas \ {h} : tarea'[g] = tarea[g]
        /\ tarea'[h].ruta = r /\ tarea'[h].token = tarea[h].token
      BY <2>1, Suya DEF IInv, TypeOK, Tarea
  <2>3. \A m \in Tokens : r = Fechada(m) =>
           m = tarea[h].token \/ m \in compartidas'
      BY <2>1 DEF coinciden
  <2>4. \A g \in Tareas \ {h} : RutaQueda(g)
      BY <2>2 DEF RutaQueda
  <2>. QED
      BY <2>1, <2>2, <2>3, <2>4, RutasQuedan
<1>. QED
    BY <1>1, <1>2

LEMMA RutasPeticion ==
    ASSUME IInv, IInv2, InvRutas, NEW h \in Tareas, Peticion(h), ~Instalar(h)
    PROVE  InvRutas'
<1>1. compartidas' = compartidas
    BY DEF Peticion, Conectar, Marcar, GuardarHuella, Registrar, Crear,
       CrearMarcar, CrearKey, UsarKey, Sesion, Escribir, Probar, Guardar,
       GuardarFalla, Filtrar, Mover, historia, incidentes
<1> SUFFICES \A g \in Tareas : RutaQueda(g)
    BY <1>1, RutasQuedan
<1>2. CASE \E n \in Nombres : Conectar(h, n)
    BY <1>2, QuedaEmpezar DEF Conectar
<1>3. CASE \E n \in Nombres, s \in Hosts : Crear(h, n, s)
    BY <1>3, QuedaEmpezar DEF Crear
<1>4. CASE \E n \in Nombres : CrearKey(h, n)
    BY <1>4, QuedaEmpezar DEF CrearKey
<1>5. ASSUME NEW n \in Nombres, NEW r \in {Local, Fija(n)}, UsarKey(h, n, r)
      PROVE  \A g \in Tareas : RutaQueda(g)
  <2> DEFINE c == [perfiles[n] EXCEPT !.key = Ninguno]
             t == [TareaLibre EXCEPT !.op = "usarKey", !.paso = "sesion",
                      !.nombre = n, !.copia = c, !.clave = disco[r], !.ruta = r]
  <2>1. tarea' = [tarea EXCEPT ![h] = t]
      BY <1>5 DEF UsarKey
  <2>2. t.ruta = r /\ r \in Fijas
      BY DEF TareaLibre, Fijas
  <2> HIDE DEF t
  <2>. QED
      BY <2>1, <2>2, QuedaUna
<1>6. CASE Marcar(h)
  <2>1. CASE acabar(h)
      BY <2>1, QuedaAcabar
  <2>2. CASE ~acabar(h)
    <3> DEFINE c == tarea[h].copia
               t == [tarea[h] EXCEPT !.cli = huella(c.host), !.viva = TRUE,
                        !.copia = Ninguno,
                        !.paso = IF c.huella = Ninguno THEN "huella"
                                 ELSE "registrar"]
    <3>1. tarea' = [tarea EXCEPT ![h] = t]
        BY <1>6, <2>2 DEF Marcar
    <3>2. t.ruta = tarea[h].ruta /\ t.token = tarea[h].token
        BY Suya DEF Tarea
    <3> HIDE DEF t
    <3>. QED
        BY <3>1, <3>2, QuedaUna
  <2>. QED
      BY <2>1, <2>2
<1>7. CASE CrearMarcar(h)
  <2>1. CASE acabar(h)
      BY <2>1, QuedaAcabar
  <2>2. CASE ~acabar(h)
    <3> DEFINE k == usados + 1
               r == Fija(tarea[h].nombre)
               t == [tarea[h] EXCEPT !.cli = huella(tarea[h].copia.host),
                        !.viva = TRUE, !.token = k, !.clave = k,
                        !.paso = "instalar", !.ruta = r]
    <3>1. tarea' = [tarea EXCEPT ![h] = t]
        BY <1>7, <2>2 DEF CrearMarcar
    <3>2. t.ruta = r
        BY Suya DEF Tarea
    <3>3. r \in Fijas
        BY <1>7, Suya DEF CrearMarcar, Bien, Fijas
    <3> HIDE DEF t, r
    <3>. QED
        BY <3>1, <3>2, <3>3, QuedaUna
  <2>. QED
      BY <2>1, <2>2
<1>8. CASE Sesion(h)
  <2>1. CASE acabar(h)
      BY <2>1, QuedaAcabar
  <2>2. CASE ~acabar(h)
    <3> DEFINE k == usados + 1
               t == [tarea[h] EXCEPT !.cli = sesiones[tarea[h].nombre],
                        !.viva = TRUE, !.token = k, !.paso = "instalar",
                        !.clave = IF tarea[h].op = "crearKey" THEN k
                                  ELSE tarea[h].clave]
    <3>1. tarea' = [tarea EXCEPT ![h] = t]
        BY <1>8, <2>2 DEF Sesion
    <3>2. t.ruta = tarea[h].ruta
        BY Suya DEF Tarea
    <3>3. tarea[h].token = Ninguno
        BY <1>8, SinToken DEF Sesion
    <3> HIDE DEF t
    <3>. QED
        BY <3>1, <3>2, <3>3, QuedaUna
  <2>. QED
      BY <2>1, <2>2
<1>9. CASE GuardarHuella(h)
    BY <1>9, QuedaPasar DEF GuardarHuella
<1>10. CASE Registrar(h) \/ Guardar(h) \/ Mover(h)
    BY <1>10, QuedaAcabar DEF Registrar, Guardar, Mover
<1>11. CASE Escribir(h) \/ Probar(h) \/ GuardarFalla(h)
    BY <1>11, QuedaPasar, QuedaDesistir DEF Escribir, Probar, GuardarFalla
<1>12. CASE Filtrar(h)
    BY <1>12, QuedaPasar, QuedaAcabar DEF Filtrar
<1>. QED
    BY <1>2, <1>3, <1>4, <1>5, <1>6, <1>7, <1>8, <1>9, <1>10, <1>11, <1>12
    DEF Peticion

LEMMA RutasMundo ==
    ASSUME IInv, InvRutas, Mundo
    PROVE  InvRutas'
<1>1. compartidas' = compartidas
    BY DEF Mundo, PerderAlmacen, CaerSesion, CaerCliente, Reinstalar, Morir,
       historia, incidentes
<1> SUFFICES \A g \in Tareas : RutaQueda(g)
    BY <1>1, RutasQuedan
<1>2. CASE PerderAlmacen
    BY <1>2 DEF PerderAlmacen, RutaQueda
<1>3. CASE Morir
  <2> SUFFICES ASSUME NEW g \in Tareas PROVE RutaQueda(g)
      OBVIOUS
  <2>1. tarea'[g] \in {TareaLibre, [tarea[g] EXCEPT !.viva = FALSE]}
      BY <1>3 DEF Morir
  <2>2. TareaLibre.ruta = Ninguno
      BY DEF TareaLibre
  <2>3. /\ [tarea[g] EXCEPT !.viva = FALSE].ruta = tarea[g].ruta
        /\ [tarea[g] EXCEPT !.viva = FALSE].token = tarea[g].token
      BY Suya DEF Tarea
  <2>. QED
      BY <2>1, <2>2, <2>3 DEF RutaQueda
<1>4. CASE (\E n \in Nombres : CaerSesion(n)) \/ (\E h \in Tareas : CaerCliente(h))
           \/ (\E s \in Hosts : Reinstalar(s))
    BY <1>4, QuedaCortar DEF CaerSesion, CaerCliente, Reinstalar
<1>. QED
    BY <1>2, <1>3, <1>4 DEF Mundo

LEMMA PasoRutas ==
    ASSUME IInv, IInv2, InvRutas, [Next]_vars
    PROVE  InvRutas'
<1>1. CASE Usuario \/ UNCHANGED vars
    BY <1>1 DEF Usuario, Editar, Borrar, Importar, vars, historia, incidentes,
       InvRutas
<1>2. CASE \E h \in Tareas : Peticion(h)
    BY <1>2, RutasPeticion, RutaInstalada
<1>3. CASE Mundo
    BY <1>3, RutasMundo
<1>. QED
    BY <1>1, <1>2, <1>3 DEF Next

-----------------------------------------------------------------------------
(* Every step.                                                             *)

LEMMA Paso2Peticion ==
    ASSUME IInv, IInv2, InvRutas, IInv', NEW h \in Tareas, Peticion(h)
    PROVE  IInv2'
<1>1. ASSUME NEW n \in Nombres, NEW r \in {Local, Fija(n)}, UsarKey(h, n, r)
      PROVE  IInv2'
  <2>1. r \in Fijas
      BY DEF Fijas
  <2>. QED
      BY <1>1, <2>1, Paso2UsarKey
<1>. QED
    BY <1>1, Paso2Empezar, Paso2Marcar, Paso2GuardarHuella, Paso2Registrar,
       Paso2CrearMarcar, Paso2Sesion, Paso2Instalar, Paso2Escribir, Paso2Probar,
       Paso2Guardar, Paso2GuardarFalla, Paso2Filtrar, Paso2Mover DEF Peticion

LEMMA PasoIInv2 == ASSUME IInv, IInv2, InvRutas, [Next]_vars PROVE IInv2'
<1>0. IInv'
    BY PasoIInv
<1>1. CASE Usuario
    BY <1>0, <1>1, Paso2Usuario, Paso2Importar
<1>2. CASE \E h \in Tareas : Peticion(h)
    BY <1>0, <1>2, Paso2Peticion
<1>3. CASE Mundo
    BY <1>0, <1>3, Paso2PerderAlmacen, Paso2CaerSesion, Paso2CaerCliente,
       Paso2Reinstalar, Paso2Morir DEF Mundo
<1>4. CASE UNCHANGED vars
  <2>1. Quieto /\ \A h \in Tareas : Sigue(h)
      BY <1>4 DEF vars, Quieto, Sigue
  <2>. QED
      BY <1>0, <2>1, QuietoSigue
<1>. QED
    BY <1>1, <1>2, <1>3, <1>4 DEF Next

LEMMA RutasIniciales == Init => InvRutas
<1> SUFFICES ASSUME Init, NEW h \in Tareas, NEW m \in Tokens
             PROVE  tarea[h].ruta # Fechada(m)
    BY DEF InvRutas
<1>1. tarea[h].ruta = Ninguno
    BY DEF Init, TareaLibre
<1>. QED
    BY <1>1, NingunoAssumption, FijasSonRutas

\* The invariant of the keys, of their files and of their lines in
\* authorized_keys holds in every reachable state, whether or not two requests
\* of the same second share a file and whether or not a full disk cuts the copy
\* of authorized_keys.
THEOREM Invariante2 == Spec => [](IInv2 /\ InvRutas)
<1>1. Init => IInv2 /\ InvRutas
    BY Iniciales2, RutasIniciales
<1>2. IInv /\ (IInv2 /\ InvRutas) /\ [Next]_vars => (IInv2 /\ InvRutas)'
    BY PasoIInv2, PasoRutas
<1>. QED
    BY <1>1, <1>2, Invariante, PTL DEF Spec

\* A profile whose key was made by manejarToolCrearKey has its file, unless
\* another request of the same second took its name, and the server where it was
\* tested admits it, unless it was installed again, its disk filled or two
\* handlers rewrote authorized_keys at the same time.
THEOREM KeyUtil == Spec => []KeyCreadaSirve
<1>1. IInv2 => KeyCreadaSirve
    BY DEF IInv2, InvHechas, KeyCreadaSirve, admite, suLinea
<1>. QED
    BY <1>1, Invariante2, PTL

\* A tool that gives up leaves no line behind, for any number of handlers on
\* any servers, whatever step failed but its link or the command that takes the
\* line back.
THEOREM NadaOlvidado == Spec => []SinResiduos
<1>1. IInv2 => SinResiduos
    BY DEF IInv2
<1>. QED
    BY <1>1, Invariante2, PTL
=============================================================================
