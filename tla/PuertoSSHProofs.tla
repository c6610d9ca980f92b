-------------------------- MODULE PuertoSSHProofs --------------------------
(***************************************************************************)
(* Proofs about PuertoSSH, for every server, number of handlers, of tests  *)
(* and of faults.                                                          *)
(***************************************************************************)
EXTENDS PuertoSSH, SequenceTheorems, TLAPS

USE DEF historia

-----------------------------------------------------------------------------
(* The inductive invariant.  That two handlers never own the server at     *)
(* once rests on the tokens: no two handlers ever work for the same one.   *)

Tarea == [paso : Pasos, copia : Copia, cerrar : BOOLEAN, cli : BOOLEAN,
          guion : Seq(Ordenes)]

SinToken == [token : {Ninguno}, anterior : Puertos, nuevo : Puertos,
             probado : {FALSE}, unidad : {FALSE}, enCurso : {FALSE}]

\* A handler works for a token from its reservation on.
activa(x) == x.paso \notin {"libre", "reservar"}

\* The list of ignored commands ends the handler with its last one, and gives
\* the server back once.
guionValido(g) ==
    /\ g # <<>>
    /\ \A i \in 1..Len(g) :
          /\ g[i] \in {"soltar", "liberar"} => i = Len(g)
          /\ g[i] = "borrar" =>
                \A j \in 1..Len(g) : g[j] \in {"soltar", "borrar"} => j = i

forma(x) ==
    /\ IF x.paso = "guion" THEN guionValido(x.guion) ELSE x.guion = <<>>
    /\ x.paso = "reservar" => x.copia \in SinToken
    /\ activa(x) => x.copia.token \in Tokens

InvForma == \A h \in Tareas : forma(tarea[h])

\* A token is used by one handler, and it is not new.
InvToken ==
    \A h \in Tareas : activa(tarea[h]) =>
        /\ srv.guardia[tarea[h].copia.token] # "nueva"
        /\ \A g \in Tareas :
              activa(tarea[g]) /\ tarea[g].copia.token = tarea[h].copia.token
                  => g = h

\* Whoever owns the server works for the token of the entry.
InvOcupa ==
    \A h \in Tareas : ocupa(h) =>
        activa(tarea[h]) /\ cambio.token = tarea[h].copia.token

\* Nobody works for a stage that waits for the user; the token of the entry is
\* used, and that of a stage has been through systemd-run.
InvEspera ==
    /\ cambio.probado /\ ~cambio.enCurso =>
          \A h \in Tareas :
             activa(tarea[h]) => tarea[h].copia.token # cambio.token
    /\ cambio # SinCambio => srv.guardia[cambio.token] # "nueva"
    /\ cambio.probado => srv.guardia[cambio.token] \notin {"nueva", "sin"}

IInv == TypeOK /\ InvForma /\ InvToken /\ InvOcupa /\ InvEspera

-----------------------------------------------------------------------------
(* The lists of commands and the effects of each.                          *)

LEMMA Guiones ==
    /\ guionValido(<<"soltar">>)
    /\ guionValido(<<"liberar">>)
    /\ guionValido(<<"quitarClave", "soltar">>)
    /\ guionValido(<<"cerrarNuevo", "quitarClave", "soltar">>)
    /\ guionValido(<<"restaurar", "cerrarNuevo", "quitarClave", "soltar">>)
    /\ guionValido(<<"quitarClave", "quitarFinal", "liberar">>)
    /\ guionValido(<<"restaurar", "parar", "quitarClave", "cerrarNuevo",
                     "borrar", "quitarFinal", "liberar">>)
    /\ guionValido(<<"parar", "quitarClave", "borrarRespaldo", "borrar",
                     "quitarFinal", "liberar">>)
    /\ guionValido(<<"cerrarAnterior", "parar", "quitarClave",
                     "borrarRespaldo", "borrar", "quitarFinal", "liberar">>)
    /\ guionValido(<<"restaurar", "cerrarNuevo", "parar", "quitarClave",
                     "borrar", "quitarFinal", "liberar">>)
    /\ guionValido(<<"cerrarNuevo", "parar", "quitarClave", "borrar",
                     "liberar">>)
BY DEF guionValido

\* The rest of a list is again one, and the list without its first command.
LEMMA Resto ==
    ASSUME NEW g \in Seq(Ordenes), guionValido(g), Len(g) # 1
    PROVE  /\ Tail(g) \in Seq(Ordenes)
           /\ guionValido(Tail(g))
           /\ \A i \in 1..Len(Tail(g)) : i + 1 \in 1..Len(g) /\ Tail(g)[i] = g[i + 1]
<1>1. Len(g) \in Nat /\ Len(g) > 1
    <2>1. g # <<>>
        BY DEF guionValido
    <2>2. Len(g) \in Nat \ {0}
        BY <2>1, EmptySeq
    <2>. QED
        BY <2>2
<1>2. Tail(g) \in Seq(Ordenes) /\ Len(Tail(g)) = Len(g) - 1
    BY <1>1
<1>3. \A i \in 1..Len(Tail(g)) : i + 1 \in 1..Len(g) /\ Tail(g)[i] = g[i + 1]
    BY <1>1, <1>2
<1>4. Tail(g) # <<>>
    BY <1>1, <1>2
<1>5. \A i \in 1..Len(Tail(g)) :
         Tail(g)[i] \in {"soltar", "liberar"} => i = Len(Tail(g))
    <2> SUFFICES ASSUME NEW i \in 1..Len(Tail(g)),
                        Tail(g)[i] \in {"soltar", "liberar"}
                 PROVE  i = Len(Tail(g))
        OBVIOUS
    <2>1. i + 1 = Len(g) /\ i \in Int
        BY <1>3 DEF guionValido
    <2>2. Len(Tail(g)) = Len(g) - 1
        BY <1>2
    <2> HIDE <1>2
    <2>. QED
        BY <1>1, <2>1, <2>2
<1>6. \A i \in 1..Len(Tail(g)) : Tail(g)[i] = "borrar" =>
         \A j \in 1..Len(Tail(g)) : Tail(g)[j] \in {"soltar", "borrar"} => j = i
    <2> SUFFICES ASSUME NEW i \in 1..Len(Tail(g)), Tail(g)[i] = "borrar",
                        NEW j \in 1..Len(Tail(g)),
                        Tail(g)[j] \in {"soltar", "borrar"}
                 PROVE  j = i
        OBVIOUS
    <2>1. j + 1 = i + 1
        BY <1>3 DEF guionValido
    <2>. QED
        BY <1>1, <1>2, <2>1
<1>. QED
    BY <1>2, <1>3, <1>4, <1>5, <1>6 DEF guionValido

\* Whatever a script does keeps the types, and no test becomes new again.
conserva(s) ==
    /\ s \in Servidor
    /\ \A t \in Tokens :
          /\ srv.guardia[t] # "nueva" => s.guardia[t] # "nueva"
          /\ srv.guardia[t] \notin {"nueva", "sin"} =>
                s.guardia[t] \notin {"nueva", "sin"}

\* The history keeps its types.
historiaBien ==
    /\ viejas' \in SUBSET Tokens
    /\ perdidas' \in SUBSET Tokens
    /\ olvidadas' \in SUBSET (Tokens \X Clases)
    /\ errores' \in 0..MaxAverias

USE DEF historiaBien

\* A write that is cut short changes the file alone.
LEMMA Cortes ==
    ASSUME NEW s \in Servidor, NEW P \in SUBSET Puertos, NEW r \in cortes(s, P)
    PROVE  /\ r \in Servidor
           /\ r.guardia = s.guardia /\ r.claves = s.claves /\ r.abiertos = s.abiertos
           /\ r.respaldo = s.respaldo /\ r.activo = s.activo
BY DEF Servidor, cortes, escribir

\* A restoration that fails leaves the ports sshd listens on, and one that works
\* those of the backup.
LEMMA Restauraciones ==
    ASSUME NEW s \in Servidor, NEW t \in Tokens,
           NEW r \in {restaurar(s, t)} \cup restaurarFalla(s, t)
    PROVE  /\ r \in Servidor
           /\ r.guardia = s.guardia /\ r.claves = s.claves /\ r.abiertos = s.abiertos
           /\ r.respaldo = s.respaldo
           /\ r \in restaurarFalla(s, t) => r.activo = s.activo
           /\ r = restaurar(s, t) /\ s.respaldo[t] # Ninguno
                 => r.cfg = s.respaldo[t] /\ r.activo = s.respaldo[t]
<1>1. s.respaldo[t] # Ninguno => s.respaldo[t] \in SUBSET Puertos
    BY DEF Servidor
<1>2. CASE r = restaurar(s, t)
  <2>1. /\ r \in Servidor
        /\ r.guardia = s.guardia /\ r.claves = s.claves /\ r.abiertos = s.abiertos
        /\ r.respaldo = s.respaldo
        /\ s.respaldo[t] # Ninguno => r.cfg = s.respaldo[t] /\ r.activo = s.respaldo[t]
      BY <1>1, <1>2 DEF restaurar, configurar, Servidor
  <2>2. r \in restaurarFalla(s, t) => r.activo = s.activo
      BY <1>1, Cortes DEF restaurarFalla
  <2>. QED
      BY <2>1, <2>2
<1>3. CASE r # restaurar(s, t)
    BY <1>1, <1>3, Cortes DEF restaurarFalla
<1>. QED
    BY <1>2, <1>3

LEMMA EfectosConservan ==
    ASSUME NEW s \in Servidor, NEW c \in Cambio, c.token \in Tokens,
           NEW op \in Ordenes
    PROVE  /\ efecto(s, op, c) \in Servidor
           /\ \A t \in Tokens : \/ efecto(s, op, c).guardia[t] = s.guardia[t]
                              \/ /\ s.guardia[t] = "armada"
                                 /\ efecto(s, op, c).guardia[t] = "parada"
<1> USE DEF Servidor, Guardias, Clases
<1>1. restaurar(s, c.token) \in Servidor /\ restaurar(s, c.token).guardia = s.guardia
    BY DEF restaurar, configurar
<1>2. \A p : cerrarPuerto(s, p) \in Servidor /\ cerrarPuerto(s, p).guardia = s.guardia
    BY DEF cerrarPuerto
<1>3. \A cl : /\ quitarClave(s, c.token, cl) \in Servidor
              /\ quitarClave(s, c.token, cl).guardia = s.guardia
    BY DEF quitarClave
<1>4. /\ pararGuardia(s, c) \in Servidor
      /\ \A t \in Tokens : \/ pararGuardia(s, c).guardia[t] = s.guardia[t]
                         \/ /\ s.guardia[t] = "armada"
                            /\ pararGuardia(s, c).guardia[t] = "parada"
    BY DEF pararGuardia
<1>5. /\ [s EXCEPT !.respaldo[c.token] = Ninguno] \in Servidor
      /\ [s EXCEPT !.respaldo[c.token] = Ninguno].guardia = s.guardia
    OBVIOUS
<1> HIDE DEF Servidor, Guardias, Clases
<1>. QED
    BY <1>1, <1>2, <1>3, <1>4, <1>5 DEF efecto, Ordenes

-----------------------------------------------------------------------------
(* Each step preserves the invariant.                                      *)

LEMMA TareaLibreForma ==
    TareaLibre \in Tarea /\ forma(TareaLibre) /\ ~activa(TareaLibre)
<1>1. TareaLibre \in Tarea
    BY DEF TareaLibre, Tarea, Pasos, Copia, Cambio
<1>2. TareaLibre.paso = "libre" /\ TareaLibre.guion = <<>>
    BY DEF TareaLibre
<1> HIDE DEF TareaLibre
<1>. QED
    BY <1>1, <1>2 DEF forma, activa

LEMMA Iniciales == Init => IInv
<1> SUFFICES ASSUME Init PROVE IInv
    OBVIOUS
<1>1. \A h \in Tareas : tarea[h] = TareaLibre
    BY DEF Init
<1>2. TareaLibre \in Tarea
    BY DEF TareaLibre, Tarea, Pasos, Copia, Cambio
<1>3. TypeOK
    <2>1. srv \in Servidor
        BY DEF Init, Servidor, Guardias, Clases
    <2>. QED
        BY <1>2, <2>1, AveriasAssumption DEF Init, TypeOK, Cambio, Tarea
<1>4. \A h \in Tareas : ~activa(tarea[h]) /\ ~ocupa(h) /\ forma(tarea[h])
    BY <1>1 DEF activa, forma, ocupa, ordenes, TareaLibre
<1>. QED
    BY <1>3, <1>4 DEF Init, IInv, InvForma, InvToken, InvOcupa, InvEspera, SinCambio

\* A handler that works goes on for the same token, without touching the
\* entry and without taking the server back.
LEMMA PasoTarea ==
    ASSUME IInv, historiaBien, NEW h \in Tareas, NEW x \in Tarea,
           activa(tarea[h]), activa(x), forma(x), x.copia = tarea[h].copia,
           tarea' = [tarea EXCEPT ![h] = x],
           ocupa(h)' => ocupa(h),
           conserva(srv'), perfil' \in Puertos,
           UNCHANGED <<externo, cambio, enlace, averias>>
    PROVE  IInv'
<1>1. \A g \in Tareas : tarea'[g] = IF g = h THEN x ELSE tarea[g]
    BY DEF IInv, TypeOK
<1>2. TypeOK'
    BY DEF IInv, TypeOK, externo, conserva, Tarea
<1>3. InvForma'
    BY <1>1 DEF IInv, InvForma
<1>4. \A g \in Tareas : /\ activa(tarea[g])' <=> activa(tarea[g])
                        /\ tarea'[g].copia = tarea[g].copia
    BY <1>1 DEF activa
<1>5. \A g \in Tareas : ocupa(g)' => ocupa(g)
    <2>1. \A g \in Tareas : tarea'[g] = tarea[g] => (ocupa(g)' <=> ocupa(g))
        BY DEF ocupa, ordenes
    <2>2. \A g \in Tareas : g # h => tarea'[g] = tarea[g]
        BY <1>1
    <2>. QED
        BY <2>1, <2>2
<1>6. \A g \in Tareas : activa(tarea[g]) => tarea[g].copia.token \in Tokens
    BY DEF IInv, InvForma, forma
<1>10. \A t \in Tokens :
         /\ srv.guardia[t] # "nueva" => srv'.guardia[t] # "nueva"
         /\ srv.guardia[t] \notin {"nueva", "sin"} =>
               srv'.guardia[t] \notin {"nueva", "sin"}
    BY DEF conserva
<1>7. InvToken'
    BY <1>4, <1>6, <1>10 DEF IInv, InvToken
<1>8. InvOcupa'
    BY <1>4, <1>5 DEF IInv, InvOcupa
<1>9. InvEspera'
    <2>1. cambio # SinCambio => cambio.token \in Tokens
        BY DEF IInv, TypeOK, Cambio
    <2>2. cambio.probado => cambio # SinCambio
        BY DEF SinCambio
    <2>3. /\ cambio # SinCambio => srv'.guardia[cambio.token] # "nueva"
          /\ cambio.probado => srv'.guardia[cambio.token] \notin {"nueva", "sin"}
        BY <1>10, <2>1, <2>2 DEF IInv, InvEspera
    <2>4. cambio.probado /\ ~cambio.enCurso =>
             \A g \in Tareas : activa(tarea'[g]) => tarea'[g].copia.token # cambio.token
        BY <1>4 DEF IInv, InvEspera
    <2>. QED
        BY <2>3, <2>4 DEF InvEspera
<1>. QED
    BY <1>2, <1>3, <1>7, <1>8, <1>9 DEF IInv

\* The steps at which a handler owns the server, and no list of commands.
Trabajos == {"clave", "firewall", "config", "prueba", "guardia", "claveFinal",
             "final", "comprobar", "guardar", "cancelar"}

\* A handler at one of them goes to another, or to a list of commands.
LEMMA PasoTrabajo ==
    ASSUME IInv, historiaBien, NEW h \in Tareas, tarea[h].paso \in Trabajos,
           \/ \E p \in Trabajos : pasar(h, p)
           \/ \E g \in Seq(Ordenes) : guionValido(g) /\ terminar(h, g),
           conserva(srv'), perfil' \in Puertos,
           UNCHANGED <<externo, cambio, enlace, averias>>
    PROVE  IInv'
<1>1. /\ tarea[h] \in Tarea /\ activa(tarea[h]) /\ tarea[h].guion = <<>>
      /\ forma(tarea[h]) /\ ocupa(h)
    BY DEF IInv, TypeOK, Tarea, InvForma, forma, activa, ocupa, Trabajos
<1>2. CASE \E p \in Trabajos : pasar(h, p)
    <2>1. PICK p \in Trabajos : pasar(h, p)
        BY <1>2
    <2> DEFINE x == [tarea[h] EXCEPT !.paso = p]
    <2>2. tarea' = [tarea EXCEPT ![h] = x]
        BY <2>1 DEF pasar
    <2>3. x \in Tarea /\ x.paso = p /\ x.copia = tarea[h].copia /\ x.guion = <<>>
        BY <1>1 DEF Tarea, Pasos, Trabajos
    <2> HIDE DEF x
    <2>4. activa(x) /\ forma(x)
        BY <1>1, <2>3 DEF activa, forma, Trabajos
    <2>. QED
        BY <1>1, <2>2, <2>3, <2>4, PasoTarea
<1>3. CASE \E g \in Seq(Ordenes) : guionValido(g) /\ terminar(h, g)
    <2>1. PICK g \in Seq(Ordenes) : guionValido(g) /\ terminar(h, g)
        BY <1>3
    <2> DEFINE x == [tarea[h] EXCEPT !.paso = "guion", !.guion = g]
    <2>2. tarea' = [tarea EXCEPT ![h] = x]
        BY <2>1 DEF terminar
    <2>3. x \in Tarea /\ x.paso = "guion" /\ x.copia = tarea[h].copia /\ x.guion = g
        BY <1>1 DEF Tarea, Pasos
    <2> HIDE DEF x
    <2>4. activa(x) /\ forma(x)
        BY <1>1, <2>1, <2>3 DEF activa, forma
    <2>. QED
        BY <1>1, <2>2, <2>3, <2>4, PasoTarea
<1>. QED
    BY <1>2, <1>3

\* The same for a command whose error is checked.
LEMMA PasoOrden ==
    ASSUME IInv, historiaBien, NEW h \in Tareas, tarea[h].paso \in Trabajos,
           NEW hecho, conserva(hecho),
           NEW fallos, \A s \in fallos : conserva(s),
           NEW p \in Trabajos,
           NEW g \in Seq(Ordenes), guionValido(g),
           orden(h, hecho, fallos, p, g),
           UNCHANGED <<externo, perfil, cambio, enlace, averias>>
    PROVE  IInv'
<1>1. conserva(srv)
    BY DEF conserva, IInv, TypeOK
<1>2. conserva(srv')
    BY <1>1 DEF orden
<1>3. perfil' \in Puertos
    BY DEF IInv, TypeOK
<1>. QED
    BY <1>2, <1>3, PasoTrabajo DEF orden

\* A handler that works has a token and two ports.
LEMMA CopiaActiva ==
    ASSUME IInv, NEW h \in Tareas, activa(tarea[h])
    PROVE  /\ tarea[h].copia \in Cambio
           /\ tarea[h].copia.token \in Tokens
           /\ tarea[h].copia.anterior \in Puertos
           /\ tarea[h].copia.nuevo \in Puertos
<1>1. tarea[h].copia \in Copia /\ tarea[h].copia.token \in Tokens
    BY DEF IInv, TypeOK, InvForma, forma
<1>2. tarea[h].copia \notin SinToken
    BY <1>1, NingunoAssumption DEF SinToken
<1>3. tarea[h].copia \in Cambio
    BY <1>1, <1>2 DEF Copia, SinToken
<1>. QED
    BY <1>1, <1>3, NingunoAssumption DEF Cambio, SinCambio

\* What the checked commands do to the server.
LEMMA Escrituras ==
    ASSUME IInv, NEW t \in Tokens, NEW P \in SUBSET Puertos, NEW p \in Puertos,
           NEW cl \in Clases
    PROVE  /\ conserva(srv)
           /\ conserva([srv EXCEPT !.claves = @ \cup {<<t, cl>>}])
           /\ conserva([srv EXCEPT !.abiertos = @ \cup {p}])
           /\ conserva(configurar(srv, P))
           /\ conserva(configurar(respaldar(srv, t), P))
           /\ \A s \in cortes(srv, P) : conserva(s)
           /\ \A s \in cortes(respaldar(srv, t), P) : conserva(s)
           /\ conserva(respaldar(srv, t))
           /\ \A s \in {restaurar(srv, t)} \cup restaurarFalla(srv, t) : conserva(s)
<1>1. srv \in Servidor
    BY DEF IInv, TypeOK
<1>2. \A s \in Servidor : s.guardia = srv.guardia => conserva(s)
    BY DEF conserva
<1>3. conserva([srv EXCEPT !.claves = @ \cup {<<t, cl>>}])
    BY <1>1, <1>2 DEF Servidor
<1>4. conserva([srv EXCEPT !.abiertos = @ \cup {p}])
    BY <1>1, <1>2 DEF Servidor
<1>5. conserva(configurar(srv, P))
    BY <1>1, <1>2 DEF configurar, Servidor
<1>6. respaldar(srv, t) \in Servidor /\ respaldar(srv, t).guardia = srv.guardia
    BY <1>1 DEF respaldar, Servidor
<1>7. conserva(configurar(respaldar(srv, t), P))
    BY <1>2, <1>6 DEF configurar, Servidor
<1>8. \A s \in cortes(srv, P) : conserva(s)
    BY <1>1, <1>2, Cortes
<1>9. \A s \in cortes(respaldar(srv, t), P) : conserva(s)
    BY <1>2, <1>6, Cortes
<1>10. \A s \in {restaurar(srv, t)} \cup restaurarFalla(srv, t) : conserva(s)
    BY <1>1, <1>2, Restauraciones
<1>. QED
    BY <1>1, <1>2, <1>3, <1>4, <1>5, <1>6, <1>7, <1>8, <1>9, <1>10

LEMMA PasoProbar ==
    ASSUME IInv, historiaBien, NEW h \in Tareas,
           \/ ProbarClave(h) \/ ProbarFirewall(h)
           \/ ProbarConfig(h) \/ ProbarConexion(h)
    PROVE  IInv'
<1> DEFINE c == tarea[h].copia
<1>1. tarea[h].paso \in Trabajos /\ activa(tarea[h])
    BY DEF ProbarClave, ProbarFirewall, ProbarConfig, ProbarConexion, Trabajos,
           activa
<1>2. c.token \in Tokens /\ c.anterior \in Puertos /\ c.nuevo \in Puertos
    BY <1>1, CopiaActiva
<1>3. perfil \in Puertos
    BY DEF IInv, TypeOK
<1>4. CASE ProbarClave(h)
    <2>1. conserva([srv EXCEPT !.claves = @ \cup {<<c.token, "prueba">>}])
        BY <1>2, Escrituras DEF Clases
    <2>2. conserva(srv)
        BY <1>2, Escrituras DEF Clases
    <2>3. <<"soltar">> \in Seq(Ordenes)
        BY DEF Ordenes
    <2>4. "firewall" \in Trabajos
        BY DEF Trabajos
    <2>. QED
        BY <1>1, <1>4, <2>1, <2>2, <2>3, <2>4, Guiones, PasoOrden
        DEF ProbarClave
<1>5. CASE ProbarFirewall(h)
    <2> DEFINE s == [srv EXCEPT !.abiertos = @ \cup {c.nuevo}]
    <2>1. \A r \in {srv, s} : conserva(r)
        BY <1>2, Escrituras DEF Clases
    <2>3. <<"quitarClave", "soltar">> \in Seq(Ordenes)
        BY DEF Ordenes
    <2>4. "config" \in Trabajos
        BY DEF Trabajos
    <2>5. /\ orden(h, s, {srv, s}, "config", <<"quitarClave", "soltar">>)
          /\ UNCHANGED <<externo, perfil, cambio, enlace, averias>>
        BY <1>5 DEF ProbarFirewall
    <2> HIDE DEF s
    <2>. QED
        BY <1>1, <2>1, <2>3, <2>4, <2>5, Guiones, PasoOrden
<1>6. CASE ProbarConfig(h)
    <2> DEFINE s == respaldar(srv, c.token)
               P == {c.anterior, c.nuevo}
               F == {srv, s, configurar(s, P)} \cup cortes(s, P)
    <2>1. P \in SUBSET Puertos
        BY <1>2
    <2>2. conserva(configurar(s, P)) /\ \A r \in F : conserva(r)
        BY <1>2, <2>1, Escrituras DEF Clases
    <2>3. <<"cerrarNuevo", "quitarClave", "soltar">> \in Seq(Ordenes)
        BY DEF Ordenes
    <2>4. "prueba" \in Trabajos
        BY DEF Trabajos
    <2>5. orden(h, configurar(s, P), F, "prueba",
                <<"cerrarNuevo", "quitarClave", "soltar">>)
        BY <1>6 DEF ProbarConfig
    <2>6. UNCHANGED <<externo, perfil, cambio, enlace, averias>>
        BY <1>6 DEF ProbarConfig
    <2> HIDE DEF s, P, F
    <2>. QED
        BY <1>1, <2>2, <2>3, <2>4, <2>5, <2>6, Guiones, PasoOrden
<1>7. CASE ProbarConexion(h)
    <2>1. conserva(srv')
        BY <1>2, <1>7, Escrituras DEF ProbarConexion, Clases
    <2>2. <<"restaurar", "cerrarNuevo", "quitarClave", "soltar">> \in Seq(Ordenes)
        BY DEF Ordenes
    <2>3. "guardia" \in Trabajos
        BY DEF Trabajos
    <2>. QED
        BY <1>1, <1>3, <1>7, <2>1, <2>2, <2>3, Guiones, PasoTrabajo
        DEF ProbarConexion
<1>. QED
    BY <1>4, <1>5, <1>6, <1>7

LEMMA PasoAplicar ==
    ASSUME IInv, historiaBien, NEW h \in Tareas,
           \/ AplicarClave(h) \/ AplicarConfig(h) \/ AplicarConexion(h)
           \/ AplicarGuardar(h) \/ CancelarRestaurar(h)
    PROVE  IInv'
<1> DEFINE c == tarea[h].copia
<1>1. tarea[h].paso \in Trabajos /\ activa(tarea[h])
    BY DEF AplicarClave, AplicarConfig, AplicarConexion, AplicarGuardar,
           CancelarRestaurar, Trabajos, activa
<1>2. c.token \in Tokens /\ c.anterior \in Puertos /\ c.nuevo \in Puertos
    BY <1>1, CopiaActiva
<1>3. perfil \in Puertos /\ conserva(srv)
    BY <1>2, Escrituras DEF IInv, TypeOK, Clases
<1>4. CASE AplicarClave(h)
    <2>1. conserva([srv EXCEPT !.claves = @ \cup {<<c.token, "final">>}])
        BY <1>2, Escrituras DEF Clases
    <2>2. <<"liberar">> \in Seq(Ordenes)
        BY DEF Ordenes
    <2>3. "final" \in Trabajos
        BY DEF Trabajos
    <2>. QED
        BY <1>1, <1>3, <1>4, <2>1, <2>2, <2>3, Guiones, PasoOrden
        DEF AplicarClave
<1>5. CASE AplicarConfig(h)
    <2> DEFINE P == {c.nuevo}
               F == {srv, configurar(srv, P)} \cup cortes(srv, P)
    <2>1. P \in SUBSET Puertos
        BY <1>2
    <2>2. conserva(configurar(srv, P)) /\ \A r \in F : conserva(r)
        BY <1>2, <2>1, Escrituras DEF Clases
    <2>3. <<"quitarClave", "quitarFinal", "liberar">> \in Seq(Ordenes)
        BY DEF Ordenes
    <2>4. "comprobar" \in Trabajos
        BY DEF Trabajos
    <2>5. /\ orden(h, configurar(srv, P), F, "comprobar",
                   <<"quitarClave", "quitarFinal", "liberar">>)
          /\ UNCHANGED <<externo, perfil, cambio, enlace, averias>>
        BY <1>5 DEF AplicarConfig
    <2> HIDE DEF P, F
    <2>. QED
        BY <1>1, <1>3, <2>2, <2>3, <2>4, <2>5, Guiones, PasoOrden
<1>6. CASE AplicarConexion(h)
    <2>1. conserva(srv')
        BY <1>2, <1>6, Escrituras DEF AplicarConexion, Clases
    <2>2. <<"restaurar", "parar", "quitarClave", "cerrarNuevo", "borrar",
            "quitarFinal", "liberar">> \in Seq(Ordenes)
        BY DEF Ordenes
    <2>3. "guardar" \in Trabajos
        BY DEF Trabajos
    <2>. QED
        BY <1>1, <1>3, <1>6, <2>1, <2>2, <2>3, Guiones, PasoTrabajo
        DEF AplicarConexion
<1>7. CASE AplicarGuardar(h)
    <2>1. conserva(srv') /\ perfil' \in Puertos
        BY <1>2, <1>3, <1>7, Escrituras DEF AplicarGuardar, Clases
    <2>2. /\ <<"parar", "quitarClave", "borrarRespaldo", "borrar",
               "quitarFinal", "liberar">> \in Seq(Ordenes)
          /\ <<"cerrarAnterior", "parar", "quitarClave", "borrarRespaldo",
               "borrar", "quitarFinal", "liberar">> \in Seq(Ordenes)
          /\ <<"restaurar", "cerrarNuevo", "parar", "quitarClave", "borrar",
               "quitarFinal", "liberar">> \in Seq(Ordenes)
        BY DEF Ordenes
    <2>4. \E g \in Seq(Ordenes) : guionValido(g) /\ terminar(h, g)
        BY <1>7, <2>2, Guiones DEF AplicarGuardar
    <2>. QED
        BY <1>1, <1>7, <2>1, <2>4, PasoTrabajo DEF AplicarGuardar
<1>8. CASE CancelarRestaurar(h)
    <2>1. conserva(srv')
        BY <1>2, <1>3, <1>8, Escrituras DEF CancelarRestaurar, Clases
    <2>2. /\ <<"cerrarNuevo", "parar", "quitarClave", "borrar", "liberar">>
                 \in Seq(Ordenes)
          /\ <<"liberar">> \in Seq(Ordenes)
        BY DEF Ordenes
    <2>3. \E g \in Seq(Ordenes) : guionValido(g) /\ terminar(h, g)
        BY <1>8, <2>2, Guiones DEF CancelarRestaurar
    <2>. QED
        BY <1>1, <1>3, <1>8, <2>1, <2>3, PasoTrabajo DEF CancelarRestaurar
<1>. QED
    BY <1>4, <1>5, <1>6, <1>7, <1>8

\* What ocupa says depends on the handler alone, and a handler without a list
\* of commands that has not reserved owns nothing.
LEMMA OcupaDe ==
    ASSUME NEW g
    PROVE  /\ tarea'[g] = tarea[g] => (ocupa(g)' <=> ocupa(g))
           /\ /\ tarea'[g].guion = <<>>
              /\ tarea'[g].paso \in {"libre", "reservar"}
              => ~ocupa(g)'
<1>1. tarea'[g].guion = <<>> => ordenes(g)' = {}
    BY DEF ordenes
<1>. QED
    BY <1>1 DEF ocupa, ordenes

LEMMA PasoLeer ==
    ASSUME IInv, historiaBien, NEW h \in Tareas, NEW p \in Puertos, ProbarLeer(h, p)
    PROVE  IInv'
<1> DEFINE y == [SinCambio EXCEPT !.anterior = perfil, !.nuevo = p]
           x == [TareaLibre EXCEPT !.paso = "reservar", !.cli = TRUE, !.copia = y]
<1>1. y \in SinToken
    BY DEF IInv, TypeOK, SinCambio, SinToken
<1>2. x \in Tarea /\ x.paso = "reservar" /\ x.guion = <<>> /\ x.copia = y
    <2>1. y \in Copia
        BY <1>1 DEF Copia, SinToken
    <2>2. TareaLibre.guion = <<>>
        BY DEF TareaLibre
    <2> HIDE DEF y, TareaLibre
    <2>. QED
        BY <2>1, <2>2, TareaLibreForma DEF Tarea, Pasos
<1>3. tarea' = [tarea EXCEPT ![h] = x] /\ tarea[h].paso = "libre"
    BY DEF ProbarLeer
<1>4. x.copia \in SinToken
    BY <1>1, <1>2
<1> HIDE DEF x, y
<1>5. \A g \in Tareas : tarea'[g] = IF g = h THEN x ELSE tarea[g]
    BY <1>3 DEF IInv, TypeOK
<1>6. TypeOK'
    BY <1>2, <1>3 DEF ProbarLeer, IInv, TypeOK, externo, Tarea
<1>7. forma(x) /\ ~activa(x)
    BY <1>2, <1>4 DEF forma, activa
<1>8. \A g \in Tareas : (ocupa(g)' => ocupa(g)) /\ (g = h => ~ocupa(g)')
    BY <1>2, <1>5, OcupaDe
<1>. QED
    BY <1>5, <1>6, <1>7, <1>8
    DEF ProbarLeer, IInv, InvForma, InvToken, InvOcupa, InvEspera, externo

LEMMA PasoReservar ==
    ASSUME IInv, historiaBien, NEW h \in Tareas, NEW t \in Tokens, ProbarReservar(h, t)
    PROVE  IInv'
<1>1. tarea[h] \in Tarea /\ tarea[h].paso = "reservar" /\ srv.guardia[t] = "nueva"
      /\ tarea[h].copia \in SinToken /\ tarea[h].guion = <<>> /\ srv \in Servidor
    BY DEF ProbarReservar, IInv, TypeOK, Tarea, InvForma, forma
<1>2. CASE cambio # SinCambio
    <2>1. /\ \A g \in Tareas : tarea'[g] = IF g = h THEN TareaLibre ELSE tarea[g]
          /\ UNCHANGED <<srv, cambio>>
        BY <1>2 DEF ProbarReservar, IInv, TypeOK
    <2>2. TareaLibre \in Tarea /\ forma(TareaLibre) /\ ~activa(TareaLibre)
        BY TareaLibreForma
    <2>3. TypeOK'
        BY <1>2, <2>1, <2>2 DEF ProbarReservar, IInv, TypeOK, externo, Tarea
    <2>4. \A g \in Tareas : (ocupa(g)' => ocupa(g)) /\ (g = h => ~ocupa(g)')
        BY <2>1, OcupaDe DEF TareaLibre
    <2>. QED
        BY <2>1, <2>2, <2>3, <2>4
        DEF ProbarReservar, IInv, InvForma, InvToken, InvOcupa, InvEspera, externo
<1>3. CASE cambio = SinCambio
    <2> DEFINE x == [tarea[h] EXCEPT !.paso = "clave", !.copia.token = t]
    <2>1. /\ tarea' = [tarea EXCEPT ![h] = x]
          /\ cambio' = [tarea[h].copia EXCEPT !.token = t]
          /\ srv' = [srv EXCEPT !.guardia[t] = "sin"]
        BY <1>3 DEF ProbarReservar
    <2>2. cambio' \in Cambio /\ cambio'.token = t /\ cambio'.probado = FALSE
        BY <1>1, <2>1 DEF Cambio, SinToken
    <2>3. x \in Tarea /\ x.paso = "clave" /\ x.copia.token = t /\ x.guion = <<>>
        <3>1. [tarea[h].copia EXCEPT !.token = t] \in Copia
            BY <2>1, <2>2 DEF Copia
        <3>2. x = [tarea[h] EXCEPT !.paso = "clave",
                                   !.copia = [tarea[h].copia EXCEPT !.token = t]]
            OBVIOUS
        <3>3. t = [tarea[h].copia EXCEPT !.token = t].token
            BY <1>1 DEF SinToken
        <3> HIDE DEF x
        <3>. QED
            BY <1>1, <3>1, <3>2, <3>3 DEF Tarea, Pasos
    <2>4. conserva(srv') /\ srv'.guardia[t] = "sin"
        BY <1>1, <2>1 DEF conserva, Servidor, Guardias
    <2> HIDE DEF x
    <2>5. \A g \in Tareas : tarea'[g] = IF g = h THEN x ELSE tarea[g]
        BY <2>1 DEF IInv, TypeOK
    <2>6. TypeOK'
        BY <2>1, <2>2, <2>3, <2>4
        DEF ProbarReservar, IInv, TypeOK, externo, conserva, Tarea
    <2>7. forma(x) /\ activa(x)
        BY <2>3 DEF forma, activa
    <2>8. \A g \in Tareas : g # h => ~ocupa(g)'
        <3>1. \A g \in Tareas : ~ocupa(g)
            BY <1>3, NingunoAssumption DEF IInv, InvOcupa, InvForma, forma, SinCambio
        <3>. QED
            BY <2>5, <3>1 DEF ocupa, ordenes
    <2>9. \A g \in Tareas : activa(tarea[g]) => tarea[g].copia.token \in Tokens \ {t}
        BY <1>1 DEF IInv, InvForma, forma, InvToken
    <2>10. InvToken'
        BY <2>3, <2>4, <2>5, <2>7, <2>9 DEF IInv, InvToken, conserva
    <2>11. InvOcupa'
        BY <2>2, <2>3, <2>5, <2>7, <2>8 DEF InvOcupa
    <2>12. InvEspera' /\ InvForma'
        BY <2>2, <2>4, <2>5, <2>7 DEF IInv, InvEspera, InvForma
    <2>. QED
        BY <2>6, <2>10, <2>11, <2>12 DEF IInv
<1>. QED
    BY <1>2, <1>3

\* A handler that ends leaves its token to nobody.
LEMMA Fin ==
    ASSUME IInv, historiaBien, NEW h \in Tareas, activa(tarea[h]),
           tarea' = [tarea EXCEPT ![h] = TareaLibre],
           cambio' \in Cambio,
           \/ UNCHANGED cambio
           \/ cambio' = SinCambio /\ (cambio.token = tarea[h].copia.token \/ ocupa(h))
           \/ cambio'.token = cambio.token /\ cambio.token = tarea[h].copia.token,
           \/ cambio'.probado => cambio.probado
           \/ srv'.guardia[cambio.token] \notin {"nueva", "sin"},
           conserva(srv'),
           UNCHANGED <<externo, perfil, enlace, averias>>
    PROVE  IInv'
<1>1. \A g \in Tareas : tarea'[g] = IF g = h THEN TareaLibre ELSE tarea[g]
    BY DEF IInv, TypeOK
<1>2. TareaLibre \in Tarea /\ forma(TareaLibre) /\ ~activa(TareaLibre)
    BY TareaLibreForma
<1>3. TypeOK'
    BY <1>2 DEF IInv, TypeOK, externo, conserva, Tarea
<1>4. \A g \in Tareas : (ocupa(g)' => ocupa(g)) /\ (g = h => ~ocupa(g)')
    BY <1>1, OcupaDe DEF TareaLibre
<1>5. \A g \in Tareas : activa(tarea[g]) =>
         /\ tarea[g].copia.token \in Tokens
         /\ tarea[g].copia.token = tarea[h].copia.token => g = h
    BY DEF IInv, InvForma, forma, InvToken
<1>6. InvForma' /\ InvToken'
    BY <1>1, <1>2, <1>5 DEF IInv, InvForma, InvToken, conserva
<1>7. InvOcupa'
    BY <1>1, <1>4, <1>5 DEF IInv, InvOcupa
<1>8. cambio' # SinCambio => cambio'.token = cambio.token /\ cambio # SinCambio
    BY <1>5, NingunoAssumption DEF SinCambio
<1>9. InvEspera'
    <2>1. cambio # SinCambio => cambio.token \in Tokens
        BY DEF IInv, TypeOK, Cambio
    <2>2. cambio' # SinCambio => srv'.guardia[cambio'.token] # "nueva"
        BY <1>8, <2>1 DEF IInv, InvEspera, conserva
    <2>4. cambio'.probado => srv'.guardia[cambio'.token] \notin {"nueva", "sin"}
      <3> SUFFICES ASSUME cambio'.probado
                   PROVE  srv'.guardia[cambio'.token] \notin {"nueva", "sin"}
          OBVIOUS
      <3>1. cambio' # SinCambio
          BY DEF SinCambio
      <3>. QED
          BY <1>8, <2>1, <3>1 DEF IInv, InvEspera, conserva
    <2>3. ASSUME cambio'.probado, ~cambio'.enCurso, NEW g \in Tareas,
                 activa(tarea[g])', tarea'[g].copia.token = cambio'.token
          PROVE  FALSE
        <3>1. g # h /\ tarea'[g] = tarea[g] /\ activa(tarea[g])
            BY <1>1, <1>2, <2>3
        <3>2. cambio' # SinCambio
            BY <2>3 DEF SinCambio
        <3>3. cambio' = cambio
            BY <1>5, <2>3, <3>1, <3>2
        <3>. QED
            BY <2>3, <3>1, <3>3 DEF IInv, InvEspera
    <2>. QED
        BY <2>2, <2>3, <2>4 DEF InvEspera
<1>. QED
    BY <1>3, <1>6, <1>7, <1>9 DEF IInv

LEMMA PasoGuardia ==
    ASSUME IInv, historiaBien, NEW h \in Tareas, ProbarGuardia(h)
    PROVE  IInv'
<1> DEFINE c == tarea[h].copia
<1>1. activa(tarea[h]) /\ ocupa(h)
    BY DEF ProbarGuardia, activa, ocupa
<1>2. c \in Cambio /\ c.token \in Tokens /\ cambio.token = c.token
    BY <1>1, CopiaActiva DEF IInv, InvOcupa
<1>3. PICK unidad \in BOOLEAN :
          cambio' = [c EXCEPT !.probado = TRUE, !.unidad = unidad]
    BY DEF ProbarGuardia
<1>4. cambio' \in Cambio /\ cambio'.token = c.token
    <2>1. c # SinCambio
        BY <1>2, NingunoAssumption DEF SinCambio
    <2>. QED
        BY <1>2, <1>3, <2>1 DEF Cambio
<1>6. PICK g \in {"armada", "ninguna"} : srv' = [srv EXCEPT !.guardia[c.token] = g]
    BY DEF ProbarGuardia
<1>5. conserva(srv')
    <2>2. srv \in Servidor
        BY DEF IInv, TypeOK
    <2>. QED
        BY <1>2, <1>6, <2>2 DEF conserva, Servidor, Guardias
<1>7. srv'.guardia[cambio.token] \notin {"nueva", "sin"}
    BY <1>2, <1>6 DEF IInv, TypeOK, Servidor
<1>. QED
    BY <1>1, <1>2, <1>4, <1>5, <1>7, Fin DEF ProbarGuardia

LEMMA PasoTomar ==
    ASSUME IInv, historiaBien, NEW h \in Tareas, NEW p \in Trabajos, NEW b \in BOOLEAN,
           tomar(h, p, b)
    PROVE  IInv'
<1> DEFINE x == [TareaLibre EXCEPT !.paso = p, !.cli = TRUE, !.cerrar = b,
                                   !.copia = cambio]
<1>1. cambio \in Cambio /\ cambio.probado /\ ~cambio.enCurso
      /\ tarea[h].paso = "libre"
    BY DEF tomar, IInv, TypeOK
<1>2. cambio # SinCambio
    BY <1>1 DEF SinCambio
<1>3. cambio.token \in Tokens
    BY <1>1, <1>2 DEF Cambio
<1>4. x \in Tarea /\ x.paso = p /\ x.guion = <<>> /\ x.copia = cambio
    <2>1. TareaLibre.guion = <<>> /\ cambio \in Copia
        BY <1>1 DEF TareaLibre, Copia
    <2> HIDE DEF TareaLibre
    <2>. QED
        BY <2>1, TareaLibreForma DEF Tarea, Pasos, Trabajos
<1>5. /\ tarea' = [tarea EXCEPT ![h] = x]
      /\ cambio' = [cambio EXCEPT !.enCurso = TRUE]
      /\ UNCHANGED <<externo, srv, perfil, enlace, averias>>
    BY DEF tomar
<1> HIDE DEF x
<1>6. \A g \in Tareas : tarea'[g] = IF g = h THEN x ELSE tarea[g]
    BY <1>5 DEF IInv, TypeOK
<1>7. cambio' \in Cambio /\ cambio'.token = cambio.token /\ cambio'.enCurso
    BY <1>1, <1>2, <1>5 DEF Cambio
<1>8. TypeOK'
    BY <1>4, <1>5, <1>7 DEF IInv, TypeOK, externo, Tarea
<1>9. forma(x) /\ activa(x)
    BY <1>3, <1>4 DEF forma, activa, Trabajos
<1>10. \A g \in Tareas : activa(tarea[g]) => tarea[g].copia.token # cambio.token
    BY <1>1 DEF IInv, InvEspera
<1>11. InvForma' /\ InvToken'
    BY <1>2, <1>4, <1>5, <1>6, <1>9, <1>10 DEF IInv, InvForma, InvToken, InvEspera
<1>12. InvOcupa'
    <2>1. \A g \in Tareas : g # h => (ocupa(g)' <=> ocupa(g))
        BY <1>6, OcupaDe
    <2>. QED
        BY <1>4, <1>6, <1>7, <1>9, <2>1 DEF IInv, InvOcupa
<1>13. InvEspera'
    BY <1>1, <1>2, <1>5, <1>7 DEF IInv, InvEspera
<1>. QED
    BY <1>8, <1>11, <1>12, <1>13 DEF IInv

LEMMA PasoGuion ==
    ASSUME IInv, historiaBien, NEW h \in Tareas, Guion(h)
    PROVE  IInv'
<1> DEFINE c == tarea[h].copia
           g == tarea[h].guion
           op == Head(g)
<1>1. /\ tarea[h] \in Tarea /\ tarea[h].paso = "guion" /\ activa(tarea[h])
      /\ g \in Seq(Ordenes) /\ guionValido(g) /\ c \in Cambio /\ c.token \in Tokens
    BY CopiaActiva
    DEF Guion, IInv, TypeOK, Tarea, InvForma, forma, activa
<1>2. Len(g) \in Nat /\ Len(g) >= 1 /\ 1 \in 1..Len(g) /\ op = g[1] /\ op \in Ordenes
    <2>1. g # <<>>
        BY <1>1 DEF guionValido
    <2>2. Len(g) \in Nat \ {0}
        BY <1>1, <2>1, EmptySeq
    <2>. QED
        BY <1>1, <2>1, <2>2
<1>3. conserva(srv')
  <2>1. srv \in Servidor
      BY DEF IInv, TypeOK
  <2>2. CASE srv' = srv
      BY <2>1, <2>2 DEF conserva
  <2>3. CASE srv' = efecto(srv, op, c)
    <3> HIDE DEF op, c
    <3>. QED
        BY <1>1, <1>2, <2>1, <2>3, EfectosConservan DEF conserva
  <2>4. CASE srv' \in restaurarFalla(srv, c.token)
      BY <1>1, <2>1, <2>4, Restauraciones DEF conserva
  <2>. QED
      BY <2>2, <2>3, <2>4 DEF Guion, ordenFalla
<1>4. op \in {"borrar", "soltar"} => ocupa(h)
    BY <1>1, <1>2, LenProperties DEF ocupa, ordenes
<1>5. op = "borrar" => cambio.token = c.token
    BY <1>4 DEF IInv, InvOcupa
<1>6. CASE Len(g) = 1
    <2>1. tarea' = [tarea EXCEPT ![h] = TareaLibre]
        BY <1>6 DEF Guion
    <2>2. \/ UNCHANGED cambio
          \/ cambio' = SinCambio /\ ocupa(h)
          \/ /\ cambio' = [cambio EXCEPT !.enCurso = FALSE]
             /\ cambio.token = c.token
        BY <1>4 DEF Guion
    <2>3. cambio.token = c.token => cambio \in Cambio \ {SinCambio}
        BY <1>1, NingunoAssumption DEF IInv, TypeOK, SinCambio
    <2>4. cambio.token = c.token =>
             /\ [cambio EXCEPT !.enCurso = FALSE] \in Cambio
             /\ [cambio EXCEPT !.enCurso = FALSE].token = cambio.token
        BY <2>3 DEF Cambio
    <2>5. cambio' \in Cambio
        BY <2>2, <2>4 DEF IInv, TypeOK, Cambio
    <2>6. cambio'.probado => cambio.probado
        BY <2>2, <2>3 DEF SinCambio, Cambio
    <2>7. /\ UNCHANGED <<externo, perfil, enlace, averias>>
          /\ \/ cambio'.token = cambio.token
             \/ ~(/\ cambio.token = c.token
                  /\ cambio' = [cambio EXCEPT !.enCurso = FALSE])
        BY <2>4 DEF Guion
    <2>. QED
        BY <1>1, <1>3, <2>1, <2>2, <2>5, <2>6, <2>7, Fin
<1>7. CASE Len(g) # 1
    <2> DEFINE x == [tarea[h] EXCEPT !.guion = Tail(g)]
    <2>1. /\ Tail(g) \in Seq(Ordenes)
          /\ guionValido(Tail(g))
          /\ \A i \in 1..Len(Tail(g)) :
                i + 1 \in 1..Len(g) /\ Tail(g)[i] = g[i + 1]
        BY <1>1, <1>7, Resto
    <2>2. tarea' = [tarea EXCEPT ![h] = x]
        BY <1>7 DEF Guion
    <2>3. x \in Tarea /\ x.paso = "guion" /\ x.copia = c /\ x.guion = Tail(g)
        BY <1>1, <2>1 DEF Tarea
    <2>4. op \notin {"soltar", "liberar"}
        BY <1>1, <1>2, <1>7 DEF guionValido
    <2> HIDE DEF x
    <2>5. activa(x) /\ forma(x)
        BY <1>1, <2>1, <2>3 DEF activa, forma
    <2>6. ocupa(h)' => \E i \in 1..Len(Tail(g)) : Tail(g)[i] \in {"soltar", "borrar"}
        <3>1. tarea'[h] = x
            BY <2>2 DEF IInv, TypeOK
        <3>2. DOMAIN Tail(g) = 1..Len(Tail(g))
            BY <2>1, LenProperties
        <3>. QED
            BY <2>3, <3>1, <3>2 DEF ocupa, ordenes
    <2>7. ocupa(h)' => ocupa(h)
        <3>1. DOMAIN g = 1..Len(g)
            BY <1>1, LenProperties
        <3>. QED
            BY <2>1, <2>6, <3>1 DEF ocupa, ordenes
    <2>8. CASE op # "borrar"
        <3>1. UNCHANGED <<externo, perfil, cambio, enlace, averias>>
            BY <2>4, <2>8 DEF Guion
        <3>2. perfil' \in Puertos
            BY <3>1 DEF IInv, TypeOK
        <3>. QED
            BY <1>1, <1>3, <2>2, <2>3, <2>5, <2>7, <3>1, <3>2, PasoTarea
    <2>9. CASE op = "borrar"
        <3>1. cambio' = SinCambio /\ UNCHANGED <<externo, perfil, enlace, averias>>
            BY <2>9 DEF Guion
        <3>2. \A r \in Tareas : tarea'[r] = IF r = h THEN x ELSE tarea[r]
            BY <2>2 DEF IInv, TypeOK
        <3>3. TypeOK'
            BY <1>3, <2>2, <2>3, <3>1
            DEF IInv, TypeOK, externo, conserva, Tarea, Cambio
        <3>4. ~ocupa(h)'
            <4>1. \A i \in 1..Len(Tail(g)) : Tail(g)[i] \notin {"soltar", "borrar"}
                <5> SUFFICES ASSUME NEW i \in 1..Len(Tail(g)),
                                    Tail(g)[i] \in {"soltar", "borrar"}
                             PROVE  FALSE
                    OBVIOUS
                <5>1. i + 1 = 1 /\ i \in Int /\ i >= 1
                    BY <1>1, <1>2, <2>1, <2>9 DEF guionValido
                <5>. QED
                    BY <5>1
            <4>. QED
                BY <2>6, <4>1
        <3>5. \A r \in Tareas : ~ocupa(r)'
            <4>1. ASSUME NEW r \in Tareas, r # h, ocupa(r)'
                  PROVE  FALSE
                <5>1. ocupa(r)
                    BY <3>2, <4>1, OcupaDe
                <5>2. activa(tarea[r]) /\ tarea[r].copia.token = c.token
                    BY <1>5, <2>9, <5>1 DEF IInv, InvOcupa
                <5>. QED
                    BY <1>1, <4>1, <5>2 DEF IInv, InvToken
            <4>. QED
                BY <3>4, <4>1
        <3>6. \A r \in Tareas : /\ activa(tarea[r])' <=> activa(tarea[r])
                                /\ tarea'[r].copia = tarea[r].copia
            BY <1>1, <2>3, <2>5, <3>2
        <3>7. \A r \in Tareas : activa(tarea[r]) => tarea[r].copia.token \in Tokens
            BY DEF IInv, InvForma, forma
        <3>8. InvForma'
            BY <2>5, <3>2 DEF IInv, InvForma
        <3>9. InvToken'
            BY <1>3, <3>6, <3>7 DEF IInv, InvToken, conserva
        <3>10. InvOcupa' /\ InvEspera'
            BY <3>1, <3>5 DEF InvOcupa, InvEspera, SinCambio
        <3>. QED
            BY <3>3, <3>8, <3>9, <3>10 DEF IInv
    <2>. QED
        BY <2>8, <2>9
<1>. QED
    BY <1>6, <1>7

\* A step that moves no handler and not the entry.
LEMMA PasoAjeno ==
    ASSUME IInv, TypeOK', conserva(srv'), UNCHANGED <<cambio, tarea>>
    PROVE  IInv'
<1>1. \A h \in Tareas : ocupa(h)' <=> ocupa(h)
    BY DEF ocupa, ordenes
<1>2. \A h \in Tareas : activa(tarea[h]) => tarea[h].copia.token \in Tokens
    BY DEF IInv, InvForma, forma
<1>3. cambio # SinCambio => cambio.token \in Tokens
    BY DEF IInv, TypeOK, Cambio
<1>4. \A t \in Tokens :
         /\ srv.guardia[t] # "nueva" => srv'.guardia[t] # "nueva"
         /\ srv.guardia[t] \notin {"nueva", "sin"} =>
               srv'.guardia[t] \notin {"nueva", "sin"}
    BY DEF conserva
<1>5. InvForma' /\ InvOcupa'
    BY <1>1 DEF IInv, InvForma, InvOcupa
<1>6. InvToken'
    BY <1>2, <1>4 DEF IInv, InvToken
<1>7. InvEspera'
    <2>1. cambio.probado => cambio # SinCambio
        BY DEF SinCambio
    <2>. QED
        BY <1>3, <1>4, <2>1 DEF IInv, InvEspera
<1>. QED
    BY <1>5, <1>6, <1>7 DEF IInv

LEMMA PasoEntorno ==
    ASSUME IInv, historiaBien,
           \/ \E t \in Tokens : GuardiaDispara(t)
           \/ \E p \in Puertos : Bloquear(p)
           \/ Conectar
    PROVE  IInv'
<1>1. conserva(srv)
    BY DEF IInv, TypeOK, conserva
<1>2. ASSUME NEW t \in Tokens, GuardiaDispara(t)
      PROVE  IInv'
    <2> DEFINE s == [srv EXCEPT !.guardia[t] = "disparada"]
    <2>1. conserva(s)
        BY <1>1 DEF conserva, Servidor, Guardias
    <2>2. \/ srv' = quitarClave(restaurar(s, t), t, "prueba")
          \/ srv' \in {restaurar(s, t)} \cup restaurarFalla(s, t)
        BY <1>2 DEF GuardiaDispara
    <2> HIDE DEF s
    <2>3. \A r \in {restaurar(s, t)} \cup restaurarFalla(s, t) :
             r \in Servidor /\ r.guardia = s.guardia
        BY <2>1, Restauraciones DEF conserva
    <2>4. srv' \in Servidor /\ srv'.guardia = s.guardia
        BY <2>2, <2>3 DEF quitarClave, Servidor
    <2>5. conserva(srv')
        BY <2>1, <2>4 DEF conserva
    <2>6. TypeOK'
        BY <1>2, <2>4 DEF GuardiaDispara, IInv, TypeOK, externo
    <2>. QED
        BY <1>2, <2>5, <2>6, PasoAjeno DEF GuardiaDispara
<1>3. ASSUME NEW p \in Puertos, Bloquear(p)
      PROVE  IInv'
    <2>1. TypeOK'
        BY <1>3, AveriasAssumption DEF Bloquear, IInv, TypeOK, externo
    <2>. QED
        BY <1>1, <1>3, <2>1, PasoAjeno DEF Bloquear
<1>4. CASE Conectar
    <2>1. TypeOK'
        BY <1>4 DEF Conectar, IInv, TypeOK, externo
    <2>. QED
        BY <1>1, <1>4, <2>1, PasoAjeno DEF Conectar
<1>. QED
    BY <1>2, <1>3, <1>4

LEMMA PasoAveria ==
    ASSUME IInv, historiaBien, CaerEnlace \/ Morir
    PROVE  IInv'
<1>1. CASE CaerEnlace
    <2>1. \A h \in Tareas : tarea'[h] = [tarea[h] EXCEPT !.cli = FALSE]
        BY <1>1 DEF CaerEnlace
    <2>2. \A h \in Tareas : /\ tarea[h] \in Tarea
                            /\ tarea'[h] \in Tarea
                            /\ tarea'[h].paso = tarea[h].paso
                            /\ tarea'[h].copia = tarea[h].copia
                            /\ tarea'[h].guion = tarea[h].guion
        BY <2>1 DEF IInv, TypeOK, Tarea
    <2>3. TypeOK'
        <3>1. tarea' \in [Tareas -> Tarea]
            BY <1>1, <2>2 DEF CaerEnlace
        <3>2. averias' \in 0..MaxAverias /\ enlace' \in BOOLEAN
            <4>1. averias \in 0..MaxAverias
                BY DEF IInv, TypeOK
            <4>2. averias' \in 0..MaxAverias
                BY <1>1, <4>1, AveriasAssumption DEF CaerEnlace
            <4>3. enlace' \in BOOLEAN
                BY <1>1 DEF CaerEnlace
            <4>. QED
                BY <4>2, <4>3
        <3>. QED
            BY <1>1, <3>1, <3>2 DEF CaerEnlace, IInv, TypeOK, externo, Tarea
    <2>4. \A h \in Tareas : ordenes(h)' = ordenes(h)
        BY <2>2 DEF ordenes
    <2>5. \A h \in Tareas : /\ activa(tarea[h])' <=> activa(tarea[h])
                            /\ ocupa(h)' <=> ocupa(h)
        BY <2>2, <2>4 DEF activa, ocupa
    <2>6. \A h \in Tareas : forma(tarea[h])' <=> forma(tarea[h])
        BY <2>2, <2>5 DEF forma
    <2>7. InvForma' /\ InvToken'
        BY <1>1, <2>2, <2>5, <2>6 DEF CaerEnlace, IInv, InvForma, InvToken
    <2>8. InvOcupa' /\ InvEspera'
        BY <1>1, <2>2, <2>5 DEF CaerEnlace, IInv, InvOcupa, InvEspera
    <2>. QED
        BY <2>3, <2>7, <2>8 DEF IInv
<1>2. CASE Morir
    <2>1. \A h \in Tareas : tarea'[h] = TareaLibre
        BY <1>2 DEF Morir
    <2>2. \A h \in Tareas : ~ocupa(h)' /\ forma(tarea[h])' /\ ~activa(tarea[h])'
        BY <2>1, TareaLibreForma, OcupaDe DEF TareaLibre
    <2>3. TypeOK'
        <3>1. tarea' \in [Tareas -> Tarea]
            BY <1>2, TareaLibreForma DEF Morir
        <3>2. averias' \in 0..MaxAverias /\ enlace' \in BOOLEAN /\ cambio' \in Cambio
            <4>1. averias \in 0..MaxAverias
                BY DEF IInv, TypeOK
            <4>2. averias' \in 0..MaxAverias /\ cambio' \in Cambio
                BY <1>2, <4>1, AveriasAssumption DEF Morir, Cambio
            <4>3. enlace' \in BOOLEAN
                BY <1>2 DEF Morir
            <4>. QED
                BY <4>2, <4>3
        <3>. QED
            BY <1>2, <3>1, <3>2 DEF Morir, IInv, TypeOK, externo, Tarea
    <2>. QED
        BY <1>2, <2>2, <2>3
        DEF Morir, IInv, InvForma, InvToken, InvOcupa, InvEspera, SinCambio
<1>. QED
    BY <1>1, <1>2

\* What the steps write down of the past has its type.
LEMMA PasoHistoria ==
    ASSUME IInv, [Next]_vars
    PROVE  historiaBien
<1>1. /\ viejas \in SUBSET Tokens /\ perdidas \in SUBSET Tokens
      /\ olvidadas \in SUBSET (Tokens \X Clases)
      /\ averias \in Nat /\ errores \in Nat /\ errores \in 0..MaxAverias
    BY AveriasAssumption DEF IInv, TypeOK
<1>2. contarError => errores' \in 0..MaxAverias
    BY <1>1, AveriasAssumption DEF contarError
<1>3. contarCorte => errores' \in 0..MaxAverias
    BY <1>1, <1>2 DEF contarCorte
<1>4. CASE UNCHANGED historia
    BY <1>1, <1>4
<1>5. ASSUME NEW h \in Tareas, NEW t \in Tokens, ProbarReservar(h, t)
      PROVE  historiaBien
    BY <1>1, <1>5 DEF ProbarReservar
<1>6. ASSUME NEW h \in Tareas, ProbarConfig(h)
      PROVE  historiaBien
  <2>1. tarea[h].copia.token \in Tokens
      BY <1>6, CopiaActiva DEF ProbarConfig, activa
  <2>. QED
      BY <1>1, <1>3, <1>6, <2>1 DEF ProbarConfig
<1>7. ASSUME NEW h \in Tareas, AplicarConfig(h) \/ CancelarRestaurar(h)
      PROVE  historiaBien
    BY <1>1, <1>3, <1>7 DEF AplicarConfig, CancelarRestaurar
<1>8. ASSUME NEW h \in Tareas, Guion(h)
      PROVE  historiaBien
  <2>1. tarea[h].copia.token \in Tokens
      BY <1>8, CopiaActiva DEF Guion, activa
  <2>2. viejas' = viejas
      BY <1>8 DEF Guion
  <2>3. CASE UNCHANGED <<perdidas, olvidadas, errores>>
      BY <1>1, <2>2, <2>3
  <2>4. CASE ordenFalla(h, Head(tarea[h].guion), tarea[h].copia.token)
      BY <1>1, <1>2, <2>1, <2>2, <2>4 DEF ordenFalla, Clases
  <2>. QED
      BY <1>8, <2>3, <2>4 DEF Guion
<1>9. ASSUME NEW t \in Tokens, GuardiaDispara(t)
      PROVE  historiaBien
    BY <1>1, <1>3, <1>9 DEF GuardiaDispara
<1>10. ASSUME NEW h \in Tareas,
             \/ \E p \in Puertos : ProbarLeer(h, p)
             \/ ProbarClave(h) \/ ProbarFirewall(h) \/ ProbarConexion(h)
             \/ ProbarGuardia(h) \/ \E cerrar \in BOOLEAN : Aplicar(h, cerrar)
             \/ AplicarClave(h) \/ AplicarConexion(h) \/ AplicarGuardar(h)
             \/ Cancelar(h)
      PROVE  UNCHANGED historia
    BY <1>10 DEF ProbarLeer, ProbarClave, ProbarFirewall, ProbarConexion, ProbarGuardia,
       Aplicar, Cancelar, tomar, AplicarClave, AplicarConexion, AplicarGuardar
<1>11. (\E p \in Puertos : Bloquear(p)) \/ CaerEnlace \/ Conectar \/ Morir
          \/ UNCHANGED vars
          => UNCHANGED historia
    BY DEF Bloquear, CaerEnlace, Conectar, Morir, vars
<1> HIDE DEF historia, historiaBien
<1>. QED
    BY <1>4, <1>5, <1>6, <1>7, <1>8, <1>9, <1>10, <1>11 DEF Next

LEMMA Paso == IInv /\ [Next]_vars => IInv'
<1> SUFFICES ASSUME IInv, [Next]_vars PROVE IInv'
    OBVIOUS
<1>. historiaBien
    BY PasoHistoria
<1>1. CASE UNCHANGED vars
    <2>1. conserva(srv') /\ TypeOK'
        BY <1>1 DEF vars, externo, IInv, TypeOK, conserva
    <2>. QED
        BY <1>1, <2>1, PasoAjeno DEF vars
<1>2. "claveFinal" \in Trabajos /\ "cancelar" \in Trabajos
    BY DEF Trabajos
<1>3. ASSUME NEW h \in Tareas, (\E b \in BOOLEAN : Aplicar(h, b)) \/ Cancelar(h)
      PROVE  IInv'
    BY <1>2, <1>3, PasoTomar DEF Aplicar, Cancelar
<1>4. CASE Next
    BY <1>3, <1>4, PasoLeer, PasoReservar, PasoProbar, PasoGuardia, PasoAplicar,
       PasoGuion, PasoEntorno, PasoAveria DEF Next
<1>. QED
    BY <1>1, <1>4

-----------------------------------------------------------------------------
(* The second invariant: what the handlers know of the server they change, *)
(* what their keys and lists of commands still have to undo, and where the *)
(* port of the profile is.                                                 *)

\* What undoes a change comes before the server is given back.
guionOrdenado(g) ==
    /\ g[Len(g)] \in {"soltar", "liberar"}
    /\ \A i \in 1..Len(g) :
          /\ g[i] = "restaurar" => i = 1
          /\ g[i] \in {"restaurar", "cerrarNuevo"} =>
                \E j \in 1..Len(g) : i < j /\ g[j] \in {"soltar", "borrar"}
          /\ g[i] \in {"cerrarAnterior", "parar", "borrarRespaldo"} =>
                \E j \in 1..Len(g) : i < j /\ g[j] = "borrar"

borra(h) == "borrar" \in ordenes(h)
probando(h) ==
    \/ tarea[h].paso \in {"clave", "firewall", "config", "prueba", "guardia"}
    \/ "soltar" \in ordenes(h)
decidiendo(h) ==
    \/ tarea[h].paso \in {"claveFinal", "final", "comprobar", "guardar", "cancelar"}
    \/ borra(h)
    \/ /\ "liberar" \in ordenes(h)
       /\ cambio.token = tarea[h].copia.token

\* A handler at work holds a copy of the entry, and before the stage is
\* published its test has no timer.
copiaBien(h) ==
    LET c == tarea[h].copia
    IN  /\ tarea[h].paso = "guion" => guionOrdenado(tarea[h].guion)
        /\ tarea[h].paso = "reservar" => c.nuevo # c.anterior
        /\ probando(h) =>
              cambio = c /\ ~c.probado /\ srv.guardia[c.token] = "sin"
        /\ decidiendo(h) =>
              cambio = [c EXCEPT !.enCurso = TRUE] /\ c.probado

InvCopia == \A h \in Tareas : copiaBien(h)

\* Nothing has fallen: a handler has its link, and the keys of its test that
\* are on the server are needed, or removed by what it still has to do.
clavesBien(h) ==
    LET x == tarea[h]
        t == x.copia.token
    IN  /\ x.paso # "libre" => x.cli
        /\ activa(x) /\ <<t, "final">> \in srv.claves \ olvidadas =>
              \/ x.paso \in {"final", "comprobar", "guardar"}
              \/ "quitarFinal" \in ordenes(h)
        /\ activa(x) /\ <<t, "prueba">> \in srv.claves \ olvidadas =>
              /\ x.paso # "clave"
              /\ x.paso = "guion" =>
                    \/ "quitarClave" \in ordenes(h)
                    \/ /\ cambio.token = t
                       /\ ordenes(h) \cap {"soltar", "borrar"} = {}

InvClaves ==
    /\ \A k \in srv.claves : srv.guardia[k[1]] # "nueva"
    /\ ClavesDeFlujo
    /\ averias = 0 =>
          /\ cambio.probado /\ ~cambio.enCurso => 
                <<cambio.token, "final">> \notin srv.claves \ olvidadas
          /\ \A h \in Tareas : clavesBien(h)

\* sshd listens on the port of the profile.
Bien == perfil \in srv.activo

\* The backup of t has the port of the profile, and no restoration undid it.
respaldada(t) == respalda(t) /\ srv.guardia[t] \in {"sin", "ninguna", "armada"}

\* There is an entry, and nobody is about to delete it.
aMedias == cambio # SinCambio /\ \A h \in Tareas : ~borra(h)

\* The ports of the profile and of the changes at work.
puertosBien(h) ==
    LET c == tarea[h].copia
    IN  /\ tarea[h].paso \in {"comprobar", "guardar"} =>
              srv.cfg = {c.nuevo} /\ srv.activo = {c.nuevo}
        /\ tarea[h].paso = "guardar" => alcanzable(c.nuevo)
        /\ "cerrarNuevo" \in ordenes(h) => c.nuevo # perfil
        /\ "cerrarAnterior" \in ordenes(h) => c.anterior # perfil

PuertosPerfil ==
    /\ perfil \notin bloqueados
    /\ entorno.firewall => perfil \in srv.abiertos
    /\ aMedias => perfil = cambio.anterior /\ cambio.nuevo # perfil

InvPuertos == PuertosPerfil /\ \A h \in Tareas : puertosBien(h)

\* A handler that goes back has the backup for it; one that is about to delete
\* the entry has left sshd with the port, or without a link could not.
normalBien(h) ==
    /\ tarea[h].paso \in {"prueba", "guardia"} \/ "restaurar" \in ordenes(h)
          => respaldada(tarea[h].copia.token)
    /\ borra(h) /\ "restaurar" \notin ordenes(h) =>
          Bien \/ (~tarea[h].cli /\ respaldada(tarea[h].copia.token))

\* sshd has the port of the profile, or the stage has what brings it back.
Normal ==
    /\ Bien \/ (cambio.probado /\ respaldada(cambio.token))
    /\ aMedias /\ cambio.probado => respaldada(cambio.token)
    /\ \A h \in Tareas : normalBien(h)

\* A test that something cut short keeps what brings the port back.
Cortado ==
    averias > 0 /\ \E t \in Tokens :
        t # cambio.token /\ respaldada(t) /\ srv.guardia[t] # "sin"

InvPerfil ==
    SinDisparos /\ viejas = {} /\ perdidas = {} => InvPuertos /\ (Cortado \/ Normal)

IInv2 == InvCopia /\ InvClaves /\ InvPerfil

-----------------------------------------------------------------------------
(* Facts about the second invariant.                                       *)

enLista(g) == {g[i] : i \in DOMAIN g}

\* The lists of commands, and what each of them has.
LEMMA Listas ==
    /\ guionOrdenado(<<"soltar">>)
    /\ guionOrdenado(<<"liberar">>)
    /\ guionOrdenado(<<"quitarClave", "soltar">>)
    /\ guionOrdenado(<<"cerrarNuevo", "quitarClave", "soltar">>)
    /\ guionOrdenado(<<"restaurar", "cerrarNuevo", "quitarClave", "soltar">>)
    /\ guionOrdenado(<<"quitarClave", "quitarFinal", "liberar">>)
    /\ guionOrdenado(<<"restaurar", "parar", "quitarClave", "cerrarNuevo",
                       "borrar", "quitarFinal", "liberar">>)
    /\ guionOrdenado(<<"parar", "quitarClave", "borrarRespaldo", "borrar",
                       "quitarFinal", "liberar">>)
    /\ guionOrdenado(<<"cerrarAnterior", "parar", "quitarClave",
                       "borrarRespaldo", "borrar", "quitarFinal", "liberar">>)
    /\ guionOrdenado(<<"restaurar", "cerrarNuevo", "parar", "quitarClave",
                       "borrar", "quitarFinal", "liberar">>)
    /\ guionOrdenado(<<"cerrarNuevo", "parar", "quitarClave", "borrar",
                       "liberar">>)
BY DEF guionOrdenado

LEMMA EnListas ==
    /\ enLista(<<"soltar">>) = {"soltar"}
    /\ enLista(<<"liberar">>) = {"liberar"}
    /\ enLista(<<"quitarClave", "soltar">>) = {"quitarClave", "soltar"}
    /\ enLista(<<"cerrarNuevo", "quitarClave", "soltar">>)
          = {"cerrarNuevo", "quitarClave", "soltar"}
    /\ enLista(<<"restaurar", "cerrarNuevo", "quitarClave", "soltar">>)
          = {"restaurar", "cerrarNuevo", "quitarClave", "soltar"}
    /\ enLista(<<"quitarClave", "quitarFinal", "liberar">>)
          = {"quitarClave", "quitarFinal", "liberar"}
    /\ enLista(<<"restaurar", "parar", "quitarClave", "cerrarNuevo",
                 "borrar", "quitarFinal", "liberar">>)
          = {"restaurar", "parar", "quitarClave", "cerrarNuevo",
             "borrar", "quitarFinal", "liberar"}
    /\ enLista(<<"parar", "quitarClave", "borrarRespaldo", "borrar",
                 "quitarFinal", "liberar">>)
          = {"parar", "quitarClave", "borrarRespaldo", "borrar",
             "quitarFinal", "liberar"}
    /\ enLista(<<"cerrarAnterior", "parar", "quitarClave",
                 "borrarRespaldo", "borrar", "quitarFinal", "liberar">>)
          = {"cerrarAnterior", "parar", "quitarClave",
             "borrarRespaldo", "borrar", "quitarFinal", "liberar"}
    /\ enLista(<<"restaurar", "cerrarNuevo", "parar", "quitarClave",
                 "borrar", "quitarFinal", "liberar">>)
          = {"restaurar", "cerrarNuevo", "parar", "quitarClave",
             "borrar", "quitarFinal", "liberar"}
    /\ enLista(<<"cerrarNuevo", "parar", "quitarClave", "borrar", "liberar">>)
          = {"cerrarNuevo", "parar", "quitarClave", "borrar", "liberar"}
BY DEF enLista

\* The rest of an ordered list is one.
LEMMA RestoOrdenado ==
    ASSUME NEW g \in Seq(Ordenes), guionValido(g), guionOrdenado(g), Len(g) # 1
    PROVE  /\ guionOrdenado(Tail(g))
           /\ enLista(g) = {Head(g)} \cup enLista(Tail(g))
           /\ "restaurar" \notin enLista(Tail(g))
<1> DEFINE r == Tail(g)
<1>1. /\ r \in Seq(Ordenes)
      /\ \A i \in 1..Len(r) : i + 1 \in 1..Len(g) /\ r[i] = g[i + 1]
    BY Resto
<1>2. Len(g) \in Nat /\ Len(g) > 1 /\ g # <<>>
  <2>1. g # <<>>
      BY DEF guionValido
  <2>2. Len(g) \in Nat \ {0}
      BY <2>1, EmptySeq
  <2>. QED
      BY <2>1, <2>2
<1>3. Len(r) = Len(g) - 1 /\ Head(g) = g[1]
    BY <1>2
<1>4. DOMAIN g = 1..Len(g) /\ DOMAIN r = 1..Len(r)
    BY <1>1, LenProperties
<1> HIDE DEF r
<1>5. \A j \in 1..Len(g) : j # 1 => j - 1 \in 1..Len(r) /\ r[j - 1] = g[j]
  <2> SUFFICES ASSUME NEW j \in 1..Len(g), j # 1
               PROVE  j - 1 \in 1..Len(r) /\ r[j - 1] = g[j]
      OBVIOUS
  <2>1. j - 1 \in 1..Len(r)
      BY <1>2, <1>3
  <2>2. r[j - 1] = g[(j - 1) + 1]
      BY <1>1, <2>1
  <2>3. (j - 1) + 1 = j
      OBVIOUS
  <2>. QED
      BY <2>1, <2>2, <2>3
<1>6. enLista(g) = {Head(g)} \cup enLista(r)
  <2>1. ASSUME NEW o \in enLista(g) PROVE o \in {Head(g)} \cup enLista(r)
      BY <1>3, <1>4, <1>5, <2>1 DEF enLista
  <2>2. Head(g) \in enLista(g)
      BY <1>2, <1>3, <1>4 DEF enLista
  <2>3. enLista(r) \subseteq enLista(g)
      BY <1>1, <1>4 DEF enLista
  <2>. QED
      BY <2>1, <2>2, <2>3
<1>7. "restaurar" \notin enLista(r)
  <2> SUFFICES ASSUME NEW i \in 1..Len(r), r[i] = "restaurar" PROVE FALSE
      BY <1>4 DEF enLista
  <2>1. i + 1 = 1
      BY <1>1 DEF guionOrdenado
  <2>. QED
      BY <2>1
<1>8. guionOrdenado(r)
  <2>1. r[Len(r)] = g[Len(g)]
      BY <1>2, <1>3, <1>5
  <2>2. ASSUME NEW i \in 1..Len(r)
        PROVE  /\ r[i] = "restaurar" => i = 1
               /\ r[i] \in {"restaurar", "cerrarNuevo"} =>
                     \E j \in 1..Len(r) : i < j /\ r[j] \in {"soltar", "borrar"}
               /\ r[i] \in {"cerrarAnterior", "parar", "borrarRespaldo"} =>
                     \E j \in 1..Len(r) : i < j /\ r[j] = "borrar"
    <3>1. \A S : (\E j \in 1..Len(g) : i + 1 < j /\ g[j] \in S)
                    => \E j \in 1..Len(r) : i < j /\ r[j] \in S
      <4> SUFFICES ASSUME NEW S, NEW j \in 1..Len(g), i + 1 < j, g[j] \in S
                   PROVE  \E k \in 1..Len(r) : i < k /\ r[k] \in S
          OBVIOUS
      <4>1. j # 1 /\ i < j - 1
          OBVIOUS
      <4>. QED
          BY <1>5, <4>1
    <3>2. i + 1 \in 1..Len(g) /\ r[i] = g[i + 1]
        BY <1>1
    <3>3. r[i] # "restaurar"
        BY <1>4, <1>7 DEF enLista
    <3>4. r[i] \in {"restaurar", "cerrarNuevo"} =>
             \E j \in 1..Len(g) : i + 1 < j /\ g[j] \in {"soltar", "borrar"}
        BY <3>2 DEF guionOrdenado
    <3>5. r[i] \in {"cerrarAnterior", "parar", "borrarRespaldo"} =>
             \E j \in 1..Len(g) : i + 1 < j /\ g[j] \in {"borrar"}
        BY <3>2 DEF guionOrdenado
    <3>6. r[i] \in {"restaurar", "cerrarNuevo"} =>
             \E j \in 1..Len(r) : i < j /\ r[j] \in {"soltar", "borrar"}
        BY <3>1, <3>4
    <3>7. r[i] \in {"cerrarAnterior", "parar", "borrarRespaldo"} =>
             \E j \in 1..Len(r) : i < j /\ r[j] \in {"borrar"}
        BY <3>1, <3>5
    <3>. QED
        BY <3>3, <3>6, <3>7
  <2>. QED
      BY <2>1, <2>2 DEF guionOrdenado
<1>. QED
    BY <1>6, <1>7, <1>8 DEF r

\* Two owners are one.
LEMMA Duenos ==
    ASSUME IInv, NEW h \in Tareas, NEW g \in Tareas, ocupa(h), ocupa(g)
    PROVE  h = g
BY DEF IInv, InvOcupa, InvToken

\* The commands of a handler that does not own the server change nothing that
\* another one looks at.
SinDueno ==
    \A g \in Tareas : ~ocupa(g) =>
        /\ tarea[g].paso \notin Trabajos
        /\ ordenes(g) \cap {"restaurar", "cerrarNuevo", "cerrarAnterior", "parar",
                            "borrarRespaldo", "soltar", "borrar"} = {}
        /\ ~probando(g) /\ ~borra(g) /\ puertosBien(g) /\ normalBien(g)

LEMMA SinOcupar == IInv /\ InvCopia => SinDueno
<1> SUFFICES ASSUME IInv, InvCopia, NEW g \in Tareas, ~ocupa(g)
             PROVE  /\ tarea[g].paso \notin Trabajos
                    /\ ordenes(g) \cap {"restaurar", "cerrarNuevo", "cerrarAnterior",
                                        "parar", "borrarRespaldo", "soltar", "borrar"} = {}
                    /\ ~probando(g) /\ ~borra(g) /\ puertosBien(g) /\ normalBien(g)
    BY DEF SinDueno
<1>1. tarea[g].paso \in {"libre", "reservar", "guion"}
      /\ ordenes(g) \cap {"soltar", "borrar"} = {}
    BY DEF ocupa
<1>2. ordenes(g) \cap {"restaurar", "cerrarNuevo", "cerrarAnterior", "parar",
                       "borrarRespaldo"} = {}
  <2>1. CASE tarea[g].paso = "guion"
    <3>1. guionOrdenado(tarea[g].guion) /\ DOMAIN tarea[g].guion = 1..Len(tarea[g].guion)
        BY <2>1, LenProperties DEF InvCopia, copiaBien, IInv, TypeOK
    <3>. QED
        BY <1>1, <3>1 DEF guionOrdenado, ordenes
  <2>2. CASE tarea[g].paso # "guion"
      BY <2>2 DEF IInv, InvForma, forma, ordenes
  <2>. QED
      BY <2>1, <2>2
<1>. QED
    BY <1>1, <1>2 DEF Trabajos, probando, borra, puertosBien, normalBien

LEMMA SinOcuparPrima == IInv' /\ InvCopia' => SinDueno'
BY SinOcupar, PTL

\* The owner at work, and the entry.
LEMMA Dueno ==
    ASSUME IInv, IInv2, NEW h \in Tareas, tarea[h].paso \in Trabajos
    PROVE  /\ ocupa(h) /\ activa(tarea[h]) /\ ordenes(h) = {} /\ tarea[h].guion = <<>>
           /\ cambio \in Cambio \ {SinCambio} /\ tarea[h].copia.token \in Tokens
           /\ cambio.token = tarea[h].copia.token
           /\ cambio.anterior = tarea[h].copia.anterior
           /\ cambio.nuevo = tarea[h].copia.nuevo
           /\ \A g \in Tareas : g # h => ~ocupa(g)
           /\ aMedias
           /\ probando(h) => ~cambio.probado
           /\ decidiendo(h) => cambio.probado
<1>1. ocupa(h) /\ activa(tarea[h]) /\ ordenes(h) = {} /\ tarea[h].guion = <<>>
    BY DEF IInv, InvForma, forma, ordenes, ocupa, activa, Trabajos
<1>2. tarea[h].copia.token \in Tokens /\ cambio.token = tarea[h].copia.token
    BY <1>1, CopiaActiva DEF IInv, InvOcupa
<1>3. cambio \in Cambio /\ cambio # SinCambio
    BY <1>2, NingunoAssumption DEF IInv, TypeOK, SinCambio
<1>4. probando(h) \/ decidiendo(h)
    BY DEF Trabajos, probando, decidiendo
<1>5. copiaBien(h)
    BY DEF IInv2, InvCopia
<1>6. tarea[h].copia \in Cambio
    BY <1>1, CopiaActiva
<1>7. /\ cambio.anterior = tarea[h].copia.anterior
      /\ cambio.nuevo = tarea[h].copia.nuevo
      /\ probando(h) => ~cambio.probado
      /\ decidiendo(h) => cambio.probado
  <2>1. CASE probando(h)
    <3>1. cambio = tarea[h].copia /\ ~cambio.probado
        BY <1>5, <2>1 DEF copiaBien
    <3>2. ~decidiendo(h) \/ tarea[h].copia.probado
        BY <1>5 DEF copiaBien
    <3>. QED
        BY <3>1, <3>2
  <2>2. CASE decidiendo(h)
    <3>1. cambio = [tarea[h].copia EXCEPT !.enCurso = TRUE] /\ tarea[h].copia.probado
        BY <1>5, <2>2 DEF copiaBien
    <3>2. /\ cambio.anterior = tarea[h].copia.anterior
          /\ cambio.nuevo = tarea[h].copia.nuevo
          /\ cambio.probado = tarea[h].copia.probado
        BY <1>6, <3>1 DEF Cambio, SinCambio
    <3>3. ~probando(h) \/ ~tarea[h].copia.probado
        BY <1>5 DEF copiaBien
    <3>. QED
        BY <3>1, <3>2, <3>3
  <2>. QED
      BY <1>4, <2>1, <2>2
<1>8. \A g \in Tareas : g # h => ~ocupa(g)
    BY <1>1, Duenos
<1>9. aMedias
    BY <1>1, <1>3, <1>8 DEF aMedias, borra, ocupa
<1>. QED
    BY <1>1, <1>2, <1>3, <1>7, <1>8, <1>9

-----------------------------------------------------------------------------
(* The steps at which the owner works.                                     *)

\* The keys of other tests than t, and their backups, stay as they are.
soloDe(s, t) ==
    /\ s.guardia = srv.guardia
    /\ \A u \in Tokens : u # t => s.respaldo[u] = srv.respaldo[u]
    /\ \A k \in Tokens \X Clases : k[1] # t => (k \in s.claves <=> k \in srv.claves)

\* h becomes x: it is still the owner, or leaves a list of commands to do.
avanza(h, x) ==
    /\ tarea[h].paso \in Trabajos
    /\ tarea' = [tarea EXCEPT ![h] = x]
    /\ x.copia = tarea[h].copia /\ x.cli = tarea[h].cli
    /\ x.paso \in Trabajos \cup {"guion"}
    /\ x.paso = "guion" => guionOrdenado(x.guion)
    /\ UNCHANGED <<externo, cambio, enlace, averias, viejas, olvidadas>>
    /\ perdidas \subseteq perdidas'
    /\ soloDe(srv', tarea[h].copia.token)

\* What the other handlers know is not disturbed.
LEMMA Avance ==
    ASSUME IInv, IInv', IInv2, NEW h \in Tareas, NEW x, avanza(h, x),
           probando(h)' => probando(h), decidiendo(h)' => decidiendo(h),
           averias = 0 => clavesBien(h)'
    PROVE  /\ InvCopia' /\ InvClaves'
           /\ tarea'[h] = x /\ ordenes(h)' = enLista(x.guion)
           /\ x.paso # "guion" => ordenes(h)' = {}
           /\ \A g \in Tareas : g # h => ~borra(g)' /\ puertosBien(g)' /\ normalBien(g)'
<1> DEFINE t == tarea[h].copia.token
<1>1. /\ ocupa(h) /\ activa(tarea[h]) /\ t \in Tokens /\ cambio.token = t
      /\ \A g \in Tareas : g # h => ~ocupa(g)
    BY Dueno DEF avanza
<1>2. /\ \A g \in Tareas : tarea'[g] = IF g = h THEN x ELSE tarea[g]
      /\ x.copia = tarea[h].copia /\ x.cli = tarea[h].cli
      /\ UNCHANGED <<cambio, averias, olvidadas>>
      /\ x.paso \in Trabajos \cup {"guion"}
      /\ x.paso = "guion" => guionOrdenado(x.guion)
      /\ soloDe(srv', t)
    BY DEF avanza, IInv, TypeOK
<1>3. \A g \in Tareas : g # h => tarea'[g] = tarea[g] /\ ordenes(g)' = ordenes(g)
    BY <1>2 DEF ordenes
<1>4. \A g \in Tareas : g # h => ~ocupa(g)'
    BY <1>1, <1>3 DEF ocupa
<1>5. ordenes(h)' = enLista(x.guion)
    BY <1>2 DEF ordenes, enLista
<1>6. x.paso # "guion" => ordenes(h)' = {}
  <2>1. x.paso # "guion" => x.guion = <<>>
      BY <1>2 DEF IInv, InvForma, forma
  <2>. QED
      BY <1>2, <2>1 DEF ordenes
<1>7. InvCopia'
  <2> SUFFICES ASSUME NEW g \in Tareas PROVE copiaBien(g)'
      BY DEF InvCopia
  <2>1. CASE g # h
    <3>1. copiaBien(g)
        BY DEF IInv2, InvCopia
    <3>2. /\ probando(g)' <=> probando(g)
          /\ decidiendo(g)' <=> decidiendo(g)
        BY <1>2, <1>3, <2>1 DEF probando, decidiendo, borra
    <3>. QED
        BY <1>2, <1>3, <2>1, <3>1, <3>2 DEF copiaBien, soloDe
  <2>2. CASE g = h
    <3>1. copiaBien(h)
        BY DEF IInv2, InvCopia
    <3>2. x.paso # "reservar"
        BY <1>2 DEF Trabajos
    <3>. QED
        BY <1>2, <2>2, <3>1, <3>2 DEF copiaBien, soloDe
  <2>. QED
      BY <2>1, <2>2
<1>8. InvClaves'
  <2>1. srv'.claves \subseteq Tokens \X Clases /\ srv.claves \subseteq Tokens \X Clases
      BY DEF IInv, TypeOK, Servidor
  <2>2. ASSUME NEW k \in srv'.claves
        PROVE  srv'.guardia[k[1]] # "nueva"
    <3>1. CASE k[1] = t
        BY <1>1, <1>2, <3>1 DEF IInv, InvToken, soloDe
    <3>2. CASE k[1] # t
        BY <1>2, <2>1, <2>2, <3>2 DEF IInv2, InvClaves, soloDe
    <3>. QED
        BY <3>1, <3>2
  <2>3. ASSUME averias = 0, NEW k \in srv'.claves \ olvidadas'
        PROVE  \/ cambio'.token = k[1]
               \/ \E g \in Tareas : /\ tarea'[g].paso # "libre"
                                    /\ tarea'[g].copia.token = k[1]
    <3>1. CASE k[1] = t
        BY <1>1, <1>2, <3>1
    <3>2. CASE k[1] # t
      <4>1. k \in srv.claves \ olvidadas
          BY <1>2, <2>1, <2>3, <3>2 DEF soloDe
      <4>2. PICK g \in Tareas : tarea[g].paso # "libre" /\ tarea[g].copia.token = k[1]
          BY <1>1, <2>3, <3>2, <4>1 DEF IInv2, InvClaves, ClavesDeFlujo
      <4>. QED
          BY <1>3, <3>2, <4>2
    <3>. QED
        BY <3>1, <3>2
  <2>4. ~(cambio'.probado /\ ~cambio'.enCurso)
    <3>1. activa(tarea[h])' /\ tarea'[h].copia.token = cambio'.token
        BY <1>1, <1>2 DEF activa, Trabajos
    <3>. QED
        BY <3>1 DEF IInv, InvEspera
  <2>5. ASSUME averias = 0, NEW g \in Tareas
        PROVE  clavesBien(g)'
    <3>1. CASE g = h
        BY <2>5, <3>1
    <3>2. CASE g # h
      <4>1. clavesBien(g)
          BY <2>5 DEF IInv2, InvClaves
      <4>2. activa(tarea[g]) => tarea[g].copia.token \in Tokens \ {t}
          BY <1>1, <3>2 DEF IInv, InvToken, InvForma, forma
      <4>3. activa(tarea[g]) => \A cl \in Clases :
               <<tarea[g].copia.token, cl>> \in srv'.claves
                  => <<tarea[g].copia.token, cl>> \in srv.claves
          BY <1>2, <4>2 DEF soloDe
      <4>. QED
          BY <1>2, <1>3, <3>2, <4>1, <4>3 DEF clavesBien, Clases
    <3>. QED
        BY <3>1, <3>2
  <2>. QED
      BY <1>2, <2>2, <2>3, <2>4, <2>5 DEF InvClaves, ClavesDeFlujo
<1>9. \A g \in Tareas : g # h => ~borra(g)' /\ puertosBien(g)' /\ normalBien(g)'
    BY <1>4, <1>7, SinOcuparPrima DEF SinDueno
<1>. QED
    BY <1>2, <1>5, <1>6, <1>7, <1>8, <1>9

\* Where the port of the profile is after a step of the owner that does not
\* change the profile.
LEMMA AvancePerfil ==
    ASSUME IInv, IInv', IInv2, NEW h \in Tareas, NEW x, avanza(h, x),
           \A g \in Tareas : g # h => ~borra(g)' /\ puertosBien(g)' /\ normalBien(g)',
           perfil' = perfil,
           perfil \in srv.abiertos => perfil \in srv'.abiertos,
           SinDisparos /\ viejas = {} /\ perdidas' = {} /\ perfil = tarea[h].copia.anterior
                       /\ tarea[h].copia.nuevo # perfil /\ InvPuertos
              => /\ puertosBien(h)'
                 /\ Normal => /\ Bien' \/ (cambio.probado /\ respaldada(tarea[h].copia.token)')
                              /\ cambio.probado /\ ~borra(h)'
                                    => respaldada(tarea[h].copia.token)'
                              /\ normalBien(h)'
    PROVE  InvPerfil'
<1> DEFINE t == tarea[h].copia.token
<1> SUFFICES ASSUME SinDisparos', viejas' = {}, perdidas' = {}
             PROVE  InvPuertos' /\ (Cortado' \/ Normal')
    BY DEF InvPerfil
<1>1. /\ UNCHANGED <<entorno, bloqueados, cambio, averias, viejas, olvidadas>>
      /\ perdidas \subseteq perdidas'
      /\ soloDe(srv', t) /\ x.copia = tarea[h].copia /\ tarea'[h] = x
      /\ tarea[h].paso \in Trabajos
    BY DEF avanza, externo, IInv, TypeOK
<1>2. SinDisparos /\ viejas = {} /\ perdidas = {}
    BY <1>1 DEF SinDisparos, soloDe
<1>3. /\ cambio.token = t /\ t \in Tokens /\ aMedias
      /\ cambio.anterior = tarea[h].copia.anterior /\ cambio.nuevo = tarea[h].copia.nuevo
    BY <1>1, Dueno
<1>4. InvPuertos /\ (Cortado \/ Normal)
    BY <1>2 DEF IInv2, InvPerfil
<1>5. perfil = tarea[h].copia.anterior /\ tarea[h].copia.nuevo # perfil
    BY <1>3, <1>4 DEF InvPuertos, PuertosPerfil
<1>6. puertosBien(h)'
    BY <1>2, <1>4, <1>5
<1>7. PuertosPerfil'
    BY <1>1, <1>3, <1>4, <1>5 DEF InvPuertos, PuertosPerfil
<1>8. InvPuertos'
    BY <1>6, <1>7 DEF InvPuertos
<1>9. CASE Cortado
  <2>1. PICK u \in Tokens :
           u # cambio.token /\ respaldada(u) /\ srv.guardia[u] # "sin" /\ averias > 0
      BY <1>9 DEF Cortado
  <2>2. respaldada(u)' /\ srv'.guardia[u] # "sin"
      BY <1>1, <1>3, <2>1 DEF respaldada, respalda, soloDe
  <2>3. u # cambio'.token /\ averias' > 0
      BY <1>1, <2>1
  <2>. QED
      BY <1>8, <2>2, <2>3 DEF Cortado
<1>10. CASE Normal
  <2>1. /\ Bien' \/ (cambio.probado /\ respaldada(t)')
        /\ cambio.probado /\ ~borra(h)' => respaldada(t)'
        /\ normalBien(h)'
      BY <1>2, <1>4, <1>5, <1>10
  <2>2. respaldada(t)' <=> respaldada(cambio.token)'
      BY <1>1, <1>3 DEF respaldada, respalda
  <2>3. aMedias' => ~borra(h)'
      BY DEF aMedias
  <2>4. \A g \in Tareas : normalBien(g)'
      BY <2>1
  <2>. QED
      BY <1>1, <1>8, <2>1, <2>2, <2>3, <2>4 DEF Normal
<1>. QED
    BY <1>4, <1>9, <1>10

\* Both together: a step of the owner that does not change the profile.
LEMMA AvanceEntero ==
    ASSUME IInv, IInv', IInv2, NEW h \in Tareas, avanza(h, tarea'[h]),
           probando(h)' => probando(h), decidiendo(h)' => decidiendo(h),
           averias = 0 => clavesBien(h)',
           perfil' = perfil,
           perfil \in srv.abiertos => perfil \in srv'.abiertos,
           SinDisparos /\ viejas = {} /\ perdidas' = {} /\ perfil = tarea[h].copia.anterior
                       /\ tarea[h].copia.nuevo # perfil /\ InvPuertos
              => /\ puertosBien(h)'
                 /\ Normal => /\ Bien' \/ (cambio.probado /\ respaldada(tarea[h].copia.token)')
                              /\ cambio.probado /\ ~borra(h)'
                                    => respaldada(tarea[h].copia.token)'
                              /\ normalBien(h)'
    PROVE  IInv2'
<1>1. /\ InvCopia' /\ InvClaves'
      /\ \A g \in Tareas : g # h => ~borra(g)' /\ puertosBien(g)' /\ normalBien(g)'
    BY Avance
<1>2. InvPerfil'
    BY <1>1, AvancePerfil
<1>. QED
    BY <1>1, <1>2 DEF IInv2

\* Where h goes: to another step, or to a list of commands.
LEMMA Mover ==
    ASSUME IInv, IInv', IInv2, NEW h \in Tareas, tarea[h].paso \in Trabajos,
           NEW p \in Trabajos, pasar(h, p), soloDe(srv', tarea[h].copia.token),
           UNCHANGED <<externo, cambio, enlace, averias, viejas, olvidadas>>,
           perdidas \subseteq perdidas'
    PROVE  /\ avanza(h, tarea'[h]) /\ tarea'[h].paso = p
           /\ tarea'[h].copia = tarea[h].copia /\ tarea'[h].cli = tarea[h].cli
           /\ ordenes(h)' = {}
<1>1. tarea[h] \in Tarea /\ tarea[h].guion = <<>>
    BY Dueno DEF IInv, TypeOK, Tarea
<1>2. tarea'[h] = [tarea[h] EXCEPT !.paso = p]
      /\ tarea' = [tarea EXCEPT ![h] = tarea'[h]]
    BY DEF pasar, IInv, TypeOK
<1>3. /\ tarea'[h].paso = p /\ tarea'[h].guion = <<>>
      /\ tarea'[h].copia = tarea[h].copia /\ tarea'[h].cli = tarea[h].cli
    BY <1>1, <1>2 DEF Tarea
<1>4. ordenes(h)' = {}
    BY <1>3 DEF ordenes
<1>5. p # "guion"
    BY DEF Trabajos
<1>. QED
    BY <1>2, <1>3, <1>4, <1>5 DEF avanza

LEMMA Listar ==
    ASSUME IInv, IInv', IInv2, NEW h \in Tareas, tarea[h].paso \in Trabajos,
           NEW g, guionOrdenado(g), terminar(h, g), soloDe(srv', tarea[h].copia.token),
           UNCHANGED <<externo, cambio, enlace, averias, viejas, olvidadas>>,
           perdidas \subseteq perdidas'
    PROVE  /\ avanza(h, tarea'[h]) /\ tarea'[h].paso = "guion"
           /\ tarea'[h].copia = tarea[h].copia /\ tarea'[h].cli = tarea[h].cli
           /\ ordenes(h)' = enLista(g)
<1>1. tarea[h] \in Tarea
    BY DEF IInv, TypeOK, Tarea
<1>2. tarea'[h] = [tarea[h] EXCEPT !.paso = "guion", !.guion = g]
      /\ tarea' = [tarea EXCEPT ![h] = tarea'[h]]
    BY DEF terminar, IInv, TypeOK
<1>3. /\ tarea'[h].paso = "guion" /\ tarea'[h].guion = g
      /\ tarea'[h].copia = tarea[h].copia /\ tarea'[h].cli = tarea[h].cli
    BY <1>1, <1>2 DEF Tarea
<1>4. ordenes(h)' = enLista(g)
    BY <1>3 DEF ordenes, enLista
<1>. QED
    BY <1>2, <1>3, <1>4 DEF avanza

\* What the writes of the checked commands are.
LEMMA Solos ==
    ASSUME IInv, NEW t \in Tokens, NEW P, NEW p, NEW cl
    PROVE  /\ soloDe(srv, t)
           /\ soloDe([srv EXCEPT !.claves = @ \cup {<<t, cl>>}], t)
           /\ soloDe([srv EXCEPT !.abiertos = @ \cup {p}], t)
           /\ soloDe(configurar(srv, P), t)
           /\ soloDe(respaldar(srv, t), t)
           /\ soloDe(configurar(respaldar(srv, t), P), t)
           /\ \A r \in cortes(srv, P) \cup cortes(respaldar(srv, t), P) : soloDe(r, t)
           /\ \A r \in {restaurar(srv, t)} \cup restaurarFalla(srv, t) : soloDe(r, t)
<1> USE DEF soloDe, Servidor
<1>1. srv \in Servidor
    BY DEF IInv, TypeOK
<1>2. soloDe(srv, t)
    OBVIOUS
<1>3. soloDe([srv EXCEPT !.claves = @ \cup {<<t, cl>>}], t)
    BY <1>1
<1>4. soloDe([srv EXCEPT !.abiertos = @ \cup {p}], t)
    BY <1>1
<1>5. soloDe(configurar(srv, P), t)
    BY <1>1 DEF configurar
<1>6. soloDe(respaldar(srv, t), t)
    BY <1>1 DEF respaldar
<1>7. soloDe(configurar(respaldar(srv, t), P), t)
    BY <1>1 DEF configurar, respaldar
<1>8. \A r \in cortes(srv, P) : soloDe(r, t)
    BY <1>1 DEF cortes, escribir
<1>9. \A r \in cortes(respaldar(srv, t), P) : soloDe(r, t)
    BY <1>1 DEF cortes, escribir, respaldar
<1> HIDE DEF soloDe, Servidor
<1>10. \A r \in {restaurar(srv, t)} \cup restaurarFalla(srv, t) : soloDe(r, t)
    BY <1>1, Restauraciones DEF soloDe
<1>. QED
    BY <1>2, <1>3, <1>4, <1>5, <1>6, <1>7, <1>8, <1>9, <1>10

\* A step that puts or removes keys and opens ports moves no port of sshd.
LEMMA MismoSshd ==
    ASSUME perfil' = perfil, srv'.cfg = srv.cfg, srv'.activo = srv.activo,
           srv'.respaldo = srv.respaldo, srv'.guardia = srv.guardia
    PROVE  /\ Bien' <=> Bien
           /\ \A t \in Tokens : respaldada(t)' <=> respaldada(t)
BY DEF Bien, respaldada, respalda

\* ProbarClave and ProbarFirewall.
LEMMA AvanceClave ==
    ASSUME IInv, IInv', IInv2, NEW h \in Tareas, ProbarClave(h)
    PROVE  IInv2'
<1> DEFINE t == tarea[h].copia.token
<1>1. /\ tarea[h].paso = "clave" /\ tarea[h].paso \in Trabajos
      /\ orden(h, [srv EXCEPT !.claves = @ \cup {<<t, "prueba">>}], {srv},
               "firewall", <<"soltar">>)
      /\ perfil' = perfil
      /\ UNCHANGED <<externo, cambio, enlace, averias, viejas, olvidadas>>
      /\ perdidas \subseteq perdidas'
    BY DEF ProbarClave, Trabajos
<1>2. t \in Tokens /\ ordenes(h) = {} /\ activa(tarea[h]) /\ srv \in Servidor
      /\ probando(h) /\ ~cambio.probado
    BY <1>1, Dueno DEF IInv, TypeOK, probando
<1>3. averias = 0 => /\ tarea[h].cli
                     /\ <<t, "prueba">> \notin srv.claves \ olvidadas
                     /\ <<t, "final">> \notin srv.claves \ olvidadas
    BY <1>1, <1>2 DEF IInv2, InvClaves, clavesBien
<1>4. soloDe(srv', t)
    BY <1>1, <1>2, Solos DEF orden
<1>5. /\ srv'.cfg = srv.cfg /\ srv'.activo = srv.activo /\ srv'.abiertos = srv.abiertos
      /\ srv'.respaldo = srv.respaldo /\ srv'.guardia = srv.guardia
    BY <1>1, <1>2 DEF orden, Servidor
<1>6. Bien' <=> Bien
    BY <1>1, <1>5, MismoSshd
<1>7. CASE tarea[h].cli /\ srv' = [srv EXCEPT !.claves = @ \cup {<<t, "prueba">>}]
                        /\ pasar(h, "firewall")
  <2>1. "firewall" \in Trabajos
      BY DEF Trabajos
  <2>2. /\ avanza(h, tarea'[h]) /\ tarea'[h].paso = "firewall"
        /\ tarea'[h].copia = tarea[h].copia /\ tarea'[h].cli = tarea[h].cli
        /\ ordenes(h)' = {}
      BY <1>1, <1>4, <1>7, <2>1, Mover
  <2>3. averias = 0 => clavesBien(h)'
      BY <1>1, <1>2, <1>3, <1>7, <2>2 DEF clavesBien, Servidor
  <2>4. puertosBien(h)' /\ normalBien(h)' /\ ~decidiendo(h)'
      BY <2>2 DEF puertosBien, normalBien, decidiendo, borra
  <2>. QED
      BY <1>1, <1>2, <1>5, <1>6, <2>2, <2>3, <2>4, AvanceEntero DEF Normal
<1>8. CASE srv' = srv /\ terminar(h, <<"soltar">>)
  <2>1. /\ avanza(h, tarea'[h]) /\ tarea'[h].paso = "guion"
        /\ tarea'[h].copia = tarea[h].copia /\ tarea'[h].cli = tarea[h].cli
        /\ ordenes(h)' = {"soltar"}
      BY <1>1, <1>4, <1>8, Listar, Listas, EnListas
  <2>2. averias = 0 => clavesBien(h)'
      BY <1>1, <1>3, <1>8, <2>1 DEF clavesBien
  <2>3. puertosBien(h)' /\ normalBien(h)' /\ ~decidiendo(h)'
      BY <2>1 DEF puertosBien, normalBien, decidiendo, borra
  <2>. QED
      BY <1>1, <1>2, <1>5, <1>6, <2>1, <2>2, <2>3, AvanceEntero DEF Normal
<1>. QED
    BY <1>1, <1>7, <1>8 DEF orden

LEMMA AvanceFirewall ==
    ASSUME IInv, IInv', IInv2, NEW h \in Tareas, ProbarFirewall(h)
    PROVE  IInv2'
<1> DEFINE t == tarea[h].copia.token
           s == [srv EXCEPT !.abiertos = @ \cup {tarea[h].copia.nuevo}]
<1>1. /\ tarea[h].paso = "firewall" /\ tarea[h].paso \in Trabajos
      /\ orden(h, s, {srv, s}, "config", <<"quitarClave", "soltar">>)
      /\ perfil' = perfil
      /\ UNCHANGED <<externo, cambio, enlace, averias, viejas, olvidadas>>
      /\ perdidas \subseteq perdidas'
    BY DEF ProbarFirewall, Trabajos
<1>2. t \in Tokens /\ ordenes(h) = {} /\ activa(tarea[h]) /\ srv \in Servidor
      /\ probando(h) /\ ~cambio.probado
    BY <1>1, Dueno DEF IInv, TypeOK, probando
<1>3. averias = 0 => tarea[h].cli /\ <<t, "final">> \notin srv.claves \ olvidadas
    BY <1>1, <1>2 DEF IInv2, InvClaves, clavesBien
<1>4. soloDe(srv', t)
    BY <1>1, <1>2, Solos DEF orden
<1>5. /\ srv'.cfg = srv.cfg /\ srv'.activo = srv.activo /\ srv.abiertos \subseteq srv'.abiertos
      /\ srv'.respaldo = srv.respaldo /\ srv'.guardia = srv.guardia
      /\ srv'.claves = srv.claves
    BY <1>1, <1>2 DEF orden, Servidor
<1>6. Bien' <=> Bien
    BY <1>1, <1>5, MismoSshd
<1>7. CASE pasar(h, "config")
  <2>1. "config" \in Trabajos
      BY DEF Trabajos
  <2>2. /\ avanza(h, tarea'[h]) /\ tarea'[h].paso = "config"
        /\ tarea'[h].copia = tarea[h].copia /\ tarea'[h].cli = tarea[h].cli
        /\ ordenes(h)' = {}
      BY <1>1, <1>4, <1>7, <2>1, Mover
  <2>3. averias = 0 => clavesBien(h)'
      BY <1>1, <1>3, <1>5, <2>2 DEF clavesBien
  <2>4. puertosBien(h)' /\ normalBien(h)' /\ ~decidiendo(h)'
      BY <2>2 DEF puertosBien, normalBien, decidiendo, borra
  <2>. QED
      BY <1>1, <1>2, <1>5, <1>6, <2>2, <2>3, <2>4, AvanceEntero DEF Normal
<1>8. CASE terminar(h, <<"quitarClave", "soltar">>)
  <2>1. /\ avanza(h, tarea'[h]) /\ tarea'[h].paso = "guion"
        /\ tarea'[h].copia = tarea[h].copia /\ tarea'[h].cli = tarea[h].cli
        /\ ordenes(h)' = {"quitarClave", "soltar"}
      BY <1>1, <1>4, <1>8, Listar, Listas, EnListas
  <2>2. averias = 0 => clavesBien(h)'
      BY <1>1, <1>3, <1>5, <2>1 DEF clavesBien
  <2>3. puertosBien(h)' /\ normalBien(h)' /\ ~decidiendo(h)'
      BY <2>1 DEF puertosBien, normalBien, decidiendo, borra
  <2>. QED
      BY <1>1, <1>2, <1>5, <1>6, <2>1, <2>2, <2>3, AvanceEntero DEF Normal
<1>. QED
    BY <1>1, <1>7, <1>8 DEF orden

\* The backup is made before the file is written: it has the profile's port.
LEMMA AvanceConfig ==
    ASSUME IInv, IInv', IInv2, NEW h \in Tareas, ProbarConfig(h)
    PROVE  IInv2'
<1> DEFINE c == tarea[h].copia
           t == c.token
           P == {c.anterior, c.nuevo}
           s == respaldar(srv, t)
<1>1. /\ tarea[h].paso = "config" /\ tarea[h].paso \in Trabajos
      /\ orden(h, configurar(s, P), {srv, s, configurar(s, P)} \cup cortes(s, P), "prueba",
               <<"cerrarNuevo", "quitarClave", "soltar">>)
      /\ perdidas' = IF srv'.respaldo[t] = srv.cfg /\ c.anterior \notin srv.cfg
                     THEN perdidas \cup {t} ELSE perdidas
      /\ perfil' = perfil
      /\ UNCHANGED <<externo, cambio, enlace, averias, viejas, olvidadas>>
      /\ perdidas \subseteq perdidas'
    BY DEF ProbarConfig, Trabajos
<1>2. t \in Tokens /\ ordenes(h) = {} /\ activa(tarea[h]) /\ srv \in Servidor
      /\ probando(h) /\ ~cambio.probado
    BY <1>1, Dueno DEF IInv, TypeOK, probando
<1>3. averias = 0 => tarea[h].cli /\ <<t, "final">> \notin srv.claves \ olvidadas
    BY <1>1, <1>2 DEF IInv2, InvClaves, clavesBien
<1>4. srv.guardia[t] = "sin"
    BY <1>2 DEF IInv2, InvCopia, copiaBien
<1>10. srv' \in {srv, s, configurar(s, P)} \cup cortes(s, P)
    BY <1>1 DEF orden
<1>5. soloDe(srv', t)
    BY <1>2, <1>10, Solos
<1>6. /\ srv'.abiertos = srv.abiertos /\ srv'.guardia = srv.guardia
      /\ srv'.claves = srv.claves /\ srv'.activo \in {srv.activo, P}
  <2>1. /\ s \in Servidor /\ s.abiertos = srv.abiertos /\ s.guardia = srv.guardia
        /\ s.claves = srv.claves /\ s.activo = srv.activo
      BY <1>2 DEF Servidor, respaldar
  <2>2. CASE srv' \in cortes(s, P)
    <3>1. P \in SUBSET Puertos
        BY <1>2, CopiaActiva
    <3> HIDE DEF s, P
    <3>. QED
        BY <2>1, <2>2, <3>1, Cortes
  <2>3. CASE srv' = configurar(s, P)
      BY <2>1, <2>3 DEF configurar, Servidor
  <2>. QED
      BY <1>10, <2>1, <2>2, <2>3
<1>7. perfil = c.anterior /\ Normal => Bien'
    BY <1>1, <1>2, <1>6 DEF Normal, Bien
<1>8. CASE srv' = configurar(s, P) /\ pasar(h, "prueba")
  <2>1. "prueba" \in Trabajos
      BY DEF Trabajos
  <2>2. /\ avanza(h, tarea'[h]) /\ tarea'[h].paso = "prueba"
        /\ tarea'[h].copia = c /\ tarea'[h].cli = tarea[h].cli
        /\ ordenes(h)' = {}
      BY <1>1, <1>5, <1>8, <2>1, Mover
  <2>3. averias = 0 => clavesBien(h)'
      BY <1>1, <1>3, <1>6, <2>2 DEF clavesBien
  <2>4. srv'.respaldo[t] = srv.cfg /\ srv.cfg \in SUBSET Puertos
      BY <1>2, <1>8 DEF configurar, respaldar, Servidor
  <2>5. perfil = c.anterior /\ perdidas' = {} => respaldada(t)'
    <3>1. perfil = c.anterior /\ perdidas' = {} => perfil \in srv.cfg
        BY <1>1, <2>4
    <3>2. tarea'[h].copia.token = t
        BY <2>2
    <3>. QED
        BY <1>1, <1>4, <1>6, <2>4, <3>1, <3>2, NingunoAssumption DEF respaldada, respalda
  <2>6. puertosBien(h)' /\ ~decidiendo(h)' /\ ~borra(h)'
      BY <2>2 DEF puertosBien, decidiendo, borra
  <2>7. perfil = c.anterior /\ perdidas' = {} => normalBien(h)'
      BY <2>5, <2>6 DEF normalBien
  <2>. QED
      BY <1>1, <1>2, <1>6, <1>7, <2>2, <2>3, <2>6, <2>7, AvanceEntero
<1>9. CASE terminar(h, <<"cerrarNuevo", "quitarClave", "soltar">>)
  <2>1. /\ avanza(h, tarea'[h]) /\ tarea'[h].paso = "guion"
        /\ tarea'[h].copia = c /\ tarea'[h].cli = tarea[h].cli
        /\ ordenes(h)' = {"cerrarNuevo", "quitarClave", "soltar"}
      BY <1>1, <1>5, <1>9, Listar, Listas, EnListas
  <2>2. averias = 0 => clavesBien(h)'
      BY <1>1, <1>3, <1>6, <2>1 DEF clavesBien
  <2>3. normalBien(h)' /\ ~decidiendo(h)'
      BY <2>1 DEF normalBien, decidiendo, borra
  <2>4. c.nuevo # perfil => puertosBien(h)'
      BY <1>1, <2>1 DEF puertosBien
  <2>. QED
      BY <1>1, <1>2, <1>6, <1>7, <2>1, <2>2, <2>3, <2>4, AvanceEntero
<1>. QED
    BY <1>1, <1>8, <1>9 DEF orden

LEMMA AvanceConexion ==
    ASSUME IInv, IInv', IInv2, NEW h \in Tareas, ProbarConexion(h)
    PROVE  IInv2'
<1> DEFINE c == tarea[h].copia
           t == c.token
<1>1. /\ tarea[h].paso = "prueba" /\ tarea[h].paso \in Trabajos
      /\ UNCHANGED <<srv, perfil>>
      /\ UNCHANGED <<externo, cambio, enlace, averias, viejas, olvidadas>>
      /\ perdidas \subseteq perdidas'
      /\ \/ pasar(h, "guardia")
         \/ terminar(h, <<"restaurar", "cerrarNuevo", "quitarClave", "soltar">>)
    BY DEF ProbarConexion, Trabajos
<1>2. t \in Tokens /\ ordenes(h) = {} /\ activa(tarea[h])
      /\ probando(h) /\ ~cambio.probado
    BY <1>1, Dueno DEF probando
<1>3. averias = 0 => tarea[h].cli /\ <<t, "final">> \notin srv.claves \ olvidadas
    BY <1>1, <1>2 DEF IInv2, InvClaves, clavesBien
<1>4. soloDe(srv', t)
    BY <1>1, <1>2, Solos
<1>5. Normal => respaldada(t) /\ Bien
    BY <1>1, <1>2 DEF Normal, normalBien
<1>6. (Bien' <=> Bien) /\ \A u \in Tokens : respaldada(u)' <=> respaldada(u)
    BY <1>1, MismoSshd
<1>7. CASE pasar(h, "guardia")
  <2>1. "guardia" \in Trabajos
      BY DEF Trabajos
  <2>2. /\ avanza(h, tarea'[h]) /\ tarea'[h].paso = "guardia"
        /\ tarea'[h].copia = c /\ tarea'[h].cli = tarea[h].cli
        /\ ordenes(h)' = {}
      BY <1>1, <1>4, <1>7, <2>1, Mover
  <2>3. averias = 0 => clavesBien(h)'
      BY <1>1, <1>3, <2>2 DEF clavesBien
  <2>4. puertosBien(h)' /\ ~decidiendo(h)' /\ ~borra(h)'
      BY <2>2 DEF puertosBien, decidiendo, borra
  <2>5. Normal => normalBien(h)'
    <3>1. respaldada(tarea[h].copia.token)' <=> respaldada(t)
        BY <1>1, <1>2, <2>2 DEF respaldada, respalda
    <3>. QED
        BY <1>5, <2>4, <3>1 DEF normalBien
  <2>. QED
      BY <1>1, <1>2, <1>5, <1>6, <2>2, <2>3, <2>4, <2>5, AvanceEntero
<1>8. CASE terminar(h, <<"restaurar", "cerrarNuevo", "quitarClave", "soltar">>)
  <2>1. /\ avanza(h, tarea'[h]) /\ tarea'[h].paso = "guion"
        /\ tarea'[h].copia = c /\ tarea'[h].cli = tarea[h].cli
        /\ ordenes(h)' = {"restaurar", "cerrarNuevo", "quitarClave", "soltar"}
      BY <1>1, <1>4, <1>8, Listar, Listas, EnListas
  <2>2. averias = 0 => clavesBien(h)'
      BY <1>1, <1>3, <2>1 DEF clavesBien
  <2>3. ~decidiendo(h)' /\ ~borra(h)'
      BY <2>1 DEF decidiendo, borra
  <2>4. c.nuevo # perfil => puertosBien(h)'
      BY <1>1, <2>1 DEF puertosBien
  <2>5. Normal => normalBien(h)'
    <3>1. respaldada(tarea[h].copia.token)' <=> respaldada(t)
        BY <1>1, <1>2, <2>1 DEF respaldada, respalda
    <3>. QED
        BY <1>5, <2>3, <3>1 DEF normalBien
  <2>. QED
      BY <1>1, <1>2, <1>5, <1>6, <2>1, <2>2, <2>3, <2>4, <2>5, AvanceEntero
<1>. QED
    BY <1>1, <1>7, <1>8

\* The owner of a stage that passed has what brings the port back.
LEMMA Etapa ==
    ASSUME IInv, IInv2, NEW h \in Tareas,
           tarea[h].paso \in {"claveFinal", "final", "comprobar", "guardar", "cancelar"}
    PROVE  /\ tarea[h].paso \in Trabajos /\ decidiendo(h)
           /\ tarea[h].copia.token \in Tokens /\ cambio.token = tarea[h].copia.token
           /\ cambio.probado
           /\ ordenes(h) = {} /\ activa(tarea[h])
           /\ Normal => respaldada(tarea[h].copia.token)
<1>1. tarea[h].paso \in Trabajos /\ decidiendo(h)
    BY DEF Trabajos, decidiendo
<1>. QED
    BY <1>1, Dueno DEF Normal

LEMMA AvanceClaveFinal ==
    ASSUME IInv, IInv', IInv2, NEW h \in Tareas, AplicarClave(h)
    PROVE  IInv2'
<1> DEFINE c == tarea[h].copia
           t == c.token
<1>1. /\ tarea[h].paso = "claveFinal"
      /\ orden(h, [srv EXCEPT !.claves = @ \cup {<<t, "final">>}], {srv},
               "final", <<"liberar">>)
      /\ perfil' = perfil
      /\ UNCHANGED <<externo, cambio, enlace, averias, viejas, olvidadas>>
      /\ perdidas \subseteq perdidas'
    BY DEF AplicarClave
<1>2. /\ tarea[h].paso \in Trabajos /\ decidiendo(h) /\ t \in Tokens /\ cambio.token = t
      /\ cambio.probado /\ ordenes(h) = {} /\ activa(tarea[h])
      /\ Normal => respaldada(t)
      /\ srv \in Servidor
    BY <1>1, Etapa DEF IInv, TypeOK
<1>3. averias = 0 => tarea[h].cli /\ <<t, "final">> \notin srv.claves \ olvidadas
    BY <1>1, <1>2 DEF IInv2, InvClaves, clavesBien
<1>4. soloDe(srv', t)
    BY <1>1, <1>2, Solos DEF orden
<1>5. /\ srv'.cfg = srv.cfg /\ srv'.activo = srv.activo /\ srv'.abiertos = srv.abiertos
      /\ srv'.respaldo = srv.respaldo /\ srv'.guardia = srv.guardia
    BY <1>1, <1>2 DEF orden, Servidor
<1>6. (Bien' <=> Bien) /\ \A u \in Tokens : respaldada(u)' <=> respaldada(u)
    BY <1>1, <1>5, MismoSshd
<1>7. CASE tarea[h].cli /\ pasar(h, "final")
  <2>1. "final" \in Trabajos
      BY DEF Trabajos
  <2>2. /\ avanza(h, tarea'[h]) /\ tarea'[h].paso = "final"
        /\ tarea'[h].copia = c /\ tarea'[h].cli = tarea[h].cli
        /\ ordenes(h)' = {}
      BY <1>1, <1>2, <1>4, <1>7, <2>1, Mover
  <2>3. averias = 0 => clavesBien(h)'
      BY <1>3, <2>2 DEF clavesBien
  <2>4. puertosBien(h)' /\ normalBien(h)' /\ ~probando(h)'
      BY <2>2 DEF puertosBien, normalBien, probando, borra
  <2>5. respaldada(tarea[h].copia.token)' <=> respaldada(t)
      BY <1>2, <1>6, <2>2 DEF respaldada, respalda
  <2>. QED
      BY <1>1, <1>2, <1>5, <1>6, <2>2, <2>3, <2>4, <2>5, AvanceEntero
<1>8. CASE srv' = srv /\ terminar(h, <<"liberar">>)
  <2>1. /\ avanza(h, tarea'[h]) /\ tarea'[h].paso = "guion"
        /\ tarea'[h].copia = c /\ tarea'[h].cli = tarea[h].cli
        /\ ordenes(h)' = {"liberar"}
      BY <1>1, <1>2, <1>4, <1>8, Listar, Listas, EnListas
  <2>2. averias = 0 => clavesBien(h)'
      BY <1>1, <1>2, <1>3, <1>8, <2>1 DEF clavesBien
  <2>3. puertosBien(h)' /\ normalBien(h)' /\ ~probando(h)'
      BY <2>1 DEF puertosBien, normalBien, probando, borra
  <2>4. respaldada(tarea[h].copia.token)' <=> respaldada(t)
      BY <1>2, <1>6, <2>1 DEF respaldada, respalda
  <2>. QED
      BY <1>1, <1>2, <1>5, <1>6, <2>1, <2>2, <2>3, <2>4, AvanceEntero
<1>. QED
    BY <1>1, <1>7, <1>8 DEF orden

\* sshd may lose the port of the profile here: the stage still has its backup.
LEMMA AvanceConfigFinal ==
    ASSUME IInv, IInv', IInv2, NEW h \in Tareas, AplicarConfig(h)
    PROVE  IInv2'
<1> DEFINE c == tarea[h].copia
           t == c.token
           P == {c.nuevo}
<1>1. /\ tarea[h].paso = "final"
      /\ orden(h, configurar(srv, P), {srv, configurar(srv, P)} \cup cortes(srv, P),
               "comprobar", <<"quitarClave", "quitarFinal", "liberar">>)
      /\ perfil' = perfil
      /\ UNCHANGED <<externo, cambio, enlace, averias, viejas, olvidadas>>
      /\ perdidas \subseteq perdidas'
    BY DEF AplicarConfig
<1>2. /\ tarea[h].paso \in Trabajos /\ decidiendo(h) /\ t \in Tokens /\ cambio.token = t
      /\ cambio.probado /\ ordenes(h) = {} /\ activa(tarea[h])
      /\ Normal => respaldada(t)
      /\ srv \in Servidor
    BY <1>1, Etapa DEF IInv, TypeOK
<1>3. averias = 0 => tarea[h].cli
    BY <1>1, <1>2 DEF IInv2, InvClaves, clavesBien
<1>9. srv' \in {srv, configurar(srv, P)} \cup cortes(srv, P)
    BY <1>1 DEF orden
<1>4. soloDe(srv', t)
    BY <1>2, <1>9, Solos
<1>5. /\ srv'.abiertos = srv.abiertos /\ srv'.claves = srv.claves
      /\ srv'.respaldo = srv.respaldo /\ srv'.guardia = srv.guardia
    BY <1>2, <1>9 DEF Servidor, configurar, cortes, escribir
<1>6. respaldada(t) /\ tarea'[h].copia = c => respaldada(tarea[h].copia.token)'
    BY <1>1, <1>5 DEF respaldada, respalda
<1>7. CASE srv' = configurar(srv, P) /\ pasar(h, "comprobar")
  <2>1. "comprobar" \in Trabajos
      BY DEF Trabajos
  <2>2. /\ avanza(h, tarea'[h]) /\ tarea'[h].paso = "comprobar"
        /\ tarea'[h].copia = c /\ tarea'[h].cli = tarea[h].cli
        /\ ordenes(h)' = {}
      BY <1>1, <1>2, <1>4, <1>7, <2>1, Mover
  <2>3. averias = 0 => clavesBien(h)'
      BY <1>3, <2>2 DEF clavesBien
  <2>4. normalBien(h)' /\ ~probando(h)'
      BY <2>2 DEF normalBien, probando, borra
  <2>5. puertosBien(h)'
    <3>1. srv'.cfg = P /\ srv'.activo = P
        BY <1>2, <1>7 DEF configurar, Servidor
    <3>. QED
        BY <2>2, <3>1 DEF puertosBien
  <2>. QED
      BY <1>1, <1>2, <1>5, <1>6, <2>2, <2>3, <2>4, <2>5, AvanceEntero
<1>8. CASE terminar(h, <<"quitarClave", "quitarFinal", "liberar">>)
  <2>1. /\ avanza(h, tarea'[h]) /\ tarea'[h].paso = "guion"
        /\ tarea'[h].copia = c /\ tarea'[h].cli = tarea[h].cli
        /\ ordenes(h)' = {"quitarClave", "quitarFinal", "liberar"}
      BY <1>1, <1>2, <1>4, <1>8, Listar, Listas, EnListas
  <2>2. averias = 0 => clavesBien(h)'
      BY <1>3, <2>1 DEF clavesBien
  <2>3. puertosBien(h)' /\ normalBien(h)' /\ ~probando(h)'
      BY <2>1 DEF puertosBien, normalBien, probando, borra
  <2>. QED
      BY <1>1, <1>2, <1>5, <1>6, <2>1, <2>2, <2>3, AvanceEntero
<1>. QED
    BY <1>1, <1>7, <1>8 DEF orden

\* An Aplicar that goes back, from the last connection or from the profile.
LEMMA AvanceAtras ==
    ASSUME IInv, IInv', IInv2, NEW h \in Tareas,
           tarea[h].paso \in {"comprobar", "guardar"},
           UNCHANGED <<externo, srv, perfil, cambio, enlace, averias, viejas, olvidadas>>,
           perdidas \subseteq perdidas',
           \/ terminar(h, <<"restaurar", "parar", "quitarClave", "cerrarNuevo",
                            "borrar", "quitarFinal", "liberar">>)
           \/ terminar(h, <<"restaurar", "cerrarNuevo", "parar", "quitarClave",
                            "borrar", "quitarFinal", "liberar">>)
    PROVE  IInv2'
<1> DEFINE c == tarea[h].copia
           t == c.token
<1>1. /\ tarea[h].paso \in Trabajos /\ decidiendo(h) /\ t \in Tokens /\ cambio.token = t
      /\ cambio.probado /\ ordenes(h) = {} /\ activa(tarea[h])
      /\ Normal => respaldada(t)
    BY Etapa
<1>2. averias = 0 => tarea[h].cli
    BY DEF IInv2, InvClaves, clavesBien
<1>3. soloDe(srv', t)
    BY <1>1, Solos
<1>4. Bien' <=> Bien
    BY MismoSshd
<1>5. /\ avanza(h, tarea'[h]) /\ tarea'[h].paso = "guion"
      /\ tarea'[h].copia = c /\ tarea'[h].cli = tarea[h].cli
      /\ ordenes(h)' = {"restaurar", "cerrarNuevo", "parar", "quitarClave",
                        "borrar", "quitarFinal", "liberar"}
  <2>1. CASE terminar(h, <<"restaurar", "parar", "quitarClave", "cerrarNuevo",
                           "borrar", "quitarFinal", "liberar">>)
    <3>1. /\ avanza(h, tarea'[h]) /\ tarea'[h].paso = "guion"
          /\ tarea'[h].copia = c /\ tarea'[h].cli = tarea[h].cli
          /\ ordenes(h)' = enLista(<<"restaurar", "parar", "quitarClave", "cerrarNuevo",
                                     "borrar", "quitarFinal", "liberar">>)
        BY <1>1, <1>3, <2>1, Listar, Listas
    <3>. QED
        BY <3>1, EnListas
  <2>2. CASE terminar(h, <<"restaurar", "cerrarNuevo", "parar", "quitarClave",
                           "borrar", "quitarFinal", "liberar">>)
    <3>1. /\ avanza(h, tarea'[h]) /\ tarea'[h].paso = "guion"
          /\ tarea'[h].copia = c /\ tarea'[h].cli = tarea[h].cli
          /\ ordenes(h)' = enLista(<<"restaurar", "cerrarNuevo", "parar", "quitarClave",
                                     "borrar", "quitarFinal", "liberar">>)
        BY <1>1, <1>3, <2>2, Listar, Listas
    <3>. QED
        BY <3>1, EnListas
  <2>. QED
      BY <2>1, <2>2
<1>6. averias = 0 => clavesBien(h)'
    BY <1>2, <1>5 DEF clavesBien
<1>7. ~probando(h)' /\ borra(h)'
    BY <1>5 DEF probando, borra
<1>8. c.nuevo # perfil => puertosBien(h)'
    BY <1>5 DEF puertosBien
<1>9. respaldada(tarea[h].copia.token)' <=> respaldada(t)
    BY <1>1, <1>5 DEF respaldada, respalda
<1>10. Normal => normalBien(h)'
    BY <1>1, <1>5, <1>9 DEF normalBien
<1>. QED
    BY <1>1, <1>4, <1>5, <1>6, <1>7, <1>8, <1>9, <1>10, AvanceEntero

LEMMA AvanceConexionFinal ==
    ASSUME IInv, IInv', IInv2, NEW h \in Tareas, AplicarConexion(h)
    PROVE  IInv2'
<1> DEFINE c == tarea[h].copia
           t == c.token
<1>1. /\ tarea[h].paso = "comprobar"
      /\ UNCHANGED <<externo, srv, perfil, cambio, enlace, averias, viejas, olvidadas>>
      /\ perdidas \subseteq perdidas'
    BY DEF AplicarConexion
<1>2. CASE alcanzable(c.nuevo) /\ pasar(h, "guardar")
  <2>1. /\ tarea[h].paso \in Trabajos /\ decidiendo(h) /\ t \in Tokens /\ cambio.token = t
        /\ cambio.probado /\ ordenes(h) = {} /\ activa(tarea[h])
        /\ Normal => respaldada(t)
      BY <1>1, Etapa
  <2>2. averias = 0 => tarea[h].cli
      BY <1>1, <2>1 DEF IInv2, InvClaves, clavesBien
  <2>3. soloDe(srv', t)
      BY <1>1, <2>1, Solos
  <2>4. "guardar" \in Trabajos
      BY DEF Trabajos
  <2>5. /\ avanza(h, tarea'[h]) /\ tarea'[h].paso = "guardar"
        /\ tarea'[h].copia = c /\ tarea'[h].cli = tarea[h].cli
        /\ ordenes(h)' = {}
      BY <1>1, <1>2, <2>1, <2>3, <2>4, Mover
  <2>6. averias = 0 => clavesBien(h)'
      BY <2>2, <2>5 DEF clavesBien
  <2>7. normalBien(h)' /\ ~probando(h)'
      BY <2>5 DEF normalBien, probando, borra
  <2>8. InvPuertos => puertosBien(h)'
    <3>1. alcanzable(tarea[h].copia.nuevo)'
        BY <1>1, <1>2, <2>5 DEF alcanzable, externo
    <3>. QED
        BY <1>1, <2>5, <3>1 DEF InvPuertos, puertosBien
  <2>9. respaldada(tarea[h].copia.token)' <=> respaldada(t)
      BY <1>1, <2>5 DEF respaldada, respalda
  <2>. QED
      BY <1>1, <2>1, <2>5, <2>6, <2>7, <2>8, <2>9, AvanceEntero
<1>3. CASE terminar(h, <<"restaurar", "parar", "quitarClave", "cerrarNuevo",
                         "borrar", "quitarFinal", "liberar">>)
    BY <1>1, <1>3, AvanceAtras
<1>. QED
    BY <1>2, <1>3 DEF AplicarConexion

\* Cancelar goes back to the backup of the stage.
LEMMA AvanceCancelar ==
    ASSUME IInv, IInv', IInv2, NEW h \in Tareas, CancelarRestaurar(h)
    PROVE  IInv2'
<1> DEFINE c == tarea[h].copia
           t == c.token
<1>1. /\ tarea[h].paso = "cancelar" /\ perfil' = perfil
      /\ UNCHANGED <<externo, cambio, enlace, averias, viejas, olvidadas>>
      /\ perdidas \subseteq perdidas'
    BY DEF CancelarRestaurar
<1>2. /\ tarea[h].paso \in Trabajos /\ decidiendo(h) /\ t \in Tokens /\ cambio.token = t
      /\ cambio.probado /\ ordenes(h) = {} /\ activa(tarea[h])
      /\ Normal => respaldada(t)
      /\ srv \in Servidor
    BY <1>1, Etapa DEF IInv, TypeOK
<1>3. averias = 0 => tarea[h].cli /\ <<t, "final">> \notin srv.claves \ olvidadas
    BY <1>1, <1>2 DEF IInv2, InvClaves, clavesBien
<1>4. CASE /\ srv' = restaurar(srv, t)
           /\ terminar(h, <<"cerrarNuevo", "parar", "quitarClave", "borrar", "liberar">>)
  <2>1. soloDe(srv', t)
      BY <1>2, <1>4, Solos
  <2>2. /\ avanza(h, tarea'[h]) /\ tarea'[h].paso = "guion"
        /\ tarea'[h].copia = c /\ tarea'[h].cli = tarea[h].cli
        /\ ordenes(h)' = {"cerrarNuevo", "parar", "quitarClave", "borrar", "liberar"}
      BY <1>1, <1>2, <1>4, <2>1, Listar, Listas, EnListas
  <2>3. srv'.abiertos = srv.abiertos /\ srv'.claves = srv.claves
      BY <1>2, <1>4 DEF restaurar, configurar, Servidor
  <2>4. averias = 0 => clavesBien(h)'
      BY <1>1, <1>3, <2>2, <2>3 DEF clavesBien
  <2>5. Normal => Bien'
    <3>1. srv.respaldo[t] # Ninguno =>
             srv'.cfg = srv.respaldo[t] /\ srv'.activo = srv.respaldo[t]
        BY <1>2, <1>4 DEF restaurar, configurar, Servidor
    <3>. QED
        BY <1>1, <1>2, <3>1 DEF respaldada, respalda, Bien
  <2>6. ~probando(h)' /\ borra(h)'
      BY <2>2 DEF probando, borra
  <2>7. c.nuevo # perfil => puertosBien(h)'
      BY <1>1, <2>2 DEF puertosBien
  <2>8. Bien' => normalBien(h)'
      BY <2>2 DEF normalBien
  <2>. QED
      BY <1>1, <1>2, <2>2, <2>3, <2>4, <2>5, <2>6, <2>7, <2>8, AvanceEntero
<1>5. CASE /\ srv' \in {srv, restaurar(srv, t)} \cup restaurarFalla(srv, t)
           /\ terminar(h, <<"liberar">>)
  <2>1. soloDe(srv', t)
      BY <1>2, <1>5, Solos
  <2>2. /\ avanza(h, tarea'[h]) /\ tarea'[h].paso = "guion"
        /\ tarea'[h].copia = c /\ tarea'[h].cli = tarea[h].cli
        /\ ordenes(h)' = {"liberar"}
      BY <1>1, <1>2, <1>5, <2>1, Listar, Listas, EnListas
  <2>3. /\ srv'.abiertos = srv.abiertos /\ srv'.claves = srv.claves
        /\ srv'.respaldo = srv.respaldo /\ srv'.guardia = srv.guardia
      BY <1>2, <1>5, Restauraciones
  <2>6. averias = 0 => clavesBien(h)'
      BY <1>1, <1>2, <1>3, <2>2, <2>3 DEF clavesBien
  <2>4. puertosBien(h)' /\ normalBien(h)' /\ ~probando(h)'
      BY <2>2 DEF puertosBien, normalBien, probando, borra
  <2>5. respaldada(tarea[h].copia.token)' <=> respaldada(t)
      BY <1>1, <2>2, <2>3 DEF respaldada, respalda
  <2>. QED
      BY <1>1, <1>2, <2>2, <2>3, <2>4, <2>5, <2>6, AvanceEntero
<1>. QED
    BY <1>4, <1>5 DEF CancelarRestaurar

\* The profile moves to a port that answers, and sshd has no other.
LEMMA AvanceGuardado ==
    ASSUME IInv, IInv', IInv2, NEW h \in Tareas, tarea[h].paso = "guardar",
           perfil' = tarea[h].copia.nuevo,
           UNCHANGED <<externo, srv, cambio, enlace, averias, viejas, olvidadas>>,
           perdidas \subseteq perdidas',
           NEW g \in {<<"parar", "quitarClave", "borrarRespaldo", "borrar",
                        "quitarFinal", "liberar">>,
                      <<"cerrarAnterior", "parar", "quitarClave", "borrarRespaldo",
                        "borrar", "quitarFinal", "liberar">>},
           terminar(h, g)
    PROVE  IInv2'
<1> DEFINE c == tarea[h].copia
           t == c.token
<1>1. /\ tarea[h].paso \in Trabajos /\ decidiendo(h) /\ t \in Tokens /\ cambio.token = t
      /\ cambio.probado /\ ordenes(h) = {} /\ activa(tarea[h])
    BY Etapa
<1>2. averias = 0 => tarea[h].cli
    BY DEF IInv2, InvClaves, clavesBien
<1>3. guionOrdenado(g)
      /\ enLista(g) \in {{"parar", "quitarClave", "borrarRespaldo", "borrar",
                          "quitarFinal", "liberar"},
                         {"cerrarAnterior", "parar", "quitarClave", "borrarRespaldo",
                          "borrar", "quitarFinal", "liberar"}}
    BY Listas, EnListas
<1>4. /\ avanza(h, tarea'[h]) /\ tarea'[h].paso = "guion"
      /\ tarea'[h].copia = c /\ tarea'[h].cli = tarea[h].cli
      /\ ordenes(h)' = enLista(g)
    BY <1>1, <1>3, Solos, Listar
<1>5. averias = 0 => clavesBien(h)'
    BY <1>2, <1>3, <1>4 DEF clavesBien
<1>6. ~probando(h)' /\ borra(h)' /\ "restaurar" \notin ordenes(h)'
    BY <1>3, <1>4 DEF probando, borra
<1>7. /\ InvCopia' /\ InvClaves'
      /\ \A r \in Tareas : r # h => ~borra(r)' /\ puertosBien(r)' /\ normalBien(r)'
    BY <1>1, <1>4, <1>5, <1>6, Avance
<1>8. InvPerfil'
  <2> SUFFICES ASSUME SinDisparos', viejas' = {}, perdidas' = {}
               PROVE  InvPuertos' /\ Normal'
      BY DEF InvPerfil
  <2>1. InvPuertos /\ aMedias
      BY <1>1, Dueno DEF IInv2, InvPerfil, SinDisparos
  <2>2. /\ c.anterior # c.nuevo
        /\ srv.cfg = {c.nuevo} /\ srv.activo = {c.nuevo} /\ alcanzable(c.nuevo)
      BY <1>1, <2>1, Dueno DEF InvPuertos, PuertosPerfil, puertosBien
  <2>3. Bien'
      BY <2>2 DEF Bien
  <2>4. ~aMedias'
      BY <1>6 DEF aMedias
  <2>5. PuertosPerfil'
      BY <2>2, <2>4 DEF PuertosPerfil, alcanzable, externo
  <2>6. puertosBien(h)'
      BY <1>3, <1>4, <2>2 DEF puertosBien
  <2>7. normalBien(h)'
      BY <1>4, <1>6, <2>3 DEF normalBien
  <2>. QED
      BY <1>7, <2>3, <2>4, <2>5, <2>6, <2>7 DEF InvPuertos, Normal
<1>. QED
    BY <1>7, <1>8 DEF IInv2

LEMMA AvanceGuardar ==
    ASSUME IInv, IInv', IInv2, NEW h \in Tareas, AplicarGuardar(h)
    PROVE  IInv2'
<1>1. CASE perfil' = perfil /\ terminar(h, <<"restaurar", "cerrarNuevo", "parar",
                                   "quitarClave", "borrar", "quitarFinal", "liberar">>)
    BY <1>1, AvanceAtras DEF AplicarGuardar
<1>2. CASE /\ perfil' = tarea[h].copia.nuevo
           /\ \/ terminar(h, <<"parar", "quitarClave", "borrarRespaldo", "borrar",
                               "quitarFinal", "liberar">>)
              \/ terminar(h, <<"cerrarAnterior", "parar", "quitarClave", "borrarRespaldo",
                               "borrar", "quitarFinal", "liberar">>)
    BY <1>2, AvanceGuardado DEF AplicarGuardar
<1>. QED
    BY <1>1, <1>2 DEF AplicarGuardar

-----------------------------------------------------------------------------
(* The steps that take the server and give it back.                        *)

\* Another handler keeps its copy when the entry it does not own changes.
LEMMA CopiaAjena ==
    ASSUME IInv, IInv', IInv2, NEW g \in Tareas, tarea'[g] = tarea[g],
           ~ocupa(g),
           cambio' = cambio \/ ~activa(tarea[g]) \/ cambio'.token # tarea[g].copia.token
    PROVE  copiaBien(g)' /\ ~ocupa(g)'
<1>1. ordenes(g)' = ordenes(g)
    BY DEF ordenes
<1>2. ~ocupa(g)'
    BY <1>1 DEF ocupa
<1>3. ~probando(g)' /\ ~borra(g)'
    BY <1>1 DEF ocupa, probando, borra
<1>4. copiaBien(g)
    BY DEF IInv2, InvCopia
<1>5. decidiendo(g)' => decidiendo(g) /\ cambio' = cambio
  <2> SUFFICES ASSUME decidiendo(g)' PROVE decidiendo(g) /\ cambio' = cambio
      OBVIOUS
  <2>1. "liberar" \in ordenes(g) /\ cambio'.token = tarea[g].copia.token
      BY <1>1, <1>2, <1>3 DEF decidiendo, ocupa
  <2>2. activa(tarea[g])
      BY <2>1 DEF IInv, InvForma, forma, activa, ordenes
  <2>. QED
      BY <2>1, <2>2 DEF decidiendo
<1>. QED
    BY <1>2, <1>3, <1>4, <1>5 DEF copiaBien

\* A handler that has no token comes or goes.
LEMMA AvanceSinToken ==
    ASSUME IInv, IInv', IInv2, NEW h \in Tareas,
           ~activa(tarea[h]), ~activa(tarea[h])',
           \A g \in Tareas : g # h => tarea'[g] = tarea[g],
           tarea'[h].paso # "libre" => tarea'[h].cli,
           tarea'[h].paso = "reservar" => tarea'[h].copia.nuevo # tarea'[h].copia.anterior,
           UNCHANGED <<externo, srv, perfil, cambio, averias, viejas, perdidas, olvidadas>>
    PROVE  IInv2'
<1>1. /\ ordenes(h) = {} /\ ordenes(h)' = {} /\ ~ocupa(h) /\ ~ocupa(h)'
      /\ tarea[h].paso \in {"libre", "reservar"} /\ tarea'[h].paso \in {"libre", "reservar"}
    BY DEF IInv, InvForma, forma, activa, ordenes, ocupa
<1>2. \A g \in Tareas : g # h => tarea'[g] = tarea[g] /\ ordenes(g)' = ordenes(g)
    BY DEF ordenes
<1>3. InvCopia'
  <2> SUFFICES ASSUME NEW g \in Tareas PROVE copiaBien(g)'
      BY DEF InvCopia
  <2>1. CASE g = h
      BY <1>1, <2>1 DEF copiaBien, probando, decidiendo, borra
  <2>2. CASE g # h
    <3>1. /\ tarea'[g] = tarea[g]
          /\ probando(g)' <=> probando(g)
          /\ decidiendo(g)' <=> decidiendo(g)
        BY <1>2, <2>2 DEF probando, decidiendo, borra
    <3>. QED
        BY <3>1 DEF IInv2, InvCopia, copiaBien
  <2>. QED
      BY <2>1, <2>2
<1>4. InvClaves'
  <2>1. ClavesDeFlujo'
    <3> SUFFICES ASSUME averias = 0, NEW k \in srv.claves \ olvidadas
                 PROVE  \/ cambio.token = k[1]
                        \/ \E g \in Tareas : /\ tarea'[g].paso # "libre"
                                             /\ tarea'[g].copia.token = k[1]
        BY DEF ClavesDeFlujo
    <3>1. k[1] \in Tokens
        BY DEF IInv, TypeOK, Servidor
    <3>2. tarea[h].paso # "libre" => tarea[h].copia.token # k[1]
        BY <1>1, <3>1, NingunoAssumption DEF IInv, InvForma, forma, SinToken
    <3>. QED
        BY <1>2, <3>2 DEF IInv2, InvClaves, ClavesDeFlujo
  <2>2. ASSUME averias = 0, NEW g \in Tareas PROVE clavesBien(g)'
    <3>1. CASE g = h
        BY <3>1 DEF clavesBien
    <3>2. CASE g # h
        BY <1>2, <2>2, <3>2 DEF IInv2, InvClaves, clavesBien
    <3>. QED
        BY <3>1, <3>2
  <2>. QED
      BY <2>1, <2>2 DEF IInv2, InvClaves
<1>5. InvPerfil'
  <2>1. \A g \in Tareas : borra(g)' <=> borra(g)
      BY <1>1, <1>2 DEF borra
  <2>2. ASSUME NEW g \in Tareas
        PROVE  (puertosBien(g) => puertosBien(g)') /\ (normalBien(g) => normalBien(g)')
    <3>1. CASE g = h
        BY <1>1, <3>1 DEF puertosBien, normalBien, borra
    <3>2. CASE g # h
        BY <1>2, <2>1, <3>2
        DEF puertosBien, normalBien, Bien, respaldada, respalda, alcanzable, externo
    <3>. QED
        BY <3>1, <3>2
  <2>3. aMedias' <=> aMedias
      BY <2>1 DEF aMedias
  <2>4. PuertosPerfil => PuertosPerfil'
      BY <2>3 DEF PuertosPerfil, externo
  <2>5. Normal => Normal'
      BY <2>2, <2>3 DEF Normal, Bien, respaldada, respalda
  <2>6. Cortado => Cortado'
      BY DEF Cortado, respaldada, respalda
  <2>. QED
      BY <2>2, <2>4, <2>5, <2>6 DEF IInv2, InvPerfil, InvPuertos, SinDisparos
<1>. QED
    BY <1>3, <1>4, <1>5 DEF IInv2

LEMMA AvanceLeer ==
    ASSUME IInv, IInv', IInv2, NEW h \in Tareas, NEW p \in Puertos, ProbarLeer(h, p)
    PROVE  IInv2'
<1> DEFINE y == [SinCambio EXCEPT !.anterior = perfil, !.nuevo = p]
<1>1. /\ tarea[h].paso = "libre" /\ p # perfil
      /\ tarea' = [tarea EXCEPT ![h] = [TareaLibre EXCEPT !.paso = "reservar",
                                                          !.cli = TRUE, !.copia = y]]
      /\ UNCHANGED <<externo, srv, perfil, cambio, averias, viejas, perdidas, olvidadas>>
    BY DEF ProbarLeer
<1>2. tarea'[h].paso = "reservar" /\ tarea'[h].cli /\ tarea'[h].copia = y
    BY <1>1 DEF TareaLibre, IInv, TypeOK
<1>3. y.nuevo = p /\ y.anterior = perfil
    BY DEF SinCambio
<1>4. \A g \in Tareas : g # h => tarea'[g] = tarea[g]
    BY <1>1 DEF IInv, TypeOK
<1>5. ~activa(tarea[h]) /\ ~activa(tarea[h])'
    BY <1>1, <1>2 DEF activa
<1>. QED
    BY <1>1, <1>2, <1>3, <1>4, <1>5, AvanceSinToken

\* The entry was free: nobody owns the server, and the token is new.
LEMMA AvanceReservar ==
    ASSUME IInv, IInv', IInv2, NEW h \in Tareas, NEW t \in Tokens, ProbarReservar(h, t)
    PROVE  IInv2'
<1>1. CASE cambio # SinCambio
  <2>1. /\ tarea' = [tarea EXCEPT ![h] = TareaLibre] /\ tarea[h].paso = "reservar"
        /\ UNCHANGED <<externo, srv, perfil, cambio, averias, viejas, perdidas, olvidadas>>
      BY <1>1 DEF ProbarReservar
  <2>2. tarea'[h] = TareaLibre /\ \A g \in Tareas : g # h => tarea'[g] = tarea[g]
      BY <2>1 DEF IInv, TypeOK
  <2>3. TareaLibre.paso = "libre"
      BY DEF TareaLibre
  <2>4. ~activa(tarea[h]) /\ ~activa(tarea[h])'
      BY <2>1, <2>2, <2>3 DEF activa
  <2>. QED
      BY <2>1, <2>2, <2>3, <2>4, AvanceSinToken
<1>2. CASE cambio = SinCambio
  <2> DEFINE c == tarea[h].copia
             d == [c EXCEPT !.token = t]
  <2>1. /\ tarea[h].paso = "reservar" /\ srv.guardia[t] = "nueva" /\ cambio' = d
        /\ tarea' = [tarea EXCEPT ![h].paso = "clave", ![h].copia.token = t]
        /\ srv' = [srv EXCEPT !.guardia[t] = "sin"]
        /\ viejas' = IF c.anterior = perfil THEN viejas ELSE viejas \cup {t}
        /\ UNCHANGED <<externo, perfil, enlace, averias, perdidas, olvidadas>>
      BY <1>2 DEF ProbarReservar
  <2>2. c \in SinToken /\ tarea[h] \in Tarea /\ srv \in Servidor /\ tarea[h].guion = <<>>
      BY <2>1 DEF IInv, InvForma, forma, TypeOK, Tarea
  <2>3. /\ d.token = t /\ d.anterior = c.anterior /\ d.nuevo = c.nuevo /\ ~d.probado
        /\ d # SinCambio
      BY <2>2, NingunoAssumption DEF SinToken, SinCambio
  <2>4. /\ tarea'[h].paso = "clave" /\ tarea'[h].copia = d /\ tarea'[h].guion = <<>>
        /\ tarea'[h].cli = tarea[h].cli
    <3>1. tarea'[h] = [tarea[h] EXCEPT !.paso = "clave", !.copia.token = t]
        BY <2>1 DEF IInv, TypeOK
    <3>2. tarea'[h] = [tarea[h] EXCEPT !.paso = "clave", !.copia = d]
        BY <3>1
    <3>. QED
        BY <2>2, <3>2 DEF Tarea
  <2>5. \A g \in Tareas : g # h => tarea'[g] = tarea[g] /\ ordenes(g)' = ordenes(g)
      BY <2>1 DEF IInv, TypeOK, ordenes
  <2>6. \A g \in Tareas : ~ocupa(g)
      BY <1>2, NingunoAssumption DEF IInv, InvOcupa, InvForma, forma, SinCambio
  <2>7. \A g \in Tareas : activa(tarea[g]) => tarea[g].copia.token \in Tokens \ {t}
      BY <2>1 DEF IInv, InvForma, forma, InvToken
  <2>8. /\ \A u \in Tokens : u # t => srv'.guardia[u] = srv.guardia[u]
        /\ srv'.guardia[t] = "sin" /\ srv'.claves = srv.claves
        /\ srv'.cfg = srv.cfg /\ srv'.activo = srv.activo
        /\ srv'.abiertos = srv.abiertos /\ srv'.respaldo = srv.respaldo
      BY <2>1, <2>2 DEF Servidor
  <2> HIDE DEF d
  <2>9. \A k \in srv.claves : k[1] \in Tokens \ {t}
      BY <2>1 DEF IInv, TypeOK, Servidor, IInv2, InvClaves
  <2>10. ordenes(h)' = {}
      BY <2>4 DEF ordenes
  <2>11. \A g \in Tareas : g # h => copiaBien(g)' /\ ~ocupa(g)'
      BY <2>1, <2>3, <2>5, <2>6, <2>7, CopiaAjena
  <2>12. InvCopia'
    <3>1. copiaBien(h)'
        BY <2>1, <2>3, <2>4, <2>8, <2>10 DEF copiaBien, decidiendo, borra
    <3>. QED
        BY <2>11, <3>1 DEF InvCopia
  <2>13. InvClaves'
    <3>1. ClavesDeFlujo'
      <4> SUFFICES ASSUME averias = 0, NEW k \in srv.claves \ olvidadas
                   PROVE  \E g \in Tareas : /\ tarea'[g].paso # "libre"
                                            /\ tarea'[g].copia.token = k[1]
          BY <2>1, <2>8 DEF ClavesDeFlujo
      <4>1. k[1] # Ninguno /\ c.token = Ninguno /\ cambio.token = Ninguno
          BY <1>2, <2>2, <2>9, NingunoAssumption DEF SinToken, SinCambio
      <4>. QED
          BY <2>5, <4>1 DEF IInv2, InvClaves, ClavesDeFlujo
    <3>2. ASSUME averias = 0, NEW g \in Tareas PROVE clavesBien(g)'
      <4>1. CASE g = h
        <5>1. tarea[h].cli
            BY <2>1, <3>2 DEF IInv2, InvClaves, clavesBien
        <5>2. <<t, "prueba">> \notin srv.claves /\ <<t, "final">> \notin srv.claves
            BY <2>9
        <5>. QED
            BY <2>1, <2>3, <2>4, <2>8, <4>1, <5>1, <5>2 DEF clavesBien
      <4>2. CASE g # h
        <5>1. clavesBien(g)
            BY <3>2 DEF IInv2, InvClaves
        <5>2. activa(tarea[g]) => cambio.token # tarea[g].copia.token
            BY <1>2, <2>7, NingunoAssumption DEF SinCambio
        <5>. QED
            BY <2>1, <2>5, <2>8, <4>2, <5>1, <5>2 DEF clavesBien
      <4>. QED
          BY <4>1, <4>2
    <3>3. \A k \in srv'.claves : srv'.guardia[k[1]] # "nueva"
        BY <2>8, <2>9 DEF IInv2, InvClaves
    <3>. QED
        BY <2>1, <2>3, <3>1, <3>2, <3>3 DEF InvClaves
  <2>14. InvPerfil'
    <3> SUFFICES ASSUME SinDisparos', viejas' = {}, perdidas' = {}
                 PROVE  InvPuertos' /\ (Cortado' \/ Normal')
        BY DEF InvPerfil
    <3>1. SinDisparos /\ viejas = {} /\ perdidas = {} /\ c.anterior = perfil
        BY <2>1, <2>8 DEF SinDisparos
    <3>2. InvPuertos /\ (Cortado \/ Normal)
        BY <3>1 DEF IInv2, InvPerfil
    <3>3. c.nuevo # c.anterior
        BY <2>1 DEF IInv2, InvCopia, copiaBien
    <3>4. PuertosPerfil'
        BY <2>1, <2>3, <2>8, <3>1, <3>2, <3>3 DEF InvPuertos, PuertosPerfil, externo
    <3>5. \A g \in Tareas : puertosBien(g)' /\ normalBien(g)'
      <4>1. puertosBien(h)' /\ normalBien(h)'
          BY <2>4, <2>10 DEF puertosBien, normalBien, borra
      <4>. QED
          BY <2>11, <2>12, <4>1, SinOcuparPrima DEF SinDueno
    <3>6. Cortado => Cortado'
      <4> SUFFICES ASSUME Cortado PROVE Cortado'
          OBVIOUS
      <4>1. PICK u \in Tokens : respaldada(u) /\ srv.guardia[u] # "sin" /\ averias > 0
          BY DEF Cortado
      <4>2. u # t
          BY <2>1, <4>1 DEF respaldada, respalda
      <4>3. respaldada(u)' /\ srv'.guardia[u] # "sin"
          BY <2>1, <2>8, <4>1, <4>2 DEF respaldada, respalda
      <4>. QED
          BY <2>1, <2>3, <4>1, <4>2, <4>3 DEF Cortado
    <3>7. Normal => Normal'
      <4>1. Normal => Bien
          BY <1>2 DEF Normal, SinCambio
      <4>. QED
          BY <2>1, <2>3, <2>8, <3>5, <4>1 DEF Normal, Bien
    <3>. QED
        BY <3>2, <3>4, <3>5, <3>6, <3>7 DEF InvPuertos
  <2>. QED
      BY <2>12, <2>13, <2>14 DEF IInv2
<1>. QED
    BY <1>1, <1>2

\* The test passed: the entry becomes a stage, and its timer may be armed.
LEMMA AvanceGuardia ==
    ASSUME IInv, IInv', IInv2, NEW h \in Tareas, ProbarGuardia(h)
    PROVE  IInv2'
<1> DEFINE c == tarea[h].copia
           t == c.token
<1>1. /\ tarea[h].paso = "guardia" /\ tarea' = [tarea EXCEPT ![h] = TareaLibre]
      /\ \E g \in {"armada", "ninguna"} : srv' = [srv EXCEPT !.guardia[t] = g]
      /\ UNCHANGED <<externo, perfil, enlace, averias, viejas, perdidas, olvidadas>>
    BY DEF ProbarGuardia
<1>2. tarea[h].paso \in Trabajos /\ probando(h)
    BY <1>1 DEF Trabajos, probando
<1>3. /\ ocupa(h) /\ activa(tarea[h]) /\ t \in Tokens /\ cambio.token = t
      /\ cambio # SinCambio /\ aMedias /\ ~cambio.probado
      /\ \A g \in Tareas : g # h => ~ocupa(g)
    BY <1>2, Dueno
<1>4. cambio = c /\ srv.guardia[t] = "sin" /\ c \in Cambio /\ srv \in Servidor
    BY <1>2, <1>3, CopiaActiva DEF IInv2, InvCopia, copiaBien, IInv, TypeOK
<1>5. PICK unidad \in BOOLEAN : cambio' = [c EXCEPT !.probado = TRUE, !.unidad = unidad]
    BY DEF ProbarGuardia
<1>6. /\ cambio'.token = t /\ cambio'.anterior = cambio.anterior
      /\ cambio'.nuevo = cambio.nuevo /\ cambio'.probado
    BY <1>3, <1>4, <1>5 DEF Cambio
<1>7. /\ tarea'[h] = TareaLibre /\ tarea'[h].paso = "libre" /\ ordenes(h)' = {}
      /\ \A g \in Tareas : g # h => tarea'[g] = tarea[g] /\ ordenes(g)' = ordenes(g)
    BY <1>1 DEF IInv, TypeOK, ordenes, TareaLibre
<1>8. /\ srv'.cfg = srv.cfg /\ srv'.activo = srv.activo /\ srv'.abiertos = srv.abiertos
      /\ srv'.respaldo = srv.respaldo /\ srv'.claves = srv.claves
      /\ \A u \in Tokens : u # t => srv'.guardia[u] = srv.guardia[u]
      /\ srv'.guardia[t] \in {"ninguna", "armada"}
  <2>1. PICK g \in {"armada", "ninguna"} : srv' = [srv EXCEPT !.guardia[t] = g]
      BY <1>1
  <2>. QED
      BY <1>3, <1>4, <2>1 DEF Servidor
<1>9. \A g \in Tareas : g # h /\ activa(tarea[g]) => tarea[g].copia.token # t
    BY <1>3 DEF IInv, InvToken
<1>10. \A g \in Tareas : g # h => copiaBien(g)' /\ ~ocupa(g)'
    BY <1>3, <1>6, <1>7, <1>9, CopiaAjena
<1>11. InvCopia'
  <2>1. copiaBien(h)'
      BY <1>7 DEF copiaBien, probando, decidiendo, borra
  <2>. QED
      BY <1>10, <2>1 DEF InvCopia
<1>12. InvClaves'
  <2>1. ClavesDeFlujo'
    <3> SUFFICES ASSUME averias = 0, NEW k \in srv.claves \ olvidadas
                 PROVE  \/ k[1] = t
                        \/ \E g \in Tareas : /\ tarea'[g].paso # "libre"
                                             /\ tarea'[g].copia.token = k[1]
        BY <1>1, <1>6, <1>8 DEF ClavesDeFlujo
    <3>. QED
        BY <1>3, <1>7 DEF IInv2, InvClaves, ClavesDeFlujo
  <2>2. ASSUME averias = 0, NEW g \in Tareas PROVE clavesBien(g)'
    <3>1. CASE g = h
        BY <1>7, <3>1 DEF clavesBien, activa
    <3>2. CASE g # h
        BY <1>1, <1>3, <1>6, <1>7, <1>8, <2>2, <3>2 DEF IInv2, InvClaves, clavesBien
    <3>. QED
        BY <3>1, <3>2
  <2>3. averias = 0 => <<t, "final">> \notin srv.claves \ olvidadas
      BY <1>1, <1>2, <1>3, Dueno DEF IInv2, InvClaves, clavesBien
  <2>4. \A k \in srv.claves : srv'.guardia[k[1]] # "nueva"
    <3> SUFFICES ASSUME NEW k \in srv.claves PROVE srv'.guardia[k[1]] # "nueva"
        OBVIOUS
    <3>1. k[1] \in Tokens
        BY <1>4 DEF Servidor
    <3>. QED
        BY <1>8, <3>1 DEF IInv2, InvClaves
  <2>. QED
      BY <1>1, <1>6, <1>8, <2>1, <2>2, <2>3, <2>4 DEF InvClaves
<1>13. InvPerfil'
  <2> SUFFICES ASSUME SinDisparos', viejas' = {}, perdidas' = {}
               PROVE  InvPuertos' /\ (Cortado' \/ Normal')
      BY DEF InvPerfil
  <2>1. SinDisparos /\ viejas = {} /\ perdidas = {}
      BY <1>1, <1>4, <1>8 DEF SinDisparos
  <2>2. InvPuertos /\ (Cortado \/ Normal)
      BY <2>1 DEF IInv2, InvPerfil
  <2>3. PuertosPerfil'
      BY <1>1, <1>3, <1>6, <1>8, <2>2 DEF InvPuertos, PuertosPerfil, externo
  <2>4. \A g \in Tareas : puertosBien(g)' /\ normalBien(g)'
    <3>1. puertosBien(h)' /\ normalBien(h)'
        BY <1>7 DEF puertosBien, normalBien, borra
    <3>. QED
        BY <1>10, <1>11, <3>1, SinOcuparPrima DEF SinDueno
  <2>5. Bien' <=> Bien
      BY <1>1, <1>8 DEF Bien
  <2>6. \A u \in Tokens : /\ respaldada(u) => respaldada(u)'
                          /\ srv.guardia[u] # "sin" => srv'.guardia[u] # "sin"
      BY <1>1, <1>8 DEF respaldada, respalda
  <2>7. Cortado => Cortado'
      BY <1>1, <1>3, <1>6, <2>6 DEF Cortado
  <2>8. Normal => Normal'
    <3>1. Normal => respaldada(t)
        BY <1>1 DEF Normal, normalBien
    <3>2. Normal => respaldada(cambio.token)'
        BY <1>3, <1>6, <2>6, <3>1 DEF respaldada, respalda
    <3>. QED
        BY <1>6, <2>4, <3>2 DEF Normal
  <2>. QED
      BY <2>2, <2>3, <2>4, <2>7, <2>8 DEF InvPuertos
<1>. QED
    BY <1>11, <1>12, <1>13 DEF IInv2

\* The stage is taken: its new owner holds a copy of the entry.
LEMMA AvanceTomar ==
    ASSUME IInv, IInv', IInv2, NEW h \in Tareas, NEW p \in {"claveFinal", "cancelar"},
           NEW b \in BOOLEAN, tomar(h, p, b)
    PROVE  IInv2'
<1> DEFINE x == [TareaLibre EXCEPT !.paso = p, !.cli = TRUE, !.cerrar = b,
                                   !.copia = cambio]
<1>1. /\ tarea[h].paso = "libre" /\ cambio.probado /\ ~cambio.enCurso
      /\ cambio' = [cambio EXCEPT !.enCurso = TRUE]
      /\ tarea' = [tarea EXCEPT ![h] = x]
      /\ UNCHANGED <<externo, srv, perfil, enlace, averias, viejas, perdidas, olvidadas>>
    BY DEF tomar
<1>2. cambio \in Cambio \ {SinCambio} /\ cambio.token \in Tokens
    BY <1>1 DEF IInv, TypeOK, Cambio, SinCambio
<1>3. /\ cambio'.token = cambio.token /\ cambio'.anterior = cambio.anterior
      /\ cambio'.nuevo = cambio.nuevo /\ cambio'.probado /\ cambio'.enCurso
      /\ cambio' # SinCambio
    BY <1>1, <1>2, NingunoAssumption DEF Cambio, SinCambio
<1>4. x.paso = p /\ x.cli /\ x.copia = cambio /\ x.guion = <<>>
    BY DEF TareaLibre
<1> HIDE DEF x
<1>5. /\ tarea'[h] = x /\ ordenes(h)' = {}
      /\ \A g \in Tareas : g # h => tarea'[g] = tarea[g] /\ ordenes(g)' = ordenes(g)
    BY <1>1, <1>4 DEF IInv, TypeOK, ordenes
<1>6. \A g \in Tareas : activa(tarea[g]) => tarea[g].copia.token # cambio.token
    BY <1>1 DEF IInv, InvEspera
<1>7. \A g \in Tareas : ~ocupa(g)
    BY <1>6 DEF IInv, InvOcupa
<1>8. \A g \in Tareas : g # h => copiaBien(g)' /\ ~ocupa(g)'
    BY <1>3, <1>5, <1>6, <1>7, CopiaAjena
<1>9. InvCopia'
  <2>1. ~probando(h)'
      BY <1>4, <1>5 DEF probando
  <2>2. copiaBien(h)'
      BY <1>1, <1>4, <1>5, <2>1 DEF copiaBien
  <2>. QED
      BY <1>8, <2>2 DEF InvCopia
<1>10. InvClaves'
  <2>1. ClavesDeFlujo'
    <3>1. tarea[h].paso = "libre"
        BY <1>1
    <3>. QED
        BY <1>1, <1>3, <1>5 DEF IInv2, InvClaves, ClavesDeFlujo
  <2>2. ASSUME averias = 0, NEW g \in Tareas PROVE clavesBien(g)'
    <3>1. CASE g = h
        BY <1>1, <1>4, <1>5, <2>2, <3>1 DEF IInv2, InvClaves, clavesBien
    <3>2. CASE g # h
        BY <1>1, <1>3, <1>5, <2>2, <3>2 DEF IInv2, InvClaves, clavesBien
    <3>. QED
        BY <3>1, <3>2
  <2>. QED
      BY <1>1, <1>3, <2>1, <2>2 DEF IInv2, InvClaves
<1>11. InvPerfil'
  <2> SUFFICES ASSUME SinDisparos, viejas = {}, perdidas = {}
               PROVE  InvPuertos' /\ (Cortado' \/ Normal')
      BY <1>1 DEF InvPerfil, SinDisparos
  <2>1. InvPuertos /\ (Cortado \/ Normal)
      BY DEF IInv2, InvPerfil
  <2>2. \A g \in Tareas : ~borra(g) /\ ~borra(g)'
    <3>1. ~borra(h)'
        BY <1>5 DEF borra
    <3>. QED
        BY <1>7, <1>8, <3>1 DEF borra, ocupa
  <2>3. aMedias /\ aMedias'
      BY <1>2, <1>3, <2>2 DEF aMedias
  <2>4. PuertosPerfil'
      BY <1>1, <1>3, <2>1, <2>3 DEF InvPuertos, PuertosPerfil, externo
  <2>5. \A g \in Tareas : puertosBien(g)' /\ normalBien(g)'
    <3>1. puertosBien(h)' /\ normalBien(h)'
        BY <1>4, <1>5 DEF puertosBien, normalBien, borra
    <3>. QED
        BY <1>8, <1>9, <3>1, SinOcuparPrima DEF SinDueno
  <2>6. (Bien' <=> Bien) /\ (respaldada(cambio.token)' <=> respaldada(cambio.token))
      BY <1>1, <1>3 DEF Bien, respaldada, respalda
  <2>7. Cortado => Cortado'
      BY <1>1, <1>3 DEF Cortado, respaldada, respalda
  <2>8. Normal => Normal'
      BY <1>1, <1>3, <2>3, <2>5, <2>6 DEF Normal
  <2>. QED
      BY <2>1, <2>4, <2>5, <2>7, <2>8 DEF InvPuertos
<1>. QED
    BY <1>9, <1>10, <1>11 DEF IInv2

-----------------------------------------------------------------------------
(* The environment.                                                        *)

\* A timer that fires ends what is promised about the ports.
LEMMA AvanceDisparo ==
    ASSUME IInv, IInv', IInv2, NEW u \in Tokens, GuardiaDispara(u)
    PROVE  IInv2'
<1> DEFINE s == [srv EXCEPT !.guardia[u] = "disparada"]
<1>1. /\ srv.guardia[u] = "armada"
      /\ srv' \in {quitarClave(restaurar(s, u), u, "prueba"), restaurar(s, u)}
                  \cup restaurarFalla(s, u)
      /\ UNCHANGED <<externo, perfil, cambio, tarea, enlace, averias, viejas, perdidas, olvidadas>>
      /\ srv \in Servidor
    BY DEF GuardiaDispara, IInv, TypeOK
<1>2. s \in Servidor /\ s.guardia = [srv.guardia EXCEPT ![u] = "disparada"]
      /\ s.claves = srv.claves
    BY <1>1 DEF Servidor, Guardias
<1> HIDE DEF s
<1>3. /\ srv'.guardia = [srv.guardia EXCEPT ![u] = "disparada"]
      /\ srv'.claves \subseteq srv.claves
  <2>1. \A r \in {restaurar(s, u)} \cup restaurarFalla(s, u) :
           r \in Servidor /\ r.guardia = s.guardia /\ r.claves = s.claves
      BY <1>2, Restauraciones
  <2>. QED
      BY <1>1, <1>2, <2>1 DEF quitarClave, Servidor
<1>4. /\ srv'.guardia[u] = "disparada"
      /\ \A v \in Tokens : v # u => srv'.guardia[v] = srv.guardia[v]
      /\ ~SinDisparos'
    BY <1>1, <1>3 DEF Servidor, SinDisparos
<1>5. \A g \in Tareas : /\ ordenes(g)' = ordenes(g)
                        /\ probando(g)' <=> probando(g)
                        /\ decidiendo(g)' <=> decidiendo(g)
    BY <1>1 DEF ordenes, probando, decidiendo, borra
<1>6. InvCopia'
  <2> SUFFICES ASSUME NEW g \in Tareas PROVE copiaBien(g)'
      BY DEF InvCopia
  <2>1. copiaBien(g)
      BY DEF IInv2, InvCopia
  <2>2. probando(g) => activa(tarea[g])
      BY DEF probando, IInv, InvForma, forma, activa, ordenes
  <2>3. probando(g) => srv'.guardia[tarea[g].copia.token] = "sin"
    <3>1. probando(g) => /\ tarea[g].copia.token \in Tokens
                         /\ srv.guardia[tarea[g].copia.token] = "sin"
        BY <2>1, <2>2 DEF copiaBien, IInv, InvForma, forma
    <3>. QED
        BY <1>1, <1>4, <3>1
  <2>. QED
      BY <1>1, <1>5, <2>1, <2>3 DEF copiaBien
<1>7. InvClaves'
  <2>1. \A k \in srv.claves : k[1] \in Tokens
      BY <1>1 DEF Servidor
  <2>2. \A k \in srv'.claves : srv'.guardia[k[1]] # "nueva"
      BY <1>3, <1>4, <2>1 DEF IInv2, InvClaves
  <2>3. ClavesDeFlujo'
      BY <1>1, <1>3 DEF IInv2, InvClaves, ClavesDeFlujo
  <2>4. ASSUME averias = 0, NEW g \in Tareas PROVE clavesBien(g)'
      BY <1>1, <1>3, <1>5, <2>4 DEF IInv2, InvClaves, clavesBien, activa
  <2>. QED
      BY <1>1, <1>3, <2>2, <2>3, <2>4 DEF IInv2, InvClaves
<1>. QED
    BY <1>4, <1>6, <1>7 DEF IInv2, InvPerfil

\* Neither the handlers nor the server move.
LEMMA AvanceExterno ==
    ASSUME IInv, IInv2,
           UNCHANGED <<entorno, srv, perfil, cambio, tarea, viejas, perdidas, olvidadas>>,
           averias' = averias \/ (averias \in Nat /\ averias' = averias + 1),
           \/ bloqueados' = bloqueados
           \/ /\ \A h \in Tareas : tarea[h].paso # "guardar"
              /\ \E p \in Puertos : p # perfil /\ bloqueados' = bloqueados \cup {p}
    PROVE  IInv2'
<1>1. \A g \in Tareas : /\ ordenes(g)' = ordenes(g)
                        /\ borra(g)' <=> borra(g)
                        /\ probando(g)' <=> probando(g)
                        /\ decidiendo(g)' <=> decidiendo(g)
    BY DEF ordenes, probando, decidiendo, borra
<1>2. averias' = 0 => averias = 0
    OBVIOUS
<1>3. averias > 0 => averias' > 0
    OBVIOUS
<1>4. InvCopia'
  <2> SUFFICES ASSUME NEW g \in Tareas PROVE copiaBien(g)'
      BY DEF InvCopia
  <2>1. copiaBien(g)
      BY DEF IInv2, InvCopia
  <2>. QED
      BY <1>1, <2>1 DEF copiaBien
<1>5. InvClaves'
  <2>1. ASSUME averias' = 0, NEW g \in Tareas PROVE clavesBien(g)'
      BY <1>1, <1>2, <2>1 DEF IInv2, InvClaves, clavesBien, activa
  <2>2. ClavesDeFlujo'
      BY <1>2 DEF IInv2, InvClaves, ClavesDeFlujo
  <2>. QED
      BY <1>2, <2>1, <2>2 DEF IInv2, InvClaves
<1>6. InvPerfil'
  <2> SUFFICES ASSUME SinDisparos, viejas = {}, perdidas = {}
               PROVE  InvPuertos' /\ (Cortado' \/ Normal')
      BY DEF InvPerfil, SinDisparos
  <2>1. InvPuertos /\ (Cortado \/ Normal)
      BY DEF IInv2, InvPerfil
  <2>2. aMedias' <=> aMedias
      BY <1>1 DEF aMedias
  <2>3. PuertosPerfil'
      BY <2>1, <2>2 DEF InvPuertos, PuertosPerfil
  <2>4. ASSUME NEW g \in Tareas PROVE puertosBien(g)'
    <3>1. tarea[g].paso = "guardar" => alcanzable(tarea[g].copia.nuevo)'
        BY <2>1 DEF InvPuertos, puertosBien, alcanzable
    <3>. QED
        BY <1>1, <2>1, <3>1 DEF InvPuertos, puertosBien
  <2>5. (Bien' <=> Bien) /\ \A u \in Tokens : respaldada(u)' <=> respaldada(u)
      BY DEF Bien, respaldada, respalda
  <2>6. Cortado => Cortado'
      BY <1>3, <2>5 DEF Cortado
  <2>7. ASSUME Normal PROVE Normal'
    <3>1. \A g \in Tareas : normalBien(g)'
        BY <1>1, <2>7 DEF Normal, normalBien, Bien, respaldada, respalda
    <3>. QED
        BY <2>2, <2>7, <3>1 DEF Normal, Bien, respaldada, respalda
  <2>. QED
      BY <2>1, <2>3, <2>4, <2>6, <2>7 DEF InvPuertos
<1>. QED
    BY <1>4, <1>5, <1>6 DEF IInv2

\* The link falls: what has no link yet cannot reach the server any more.
LEMMA AvanceCaida ==
    ASSUME IInv, IInv', IInv2, CaerEnlace
    PROVE  IInv2'
<1>1. /\ UNCHANGED <<externo, srv, perfil, cambio, viejas, perdidas, olvidadas>>
      /\ \A g \in Tareas : tarea'[g] = [tarea[g] EXCEPT !.cli = FALSE]
    BY DEF CaerEnlace
<1>2. averias' > 0 /\ averias' # 0
  <2>1. averias \in Nat
      BY AveriasAssumption DEF IInv, TypeOK
  <2>. QED
      BY <2>1 DEF CaerEnlace
<1>3. \A g \in Tareas : /\ tarea'[g].paso = tarea[g].paso
                        /\ tarea'[g].copia = tarea[g].copia
                        /\ tarea'[g].guion = tarea[g].guion
                        /\ ~tarea'[g].cli
    BY <1>1 DEF IInv, TypeOK
<1>4. \A g \in Tareas : /\ ordenes(g)' = ordenes(g)
                        /\ borra(g)' <=> borra(g)
                        /\ probando(g)' <=> probando(g)
                        /\ decidiendo(g)' <=> decidiendo(g)
    BY <1>1, <1>3 DEF ordenes, probando, decidiendo, borra
<1>5. InvCopia'
  <2> SUFFICES ASSUME NEW g \in Tareas PROVE copiaBien(g)'
      BY DEF InvCopia
  <2>1. copiaBien(g)
      BY DEF IInv2, InvCopia
  <2>. QED
      BY <1>1, <1>3, <1>4, <2>1 DEF copiaBien
<1>6. InvClaves'
    BY <1>1, <1>2 DEF IInv2, InvClaves, ClavesDeFlujo
<1>7. InvPerfil'
  <2> SUFFICES ASSUME SinDisparos, viejas = {}, perdidas = {}
               PROVE  InvPuertos' /\ (Cortado' \/ Normal')
      BY <1>1 DEF InvPerfil, SinDisparos
  <2>1. InvPuertos /\ (Cortado \/ Normal)
      BY DEF IInv2, InvPerfil
  <2>2. aMedias' <=> aMedias
      BY <1>1, <1>4 DEF aMedias
  <2>3. PuertosPerfil'
      BY <1>1, <2>1, <2>2 DEF InvPuertos, PuertosPerfil, externo
  <2>4. \A g \in Tareas : puertosBien(g)'
    <3> SUFFICES ASSUME NEW g \in Tareas PROVE puertosBien(g)'
        OBVIOUS
    <3>1. puertosBien(g)
        BY <2>1 DEF InvPuertos
    <3>2. alcanzable(tarea[g].copia.nuevo) => alcanzable(tarea[g].copia.nuevo)'
        BY <1>1, <1>3 DEF alcanzable, externo
    <3>. QED
        BY <1>1, <1>3, <1>4, <3>1, <3>2 DEF puertosBien
  <2>5. (Bien' <=> Bien) /\ \A u \in Tokens : respaldada(u)' <=> respaldada(u)
      BY <1>1 DEF Bien, respaldada, respalda
  <2>6. Cortado => Cortado'
      BY <1>1, <1>2, <2>5 DEF Cortado
  <2>7. ASSUME Normal PROVE Normal'
    <3>1. ASSUME NEW g \in Tareas PROVE normalBien(g)'
      <4>1. normalBien(g)
          BY <2>7 DEF Normal
      <4>2. respaldada(tarea[g].copia.token) => respaldada(tarea[g].copia.token)'
          BY <1>1, <1>3 DEF respaldada, respalda
      <4>. QED
          BY <1>3, <1>4, <2>5, <4>1, <4>2 DEF normalBien
    <3>2. respaldada(cambio.token) => respaldada(cambio.token)'
        BY <1>1 DEF respaldada, respalda
    <3>. QED
        BY <1>1, <2>2, <2>5, <2>7, <3>1, <3>2 DEF Normal
  <2>. QED
      BY <2>1, <2>3, <2>4, <2>6, <2>7 DEF InvPuertos
<1>. QED
    BY <1>5, <1>6, <1>7 DEF IInv2

\* The program dies: a stage it forgets leaves its backup on the server.
LEMMA AvanceMuerte ==
    ASSUME IInv, IInv', IInv2, Morir
    PROVE  IInv2'
<1>1. /\ UNCHANGED <<externo, srv, perfil, viejas, perdidas, olvidadas>> /\ cambio' = SinCambio
      /\ \A g \in Tareas : tarea'[g] = TareaLibre
    BY DEF Morir
<1>2. averias' > 0 /\ averias' # 0
  <2>1. averias \in Nat
      BY AveriasAssumption DEF IInv, TypeOK
  <2>. QED
      BY <2>1 DEF Morir
<1>3. \A g \in Tareas : tarea'[g].paso = "libre" /\ ordenes(g)' = {}
    BY <1>1 DEF ordenes, TareaLibre
<1>4. InvCopia'
    BY <1>3 DEF InvCopia, copiaBien, probando, decidiendo, borra
<1>5. InvClaves'
    BY <1>1, <1>2 DEF IInv2, InvClaves, ClavesDeFlujo
<1>6. InvPerfil'
  <2> SUFFICES ASSUME SinDisparos, viejas = {}, perdidas = {}
               PROVE  InvPuertos' /\ (Cortado' \/ Normal')
      BY <1>1 DEF InvPerfil, SinDisparos
  <2>1. InvPuertos /\ (Cortado \/ Normal)
      BY DEF IInv2, InvPerfil
  <2>2. ~aMedias'
      BY <1>1 DEF aMedias
  <2>3. PuertosPerfil'
      BY <1>1, <2>1, <2>2 DEF InvPuertos, PuertosPerfil, externo
  <2>4. \A g \in Tareas : puertosBien(g)' /\ normalBien(g)'
      BY <1>3 DEF puertosBien, normalBien, borra
  <2>5. (Bien' <=> Bien) /\ \A u \in Tokens : respaldada(u)' <=> respaldada(u)
      BY <1>1 DEF Bien, respaldada, respalda
  <2>6. cambio'.token = Ninguno /\ ~cambio'.probado
      BY <1>1 DEF SinCambio
  <2>7. ASSUME NEW u \in Tokens, respaldada(u), srv.guardia[u] # "sin" PROVE Cortado'
      BY <1>1, <1>2, <2>5, <2>6, <2>7, NingunoAssumption DEF Cortado
  <2>8. CASE Cortado
      BY <2>1, <2>3, <2>4, <2>7, <2>8 DEF Cortado, InvPuertos
  <2>9. CASE Normal
    <3>1. CASE Bien
        BY <2>2, <2>3, <2>4, <2>5, <3>1 DEF InvPuertos, Normal
    <3>2. CASE cambio.probado /\ respaldada(cambio.token)
      <4>1. cambio.token \in Tokens
          BY <3>2 DEF IInv, TypeOK, Cambio, SinCambio
      <4>2. srv.guardia[cambio.token] # "sin"
          BY <3>2 DEF IInv, InvEspera
      <4>. QED
          BY <2>3, <2>4, <2>7, <3>2, <4>1, <4>2 DEF InvPuertos
    <3>. QED
        BY <2>9, <3>1, <3>2 DEF Normal
  <2>. QED
      BY <2>1, <2>8, <2>9
<1>. QED
    BY <1>4, <1>5, <1>6 DEF IInv2

-----------------------------------------------------------------------------
(* The commands whose errors are ignored.                                  *)

\* What the next command of a list says of the rest.
LEMMA Siguiente ==
    ASSUME NEW g \in Seq(Ordenes), guionValido(g), guionOrdenado(g)
    PROVE  /\ Head(g) \in enLista(g) /\ Head(g) \in Ordenes
           /\ Len(g) = 1 => enLista(g) = {Head(g)} /\ Head(g) \in {"soltar", "liberar"}
           /\ Len(g) # 1 => Head(g) \notin {"soltar", "liberar"}
           /\ "restaurar" \in enLista(g) => Head(g) = "restaurar"
           /\ Head(g) = "borrar" => enLista(Tail(g)) \cap {"soltar", "borrar"} = {}
           /\ Head(g) \in {"cerrarAnterior", "parar", "borrarRespaldo"}
                 => "borrar" \in enLista(Tail(g))
<1>1. Len(g) \in Nat /\ Len(g) >= 1 /\ DOMAIN g = 1..Len(g) /\ Head(g) = g[1]
  <2>1. g # <<>>
      BY DEF guionValido
  <2>2. Len(g) \in Nat \ {0}
      BY <2>1, EmptySeq
  <2>. QED
      BY <2>1, <2>2, LenProperties
<1>2. 1 \in 1..Len(g)
    BY <1>1
<1>3. Head(g) \in enLista(g) /\ Head(g) \in Ordenes
    BY <1>1, <1>2 DEF enLista
<1>4. "restaurar" \in enLista(g) => Head(g) = "restaurar"
    BY <1>1 DEF enLista, guionOrdenado
<1>5. CASE Len(g) = 1
  <2>1. DOMAIN g = {1}
      BY <1>1, <1>5
  <2>2. enLista(g) = {Head(g)}
      BY <1>1, <2>1 DEF enLista
  <2>3. Head(g) \in {"soltar", "liberar"}
      BY <1>1, <1>5 DEF guionOrdenado
  <2>. QED
      BY <1>3, <1>4, <1>5, <2>2, <2>3
<1>6. CASE Len(g) # 1
  <2>1. /\ Tail(g) \in Seq(Ordenes)
        /\ \A i \in 1..Len(Tail(g)) : i + 1 \in 1..Len(g) /\ Tail(g)[i] = g[i + 1]
      BY <1>6, Resto
  <2>2. Head(g) \notin {"soltar", "liberar"}
      BY <1>1, <1>2, <1>6 DEF guionValido
  <2>3. enLista(g) = {Head(g)} \cup enLista(Tail(g))
      BY <1>6, RestoOrdenado
  <2>4. ASSUME Head(g) = "borrar", NEW o \in enLista(Tail(g)), o \in {"soltar", "borrar"}
        PROVE  FALSE
    <3>1. PICK i \in 1..Len(Tail(g)) : Tail(g)[i] = o
        BY <2>1, LenProperties DEF enLista
    <3>2. i + 1 \in 1..Len(g) /\ g[i + 1] = o
        BY <2>1, <3>1
    <3>3. i + 1 = 1
        BY <1>1, <1>2, <2>4, <3>2 DEF guionValido
    <3>. QED
        BY <3>1, <3>3
  <2>5. Head(g) \in {"cerrarAnterior", "parar", "borrarRespaldo"}
           => "borrar" \in enLista(Tail(g))
    <3> SUFFICES ASSUME Head(g) \in {"cerrarAnterior", "parar", "borrarRespaldo"}
                 PROVE  "borrar" \in enLista(Tail(g))
        OBVIOUS
    <3>1. \E j \in 1..Len(g) : g[j] = "borrar"
        BY <1>1, <1>2 DEF guionOrdenado
    <3>2. "borrar" \in enLista(g)
        BY <1>1, <3>1 DEF enLista
    <3>. QED
        BY <2>3, <3>2
  <2>. QED
      BY <1>3, <1>4, <1>6, <2>2, <2>4, <2>5
<1>. QED
    BY <1>5, <1>6

\* A handler with a list, and what is left of it after a command.
LEMMA GuionDe ==
    ASSUME IInv, IInv2, NEW h \in Tareas, Guion(h)
    PROVE  LET c == tarea[h].copia
               op == Head(tarea[h].guion)
           IN  /\ tarea[h].paso = "guion" /\ activa(tarea[h])
               /\ c \in Cambio /\ c.token \in Tokens
               /\ op \in Ordenes
               /\ ordenes(h) = {op} \cup ordenes(h)'
               /\ ocupa(h)' => ocupa(h)
               /\ "restaurar" \notin ordenes(h)'
               /\ "restaurar" \in ordenes(h) => op = "restaurar"
               /\ op = "borrar" => ordenes(h)' \cap {"soltar", "borrar"} = {}
               /\ op \in {"cerrarAnterior", "parar", "borrarRespaldo"} => borra(h)'
               /\ op \in {"soltar", "borrar"} => ocupa(h)
               /\ \/ /\ op \in {"soltar", "liberar"}
                     /\ tarea'[h].paso = "libre" /\ ordenes(h)' = {}
                  \/ /\ op \notin {"soltar", "liberar"}
                     /\ tarea'[h].paso = "guion" /\ tarea'[h].copia = c
                     /\ tarea'[h].cli = tarea[h].cli
                     /\ guionOrdenado(tarea'[h].guion)
               /\ \A g \in Tareas : g # h => tarea'[g] = tarea[g] /\ ordenes(g)' = ordenes(g)
<1> DEFINE c == tarea[h].copia
           g == tarea[h].guion
           op == Head(g)
<1>1. tarea[h].paso = "guion" /\ activa(tarea[h])
    BY DEF Guion, activa
<1>2. c \in Cambio /\ c.token \in Tokens
    BY <1>1, CopiaActiva
<1>3. g \in Seq(Ordenes) /\ guionValido(g) /\ guionOrdenado(g)
    BY <1>1 DEF IInv, TypeOK, InvForma, forma, IInv2, InvCopia, copiaBien
<1>4. ordenes(h) = enLista(g)
    BY DEF ordenes, enLista
<1>5. /\ op \in enLista(g) /\ op \in Ordenes
      /\ Len(g) = 1 => enLista(g) = {op} /\ op \in {"soltar", "liberar"}
      /\ Len(g) # 1 => op \notin {"soltar", "liberar"}
      /\ "restaurar" \in enLista(g) => op = "restaurar"
      /\ op = "borrar" => enLista(Tail(g)) \cap {"soltar", "borrar"} = {}
      /\ op \in {"cerrarAnterior", "parar", "borrarRespaldo"} => "borrar" \in enLista(Tail(g))
    BY <1>3, Siguiente
<1>6. op \in {"soltar", "borrar"} => ocupa(h)
    BY <1>4, <1>5 DEF ocupa
<1>7. \A r \in Tareas : r # h => tarea'[r] = tarea[r] /\ ordenes(r)' = ordenes(r)
    BY DEF Guion, IInv, TypeOK, ordenes
<1>8. CASE Len(g) = 1
  <2>1. tarea'[h].paso = "libre" /\ ordenes(h)' = {}
      BY <1>8 DEF Guion, IInv, TypeOK, TareaLibre, ordenes
  <2>2. ~ocupa(h)'
      BY <2>1 DEF ocupa
  <2>. QED
      BY <1>1, <1>2, <1>4, <1>5, <1>6, <1>7, <1>8, <2>1, <2>2
<1>9. CASE Len(g) # 1
  <2>1. /\ guionOrdenado(Tail(g)) /\ enLista(g) = {op} \cup enLista(Tail(g))
        /\ "restaurar" \notin enLista(Tail(g))
      BY <1>3, <1>9, RestoOrdenado
  <2>2. /\ tarea'[h].paso = "guion" /\ tarea'[h].copia = c /\ tarea'[h].cli = tarea[h].cli
        /\ tarea'[h].guion = Tail(g)
      BY <1>1, <1>9 DEF Guion, IInv, TypeOK
  <2>3. ordenes(h)' = enLista(Tail(g))
      BY <2>2 DEF ordenes, enLista
  <2>4. ocupa(h)' => ocupa(h)
      BY <1>4, <2>1, <2>2, <2>3 DEF ocupa
  <2>5. op \in {"cerrarAnterior", "parar", "borrarRespaldo"} => borra(h)'
      BY <1>5, <2>3 DEF borra
  <2>. QED
      BY <1>1, <1>2, <1>4, <1>5, <1>6, <1>7, <1>9, <2>1, <2>2, <2>3, <2>4, <2>5
<1>. QED
    BY <1>8, <1>9

\* What a command of a change c does to each part of the server.
LEMMA EfectoDe ==
    ASSUME NEW s \in Servidor, NEW c \in Cambio, c.token \in Tokens, NEW op \in Ordenes
    PROVE  LET r == efecto(s, op, c)
               t == c.token
           IN  /\ op = "restaurar" /\ s.respaldo[t] # Ninguno
                     => r.cfg = s.respaldo[t] /\ r.activo = s.respaldo[t]
               /\ op # "restaurar" => r.cfg = s.cfg /\ r.activo = s.activo
               /\ op \notin {"cerrarNuevo", "cerrarAnterior"} => r.abiertos = s.abiertos
               /\ op = "cerrarNuevo" => r.abiertos = s.abiertos \ {c.nuevo}
               /\ op = "cerrarAnterior" => r.abiertos = s.abiertos \ {c.anterior}
               /\ op # "borrarRespaldo" => r.respaldo = s.respaldo
               /\ op # "parar" => r.guardia = s.guardia
               /\ \A u \in Tokens : /\ u # t => r.respaldo[u] = s.respaldo[u]
                                    /\ u # t => r.guardia[u] = s.guardia[u]
                                    /\ r.guardia[u] = s.guardia[u]
                                       \/ (s.guardia[u] = "armada" /\ r.guardia[u] = "parada")
               /\ r.claves \subseteq s.claves
               /\ s.claves \ {<<t, "prueba">>, <<t, "final">>} \subseteq r.claves
               /\ op = "quitarClave" => <<t, "prueba">> \notin r.claves
               /\ op = "quitarFinal" => <<t, "final">> \notin r.claves
<1> DEFINE t == c.token
<1>1. CASE op = "restaurar"
    BY <1>1 DEF efecto, restaurar, configurar, Servidor
<1>2. CASE op = "cerrarNuevo"
    BY <1>2 DEF efecto, cerrarPuerto, Servidor
<1>3. CASE op = "cerrarAnterior"
    BY <1>3 DEF efecto, cerrarPuerto, Servidor
<1>4. CASE op = "parar"
    BY <1>4 DEF efecto, pararGuardia, Servidor
<1>5. CASE op = "quitarClave"
    BY <1>5 DEF efecto, quitarClave, Servidor
<1>6. CASE op = "quitarFinal"
    BY <1>6 DEF efecto, quitarClave, Servidor
<1>7. CASE op = "borrarRespaldo"
    BY <1>7 DEF efecto, Servidor
<1>8. CASE op \in {"soltar", "borrar", "liberar"}
    BY <1>8 DEF efecto
<1>. QED
    BY <1>1, <1>2, <1>3, <1>4, <1>5, <1>6, <1>7, <1>8 DEF Ordenes

\* What a command of a list does, to the entry and to the server.
LEMMA OrdenDe ==
    ASSUME IInv, IInv2, NEW h \in Tareas, Guion(h)
    PROVE  LET c == tarea[h].copia
               op == Head(tarea[h].guion)
               t == c.token
           IN  /\ \/ cambio' = cambio /\ op \notin {"soltar", "borrar"}
                  \/ /\ op = "liberar" /\ cambio.token = t
                     /\ cambio' = [cambio EXCEPT !.enCurso = FALSE]
                     /\ cambio'.token = t /\ cambio'.probado = cambio.probado
                     /\ cambio'.anterior = cambio.anterior /\ cambio'.nuevo = cambio.nuevo
                  \/ op \in {"soltar", "borrar"} /\ cambio.token = t /\ cambio' = SinCambio
               /\ ~tarea[h].cli \/ op \in {"soltar", "borrar", "liberar"}
                     => srv' = srv /\ UNCHANGED <<perdidas, olvidadas>>
               /\ tarea[h].cli /\ op = "restaurar" /\ srv.respaldo[t] # Ninguno
                     => \/ srv'.activo = srv.respaldo[t]
                        \/ srv'.activo = srv.activo /\ (borra(h) => perdidas' # {})
               /\ op # "restaurar" => srv'.cfg = srv.cfg /\ srv'.activo = srv.activo
               /\ \A p : p \in srv.abiertos /\ p \notin srv'.abiertos =>
                     \/ op = "cerrarNuevo" /\ p = c.nuevo
                     \/ op = "cerrarAnterior" /\ p = c.anterior
               /\ op # "borrarRespaldo" => srv'.respaldo = srv.respaldo
               /\ op # "parar" => srv'.guardia = srv.guardia
               /\ op \notin {"restaurar", "cerrarNuevo", "cerrarAnterior", "parar",
                             "borrarRespaldo"} => srv'.abiertos = srv.abiertos
               /\ \A u \in Tokens : /\ u # t => srv'.respaldo[u] = srv.respaldo[u]
                                    /\ u # t => srv'.guardia[u] = srv.guardia[u]
                                    /\ srv'.guardia[u] = srv.guardia[u]
                                       \/ (srv.guardia[u] = "armada" /\ srv'.guardia[u] = "parada")
               /\ srv'.claves \subseteq srv.claves
               /\ srv.claves \ {<<t, "prueba">>, <<t, "final">>} \subseteq srv'.claves
               /\ tarea[h].cli /\ op = "quitarClave"
                     => <<t, "prueba">> \notin srv'.claves \ olvidadas'
               /\ tarea[h].cli /\ op = "quitarFinal"
                     => <<t, "final">> \notin srv'.claves \ olvidadas'
               /\ olvidadas \subseteq olvidadas' /\ perdidas \subseteq perdidas'
               /\ UNCHANGED <<externo, perfil, enlace, averias, viejas>>
<1> DEFINE c == tarea[h].copia
           op == Head(tarea[h].guion)
           t == c.token
<1>1. /\ c \in Cambio /\ t \in Tokens /\ op \in Ordenes /\ srv \in Servidor
      /\ op \in {"soltar", "borrar"} => ocupa(h)
    BY GuionDe DEF IInv, TypeOK
<1>2. op \in {"soltar", "borrar"} => cambio.token = t
    BY <1>1 DEF IInv, InvOcupa
<1>3. cambio.token = t => /\ cambio \in Cambio \ {SinCambio}
    BY <1>1, NingunoAssumption DEF IInv, TypeOK, SinCambio
<1>4. cambio.token = t =>
         LET e == [cambio EXCEPT !.enCurso = FALSE]
         IN  /\ e.token = t /\ e.probado = cambio.probado
             /\ e.anterior = cambio.anterior /\ e.nuevo = cambio.nuevo
    BY <1>3 DEF Cambio
<1>5. /\ cambio' = CASE op = "borrar" -> SinCambio
                     [] op = "soltar" /\ cambio.token = t -> SinCambio
                     [] op = "liberar" /\ cambio.token = t -> [cambio EXCEPT !.enCurso = FALSE]
                     [] OTHER -> cambio
      /\ \/ srv' = (IF tarea[h].cli THEN efecto(srv, op, c) ELSE srv)
            /\ UNCHANGED <<perdidas, olvidadas>>
         \/ ordenFalla(h, op, t)
      /\ UNCHANGED <<externo, perfil, enlace, averias, viejas>>
    BY DEF Guion
<1>6. /\ op = "borrar" => cambio' = SinCambio
      /\ op = "soltar" => cambio' = SinCambio
      /\ op = "liberar" /\ cambio.token = t => cambio' = [cambio EXCEPT !.enCurso = FALSE]
      /\ op \notin {"soltar", "borrar"} /\ ~(op = "liberar" /\ cambio.token = t)
            => cambio' = cambio
    BY <1>2, <1>5
<1>7. \/ cambio' = cambio /\ op \notin {"soltar", "borrar"}
      \/ /\ op = "liberar" /\ cambio.token = t
         /\ cambio' = [cambio EXCEPT !.enCurso = FALSE]
         /\ cambio'.token = t /\ cambio'.probado = cambio.probado
         /\ cambio'.anterior = cambio.anterior /\ cambio'.nuevo = cambio.nuevo
      \/ op \in {"soltar", "borrar"} /\ cambio.token = t /\ cambio' = SinCambio
  <2> HIDE DEF c, op, t
  <2>. QED
      BY <1>2, <1>4, <1>6
<1>8. op \in {"soltar", "borrar", "liberar"} => efecto(srv, op, c) = srv
    BY DEF efecto
<1>9. CASE ~tarea[h].cli \/ op \in {"soltar", "borrar", "liberar"}
  <2>1. /\ srv' = srv /\ UNCHANGED <<perdidas, olvidadas>>
        /\ tarea[h].cli => op \in {"soltar", "borrar", "liberar"}
      BY <1>5, <1>8, <1>9 DEF ordenFalla
  <2> HIDE DEF c, op, t
  <2>. QED
      BY <1>5, <1>7, <2>1 DEF c, op, t
<1>10. CASE /\ tarea[h].cli /\ op \notin {"soltar", "borrar", "liberar"}
            /\ ~ordenFalla(h, op, t)
  <2>1. srv' = efecto(srv, op, c) /\ UNCHANGED <<perdidas, olvidadas>>
      BY <1>5, <1>10
  <2>2. /\ op = "restaurar" /\ srv.respaldo[t] # Ninguno
              => srv'.cfg = srv.respaldo[t] /\ srv'.activo = srv.respaldo[t]
        /\ op # "restaurar" => srv'.cfg = srv.cfg /\ srv'.activo = srv.activo
        /\ op \notin {"cerrarNuevo", "cerrarAnterior"} => srv'.abiertos = srv.abiertos
        /\ op = "cerrarNuevo" => srv'.abiertos = srv.abiertos \ {c.nuevo}
        /\ op = "cerrarAnterior" => srv'.abiertos = srv.abiertos \ {c.anterior}
        /\ op # "borrarRespaldo" => srv'.respaldo = srv.respaldo
        /\ op # "parar" => srv'.guardia = srv.guardia
        /\ \A u \in Tokens : /\ u # t => srv'.respaldo[u] = srv.respaldo[u]
                             /\ u # t => srv'.guardia[u] = srv.guardia[u]
                             /\ srv'.guardia[u] = srv.guardia[u]
                                \/ (srv.guardia[u] = "armada" /\ srv'.guardia[u] = "parada")
        /\ srv'.claves \subseteq srv.claves
        /\ srv.claves \ {<<t, "prueba">>, <<t, "final">>} \subseteq srv'.claves
        /\ op = "quitarClave" => <<t, "prueba">> \notin srv'.claves
        /\ op = "quitarFinal" => <<t, "final">> \notin srv'.claves
    <3> HIDE DEF op
    <3>. QED
        BY <1>1, <2>1, EfectoDe
  <2>3. \A p : p \in srv.abiertos /\ p \notin srv'.abiertos =>
           \/ op = "cerrarNuevo" /\ p = c.nuevo
           \/ op = "cerrarAnterior" /\ p = c.anterior
    <3> HIDE DEF op, c
    <3>. QED
        BY <2>2
  <2> HIDE DEF op, c, t
  <2>. QED
      BY <1>5, <1>7, <1>10, <2>1, <2>2, <2>3 DEF op, c, t
<1>11. CASE ordenFalla(h, op, t)
  <2>1. /\ tarea[h].cli /\ op \notin {"soltar", "borrar", "liberar"}
        /\ op # "restaurar" => srv' = srv
        /\ op = "restaurar" => srv' \in restaurarFalla(srv, t)
        /\ op = "restaurar" /\ borra(h) => perdidas' # {}
        /\ perdidas \subseteq perdidas' /\ olvidadas \subseteq olvidadas'
        /\ op = "quitarClave" => <<t, "prueba">> \in olvidadas'
        /\ op = "quitarFinal" => <<t, "final">> \in olvidadas'
      BY <1>11 DEF ordenFalla, borra
  <2>2. /\ srv'.activo = srv.activo /\ srv'.abiertos = srv.abiertos
        /\ srv'.respaldo = srv.respaldo /\ srv'.guardia = srv.guardia
        /\ srv'.claves = srv.claves
        /\ op # "restaurar" => srv'.cfg = srv.cfg
    <3>1. CASE op = "restaurar"
        BY <1>1, <2>1, <3>1, Restauraciones
    <3>2. CASE op # "restaurar"
        BY <2>1, <3>2
    <3>. QED
        BY <3>1, <3>2
  <2> HIDE DEF op, c, t
  <2>. QED
      BY <1>5, <1>7, <2>1, <2>2 DEF op, c, t
<1>. QED
    BY <1>9, <1>10, <1>11

\* The handlers' copies after a command of h.
LEMMA GuionCopia ==
    ASSUME IInv, IInv', IInv2, NEW h \in Tareas, Guion(h)
    PROVE  InvCopia'
<1> DEFINE c == tarea[h].copia
           op == Head(tarea[h].guion)
           t == c.token
<1>1. /\ activa(tarea[h]) /\ t \in Tokens
      /\ ordenes(h) = {op} \cup ordenes(h)'
      /\ op = "borrar" => ordenes(h)' \cap {"soltar", "borrar"} = {}
      /\ op \in {"soltar", "borrar"} => ocupa(h)
      /\ \/ /\ op \in {"soltar", "liberar"} /\ tarea'[h].paso = "libre" /\ ordenes(h)' = {}
         \/ /\ op \notin {"soltar", "liberar"}
            /\ tarea'[h].paso = "guion" /\ tarea'[h].copia = c
            /\ guionOrdenado(tarea'[h].guion)
      /\ \A g \in Tareas : g # h => tarea'[g] = tarea[g] /\ ordenes(g)' = ordenes(g)
    BY GuionDe
<1>2. /\ \/ cambio' = cambio /\ op \notin {"soltar", "borrar"}
         \/ op = "liberar" /\ cambio.token = t /\ cambio'.token = t
         \/ op \in {"soltar", "borrar"} /\ cambio.token = t /\ cambio' = SinCambio
      /\ \A u \in Tokens : srv'.guardia[u] = srv.guardia[u]
                           \/ (srv.guardia[u] = "armada" /\ srv'.guardia[u] = "parada")
    BY OrdenDe
<1>3. \A g \in Tareas : g # h /\ activa(tarea[g]) =>
         tarea[g].copia.token # t /\ tarea[g].copia.token \in Tokens
    BY <1>1 DEF IInv, InvToken, InvForma, forma
<1> HIDE DEF c, op, t
<1> SUFFICES ASSUME NEW g \in Tareas PROVE copiaBien(g)'
    BY DEF InvCopia
<1>4. copiaBien(g)
    BY DEF IInv2, InvCopia
<1>5. CASE g = h
  <2>1. CASE tarea'[h].paso = "libre" /\ ordenes(h)' = {}
      BY <1>5, <2>1 DEF copiaBien, probando, decidiendo, borra
  <2>2. CASE /\ op \notin {"soltar", "liberar"}
             /\ tarea'[h].paso = "guion" /\ tarea'[h].copia = c
             /\ guionOrdenado(tarea'[h].guion)
    <3>1. probando(h)' => probando(h) /\ cambio' = cambio
        BY <1>1, <1>2, <2>2 DEF probando
    <3>2. decidiendo(h)' => cambio' = cambio
      <4>1. CASE op # "borrar"
          BY <1>2, <2>2, <4>1
      <4>2. CASE op = "borrar"
        <5>1. cambio' = SinCambio /\ ~borra(h)'
            BY <1>1, <1>2, <4>2 DEF borra
        <5>2. cambio'.token # t
            BY <1>1, <5>1, NingunoAssumption DEF SinCambio
        <5>. QED
            BY <2>2, <5>1, <5>2 DEF decidiendo, c, t
      <4>. QED
          BY <4>1, <4>2
    <3>3. decidiendo(h)' => decidiendo(h)
        BY <1>1, <2>2, <3>2 DEF decidiendo, borra, c
    <3>4. srv.guardia[t] = "sin" => srv'.guardia[t] = "sin"
        BY <1>1, <1>2
    <3>. QED
        BY <1>4, <1>5, <2>2, <3>1, <3>2, <3>3, <3>4 DEF copiaBien, c, t
  <2>. QED
      BY <1>1, <2>1, <2>2
<1>6. CASE g # h /\ ~ocupa(g)
  <2>1. cambio' = cambio \/ ~activa(tarea[g]) \/ cambio'.token # tarea[g].copia.token
      BY <1>2, <1>3, <1>6, NingunoAssumption DEF SinCambio
  <2>. QED
      BY <1>1, <1>6, <2>1, CopiaAjena
<1>7. CASE g # h /\ ocupa(g)
  <2>1. activa(tarea[g]) /\ cambio.token = tarea[g].copia.token
      BY <1>7 DEF IInv, InvOcupa
  <2>2. cambio' = cambio
      BY <1>2, <1>3, <1>7, <2>1
  <2>3. /\ probando(g)' <=> probando(g)
        /\ decidiendo(g)' <=> decidiendo(g)
      BY <1>1, <1>7, <2>2 DEF probando, decidiendo, borra
  <2>4. srv.guardia[tarea[g].copia.token] = "sin" => srv'.guardia[tarea[g].copia.token] = "sin"
      BY <1>2, <1>3, <1>7, <2>1
  <2>. QED
      BY <1>1, <1>4, <1>7, <2>2, <2>3, <2>4 DEF copiaBien
<1>. QED
    BY <1>5, <1>6, <1>7

\* The keys after a command of h: a list that ends has removed those of its test.
LEMMA GuionClaves ==
    ASSUME IInv, IInv', IInv2, NEW h \in Tareas, Guion(h)
    PROVE  InvClaves'
<1> DEFINE c == tarea[h].copia
           op == Head(tarea[h].guion)
           t == c.token
<1>1. /\ tarea[h].paso = "guion" /\ activa(tarea[h]) /\ t \in Tokens
      /\ ordenes(h) = {op} \cup ordenes(h)'
      /\ op = "borrar" => ordenes(h)' \cap {"soltar", "borrar"} = {}
      /\ \/ /\ op \in {"soltar", "liberar"} /\ tarea'[h].paso = "libre" /\ ordenes(h)' = {}
         \/ /\ op \notin {"soltar", "liberar"}
            /\ tarea'[h].paso = "guion" /\ tarea'[h].copia = c
            /\ tarea'[h].cli = tarea[h].cli
      /\ \A g \in Tareas : g # h => tarea'[g] = tarea[g] /\ ordenes(g)' = ordenes(g)
    BY GuionDe
<1>2. /\ \/ cambio' = cambio /\ op \notin {"soltar", "borrar"}
         \/ op = "liberar" /\ cambio.token = t /\ cambio'.token = t
         \/ op \in {"soltar", "borrar"} /\ cambio.token = t /\ cambio' = SinCambio
      /\ \A u \in Tokens : srv'.guardia[u] = srv.guardia[u]
                           \/ (srv.guardia[u] = "armada" /\ srv'.guardia[u] = "parada")
      /\ srv'.claves \subseteq srv.claves
      /\ tarea[h].cli /\ op = "quitarClave"
            => <<t, "prueba">> \notin srv'.claves \ olvidadas'
      /\ tarea[h].cli /\ op = "quitarFinal"
            => <<t, "final">> \notin srv'.claves \ olvidadas'
      /\ olvidadas \subseteq olvidadas'
      /\ UNCHANGED averias
    BY OrdenDe
<1>3. \A g \in Tareas : g # h /\ activa(tarea[g]) => tarea[g].copia.token # t
    BY <1>1 DEF IInv, InvToken
<1>4. ASSUME averias = 0
      PROVE  /\ tarea[h].cli
             /\ <<t, "final">> \in srv.claves \ olvidadas =>
                   "quitarFinal" \in ordenes(h)
             /\ <<t, "prueba">> \in srv.claves \ olvidadas =>
                   \/ "quitarClave" \in ordenes(h)
                   \/ cambio.token = t /\ ordenes(h) \cap {"soltar", "borrar"} = {}
    BY <1>1, <1>4 DEF IInv2, InvClaves, clavesBien
<1>5. \A k \in srv.claves : k[1] \in Tokens /\ k = <<k[1], k[2]>> /\ k[2] \in Clases
    BY DEF IInv, TypeOK, Servidor
<1> HIDE DEF c, op, t
<1>6. \A k \in srv'.claves : srv'.guardia[k[1]] # "nueva"
  <2> SUFFICES ASSUME NEW k \in srv'.claves PROVE srv'.guardia[k[1]] # "nueva"
      OBVIOUS
  <2>1. k \in srv.claves /\ k[1] \in Tokens /\ srv.guardia[k[1]] # "nueva"
      BY <1>2, <1>5 DEF IInv2, InvClaves
  <2>. QED
      BY <1>2, <2>1
<1>7. ASSUME averias = 0, NEW k \in srv'.claves \ olvidadas'
      PROVE  \/ cambio'.token = k[1]
             \/ \E g \in Tareas : tarea'[g].paso # "libre" /\ tarea'[g].copia.token = k[1]
  <2>1. /\ k \in srv.claves \ olvidadas
        /\ k = <<k[1], k[2]>> /\ k[2] \in {"prueba", "final"}
      BY <1>2, <1>5, <1>7 DEF Clases
  <2>2. CASE k[1] # t
    <3>1. \/ cambio.token = k[1]
          \/ \E g \in Tareas : tarea[g].paso # "libre" /\ tarea[g].copia.token = k[1]
        BY <1>7, <2>1 DEF IInv2, InvClaves, ClavesDeFlujo
    <3>2. CASE cambio.token = k[1]
        BY <1>2, <2>2, <3>2
    <3>3. CASE \E g \in Tareas : tarea[g].paso # "libre" /\ tarea[g].copia.token = k[1]
        BY <1>1, <2>2, <3>3 DEF c, t
    <3>. QED
        BY <3>1, <3>2, <3>3
  <2>3. CASE k[1] = t /\ tarea'[h].paso = "guion" /\ tarea'[h].copia = c
      BY <2>3 DEF t
  <2>4. CASE k[1] = t /\ op \in {"soltar", "liberar"} /\ ordenes(h)' = {}
    <3>1. ordenes(h) = {op}
        BY <1>1, <2>4
    <3>2. k = <<t, "prueba">> \/ k = <<t, "final">>
        BY <2>1, <2>4
    <3>3. cambio.token = t /\ op = "liberar"
        BY <1>4, <1>7, <2>1, <2>4, <3>1, <3>2
    <3>. QED
        BY <1>2, <2>4, <3>3
  <2>. QED
      BY <1>1, <2>2, <2>3, <2>4
<1>8. ASSUME averias = 0, cambio'.probado, ~cambio'.enCurso
      PROVE  <<cambio'.token, "final">> \notin srv'.claves \ olvidadas'
  <2>1. CASE cambio' = cambio
      BY <1>2, <1>8, <2>1 DEF IInv2, InvClaves
  <2>2. CASE op = "liberar" /\ cambio'.token = t
    <3>1. ordenes(h) = {"liberar"}
        BY <1>1, <2>2
    <3>. QED
        BY <1>2, <1>4, <1>8, <2>2, <3>1
  <2>3. CASE cambio' = SinCambio
      BY <1>8, <2>3 DEF SinCambio
  <2>. QED
      BY <1>2, <2>1, <2>2, <2>3
<1>9. ASSUME averias = 0, NEW g \in Tareas
      PROVE  clavesBien(g)'
  <2>1. CASE g # h
    <3>1. clavesBien(g)
        BY <1>9 DEF IInv2, InvClaves
    <3>2. activa(tarea[g]) /\ cambio.token = tarea[g].copia.token => cambio' = cambio
        BY <1>2, <1>3, <2>1
    <3>. QED
        BY <1>1, <1>2, <2>1, <3>1, <3>2 DEF clavesBien, activa
  <2>2. CASE g = h /\ tarea'[h].paso = "libre"
      BY <2>2 DEF clavesBien, activa
  <2>3. CASE /\ g = h /\ op \notin {"soltar", "liberar"}
             /\ tarea'[h].paso = "guion" /\ tarea'[h].copia = c
             /\ tarea'[h].cli = tarea[h].cli
    <3>1. tarea'[h].cli
        BY <1>4, <1>9, <2>3
    <3>2. <<t, "final">> \in srv'.claves \ olvidadas' => "quitarFinal" \in ordenes(h)'
        BY <1>1, <1>2, <1>4, <1>9
    <3>3. <<t, "prueba">> \in srv'.claves \ olvidadas' =>
             \/ "quitarClave" \in ordenes(h)'
             \/ cambio'.token = t /\ ordenes(h)' \cap {"soltar", "borrar"} = {}
        BY <1>1, <1>2, <1>4, <1>9, <2>3
    <3>. QED
        BY <2>3, <3>1, <3>2, <3>3 DEF clavesBien, t
  <2>. QED
      BY <1>1, <2>1, <2>2, <2>3
<1>. QED
    BY <1>2, <1>6, <1>7, <1>8, <1>9 DEF InvClaves, ClavesDeFlujo

\* Where the port of the profile is after a command of h.
LEMMA GuionPerfil ==
    ASSUME IInv, IInv', IInv2, InvCopia', NEW h \in Tareas, Guion(h)
    PROVE  InvPerfil'
<1> DEFINE c == tarea[h].copia
           op == Head(tarea[h].guion)
           t == c.token
<1>1. /\ tarea[h].paso = "guion" /\ activa(tarea[h]) /\ t \in Tokens
      /\ op \in Ordenes
      /\ ordenes(h) = {op} \cup ordenes(h)'
      /\ ocupa(h)' => ocupa(h)
      /\ "restaurar" \notin ordenes(h)'
      /\ "restaurar" \in ordenes(h) => op = "restaurar"
      /\ op = "borrar" => ordenes(h)' \cap {"soltar", "borrar"} = {}
      /\ op \in {"cerrarAnterior", "parar", "borrarRespaldo"} => borra(h)'
      /\ op \in {"soltar", "borrar"} => ocupa(h)
      /\ \/ /\ op \in {"soltar", "liberar"} /\ tarea'[h].paso = "libre" /\ ordenes(h)' = {}
         \/ /\ op \notin {"soltar", "liberar"}
            /\ tarea'[h].paso = "guion" /\ tarea'[h].copia = c
            /\ tarea'[h].cli = tarea[h].cli
      /\ \A g \in Tareas : g # h => tarea'[g] = tarea[g] /\ ordenes(g)' = ordenes(g)
    BY GuionDe
<1>2. /\ \/ cambio' = cambio /\ op \notin {"soltar", "borrar"}
         \/ /\ op = "liberar" /\ cambio.token = t
            /\ cambio'.token = t /\ cambio'.probado = cambio.probado
            /\ cambio'.anterior = cambio.anterior /\ cambio'.nuevo = cambio.nuevo
         \/ op \in {"soltar", "borrar"} /\ cambio.token = t /\ cambio' = SinCambio
      /\ ~tarea[h].cli \/ op \in {"soltar", "borrar", "liberar"} => srv' = srv
      /\ tarea[h].cli /\ op = "restaurar" /\ srv.respaldo[t] # Ninguno
            => \/ srv'.activo = srv.respaldo[t]
               \/ srv'.activo = srv.activo /\ (borra(h) => perdidas' # {})
      /\ op # "restaurar" => srv'.cfg = srv.cfg /\ srv'.activo = srv.activo
      /\ \A p : p \in srv.abiertos /\ p \notin srv'.abiertos =>
            \/ op = "cerrarNuevo" /\ p = c.nuevo
            \/ op = "cerrarAnterior" /\ p = c.anterior
      /\ op # "borrarRespaldo" => srv'.respaldo = srv.respaldo
      /\ op # "parar" => srv'.guardia = srv.guardia
      /\ op \notin {"restaurar", "cerrarNuevo", "cerrarAnterior", "parar",
                    "borrarRespaldo"} => srv'.abiertos = srv.abiertos
      /\ \A u \in Tokens : /\ u # t => srv'.respaldo[u] = srv.respaldo[u]
                           /\ u # t => srv'.guardia[u] = srv.guardia[u]
                           /\ srv'.guardia[u] = srv.guardia[u]
                              \/ (srv.guardia[u] = "armada" /\ srv'.guardia[u] = "parada")
      /\ perdidas \subseteq perdidas'
      /\ UNCHANGED <<externo, perfil, enlace, averias, viejas>>
    BY OrdenDe
<1> SUFFICES ASSUME SinDisparos', viejas' = {}, perdidas' = {}
             PROVE  InvPuertos' /\ (Cortado' \/ Normal')
    BY DEF InvPerfil
<1> HIDE DEF c, op, t
<1>3. SinDisparos /\ viejas = {} /\ perdidas = {}
    BY <1>2 DEF SinDisparos
<1>4. InvPuertos /\ (Cortado \/ Normal)
    BY <1>3 DEF IInv2, InvPerfil
<1>5. SinDueno /\ SinDueno'
    BY SinOcupar, SinOcuparPrima DEF IInv2
<1>6. ocupa(h) => /\ cambio.token = t /\ cambio # SinCambio
                  /\ \A g \in Tareas : g # h => ~ocupa(g) /\ ~ocupa(g)'
  <2> SUFFICES ASSUME ocupa(h)
               PROVE  /\ cambio.token = t /\ cambio # SinCambio
                      /\ \A g \in Tareas : g # h => ~ocupa(g) /\ ~ocupa(g)'
      OBVIOUS
  <2>1. cambio.token = t
      BY DEF IInv, InvOcupa, c, t
  <2>2. cambio # SinCambio
      BY <1>1, <2>1, NingunoAssumption DEF SinCambio
  <2>3. \A g \in Tareas : g # h => ~ocupa(g) /\ ~ocupa(g)'
      BY <1>1, Duenos DEF ocupa
  <2>. QED
      BY <2>1, <2>2, <2>3
<1>7. ~ocupa(h) => /\ op \notin {"restaurar", "cerrarNuevo", "cerrarAnterior", "parar",
                                 "borrarRespaldo", "soltar", "borrar"}
                   /\ ~ocupa(h)'
    BY <1>1, <1>5 DEF SinDueno
<1>8. aMedias' => aMedias /\ cambio'.anterior = cambio.anterior /\ cambio'.nuevo = cambio.nuevo
  <2> SUFFICES ASSUME aMedias'
               PROVE  aMedias /\ cambio'.anterior = cambio.anterior
                              /\ cambio'.nuevo = cambio.nuevo
      OBVIOUS
  <2>1. cambio' # SinCambio /\ op \notin {"soltar", "borrar"}
      BY <1>2 DEF aMedias
  <2>2. \A g \in Tareas : ~borra(g)
      BY <1>1, <2>1 DEF aMedias, borra
  <2>3. cambio # SinCambio
      BY <1>1, <1>2, <2>1, NingunoAssumption DEF SinCambio
  <2>. QED
      BY <1>2, <2>1, <2>2, <2>3 DEF aMedias
<1>9. PuertosPerfil'
  <2>1. puertosBien(h)
      BY <1>4 DEF InvPuertos
  <2>2. perfil \in srv.abiertos => perfil \in srv'.abiertos
      BY <1>1, <1>2, <2>1 DEF puertosBien, c
  <2>. QED
      BY <1>2, <1>4, <1>8, <2>2 DEF InvPuertos, PuertosPerfil, externo
<1>10. ~ocupa(h) => /\ srv'.cfg = srv.cfg /\ srv'.activo = srv.activo
                    /\ srv'.abiertos = srv.abiertos /\ srv'.respaldo = srv.respaldo
                    /\ srv'.guardia = srv.guardia
                    /\ Bien' <=> Bien
                    /\ \A u \in Tokens : respaldada(u)' <=> respaldada(u)
    BY <1>2, <1>7 DEF Bien, respaldada, respalda
<1>11. ASSUME NEW g \in Tareas PROVE puertosBien(g)'
  <2>1. puertosBien(g)
      BY <1>4 DEF InvPuertos
  <2>2. CASE g = h
      BY <1>1, <1>2, <2>1, <2>2 DEF puertosBien, c
  <2>3. CASE g # h /\ ocupa(h)
      BY <1>5, <1>6, <2>3 DEF SinDueno
  <2>4. CASE g # h /\ ~ocupa(h)
    <3>1. alcanzable(tarea[g].copia.nuevo) => alcanzable(tarea[g].copia.nuevo)'
        BY <1>1, <1>2, <1>10, <2>4 DEF alcanzable, externo
    <3>. QED
        BY <1>1, <1>2, <1>10, <2>1, <2>4, <3>1 DEF puertosBien
  <2>. QED
      BY <2>2, <2>3, <2>4
<1>12. InvPuertos'
    BY <1>9, <1>11 DEF InvPuertos
<1>13. ASSUME Cortado PROVE Cortado'
  <2>1. PICK u \in Tokens :
           u # cambio.token /\ respaldada(u) /\ srv.guardia[u] # "sin" /\ averias > 0
      BY <1>13 DEF Cortado
  <2>2. u # cambio'.token
      BY <1>2, <2>1, NingunoAssumption DEF SinCambio
  <2>3. respaldada(u)' /\ srv'.guardia[u] # "sin"
    <3>1. CASE u = t
        BY <1>6, <1>10, <2>1, <3>1
    <3>2. CASE u # t
        BY <1>2, <2>1, <3>2 DEF respaldada, respalda
    <3>. QED
        BY <3>1, <3>2
  <2>. QED
      BY <1>2, <2>1, <2>2, <2>3 DEF Cortado
<1>14. ASSUME Normal, ~ocupa(h) PROVE Normal'
  <2>1. cambio'.token = cambio.token /\ cambio'.probado = cambio.probado
      BY <1>2, <1>7, <1>14
  <2>2. respaldada(cambio.token)' <=> respaldada(cambio.token)
      BY <1>2, <1>10, <1>14, <2>1 DEF respaldada, respalda
  <2>3. ASSUME NEW g \in Tareas PROVE normalBien(g)'
    <3>1. CASE g = h
        BY <1>5, <1>7, <1>14, <3>1 DEF SinDueno
    <3>2. CASE g # h
      <4>1. normalBien(g)
          BY <1>14 DEF Normal
      <4>2. respaldada(tarea[g].copia.token)' <=> respaldada(tarea[g].copia.token)
          BY <1>1, <1>2, <1>10, <1>14, <3>2 DEF respaldada, respalda
      <4>. QED
          BY <1>1, <1>10, <1>14, <3>2, <4>1, <4>2 DEF normalBien, borra
    <3>. QED
        BY <3>1, <3>2
  <2>. QED
      BY <1>8, <1>10, <1>14, <2>1, <2>2, <2>3 DEF Normal
<1>15. ASSUME Normal, ocupa(h), op \in {"soltar", "borrar"} PROVE Cortado' \/ Normal'
  <2>1. srv' = srv /\ cambio' = SinCambio
      BY <1>2, <1>15
  <2>2. (Bien' <=> Bien) /\ \A u \in Tokens : respaldada(u)' <=> respaldada(u)
      BY <1>2, <2>1 DEF Bien, respaldada, respalda
  <2>3. \A g \in Tareas : normalBien(g)'
    <3>1. ordenes(h)' \cap {"restaurar", "borrar"} = {}
        BY <1>1, <1>15
    <3>2. tarea'[h].paso \notin {"prueba", "guardia"}
        BY <1>1
    <3>3. normalBien(h)'
        BY <3>1, <3>2 DEF normalBien, borra
    <3>. QED
        BY <1>5, <1>6, <1>15, <3>3 DEF SinDueno
  <2>4. Bien => Normal'
    <3>1. ~aMedias'
        BY <2>1 DEF aMedias
    <3>. QED
        BY <2>2, <2>3, <3>1 DEF Normal
  <2>5. CASE op = "soltar"
    <3>1. probando(h)
        BY <1>1, <2>5 DEF probando
    <3>2. ~cambio.probado
        BY <3>1 DEF IInv2, InvCopia, copiaBien
    <3>. QED
        BY <1>15, <2>4, <3>2 DEF Normal
  <2>6. CASE op = "borrar"
    <3>1. borra(h) /\ "restaurar" \notin ordenes(h)
        BY <1>1, <2>6 DEF borra
    <3>2. Bien \/ (~tarea[h].cli /\ respaldada(t))
        BY <1>15, <3>1 DEF Normal, normalBien, c, t
    <3>3. ASSUME ~tarea[h].cli, respaldada(t) PROVE Cortado'
      <4>1. averias # 0
          BY <1>1, <3>3 DEF IInv2, InvClaves, clavesBien
      <4>2. averias \in Nat
          BY AveriasAssumption DEF IInv, TypeOK
      <4>3. averias' > 0
          BY <1>2, <4>1, <4>2
      <4>4. t # cambio'.token
          BY <1>1, <2>1, NingunoAssumption DEF SinCambio
      <4>5. srv.guardia[t] # "sin"
        <5>1. decidiendo(h)
            BY <3>1 DEF decidiendo
        <5>2. cambio = [tarea[h].copia EXCEPT !.enCurso = TRUE] /\ tarea[h].copia.probado
            BY <5>1 DEF IInv2, InvCopia, copiaBien
        <5>3. tarea[h].copia \in Cambio \ {SinCambio}
            BY <1>1, CopiaActiva, NingunoAssumption DEF SinCambio
        <5>4. cambio.probado /\ cambio.token = t
            BY <1>6, <1>15, <5>2, <5>3 DEF Cambio
        <5>. QED
            BY <5>4 DEF IInv, InvEspera
      <4>. QED
          BY <1>1, <2>1, <2>2, <3>3, <4>3, <4>4, <4>5 DEF Cortado
    <3>. QED
        BY <2>4, <3>2, <3>3
  <2>. QED
      BY <1>15, <2>5, <2>6
<1>16. ASSUME Normal, ocupa(h), op \notin {"soltar", "borrar"} PROVE Normal'
  <2>1. op # "liberar"
      BY <1>1, <1>16 DEF ocupa
  <2>2. cambio' = cambio /\ cambio.token = t
      BY <1>2, <1>6, <1>16, <2>1
  <2>3. /\ op \notin {"soltar", "liberar"}
        /\ tarea'[h].paso = "guion" /\ tarea'[h].copia = c /\ tarea'[h].cli = tarea[h].cli
      BY <1>1, <1>16, <2>1
  <2>4. borra(h)' <=> borra(h)
      BY <1>1, <1>16 DEF borra
  <2>5. normalBien(h)
      BY <1>16 DEF Normal
  <2>6. \A g \in Tareas : g # h => normalBien(g)'
      BY <1>5, <1>6, <1>16 DEF SinDueno
  <2>7. PICK u \in Tokens : u = t
      BY <1>1
  <2>8. respaldada(tarea[h].copia.token) <=> respaldada(u)
      BY <2>7 DEF respaldada, respalda, t, c
  <2>9. /\ respaldada(cambio.token)' <=> respaldada(u)'
        /\ respaldada(tarea[h].copia.token)' <=> respaldada(u)'
      BY <2>2, <2>3, <2>7 DEF respaldada, respalda, t
  <2>10. respaldada(cambio.token) <=> respaldada(u)
      BY <2>2, <2>7 DEF respaldada, respalda
  <2>11. tarea'[h].paso \notin {"prueba", "guardia"}
      BY <2>3
  <2>12. CASE srv' = srv
    <3>1. (Bien' <=> Bien) /\ (respaldada(u)' <=> respaldada(u))
        BY <1>2, <2>12 DEF Bien, respaldada, respalda
    <3>2. normalBien(h)'
      <4>1. borra(h) /\ "restaurar" \in ordenes(h) => Bien \/ (~tarea[h].cli /\ respaldada(u))
        <5>1. CASE borra(h) /\ "restaurar" \in ordenes(h) /\ tarea[h].cli
          <6>1. op = "restaurar" /\ respaldada(u)
              BY <1>1, <2>5, <2>8, <5>1 DEF normalBien
          <6>2. srv.respaldo[u] # Ninguno /\ perfil \in srv.respaldo[u]
              BY <6>1 DEF respaldada, respalda
          <6>3. srv'.activo = srv.respaldo[u] \/ ~borra(h)
              BY <1>2, <2>7, <5>1, <6>1, <6>2
          <6>. QED
              BY <2>12, <6>2, <6>3 DEF Bien
        <5>2. CASE "restaurar" \in ordenes(h) /\ ~tarea[h].cli
            BY <2>5, <2>8, <5>2 DEF normalBien
        <5>. QED
            BY <5>1, <5>2
      <4>2. borra(h) => Bien \/ (~tarea[h].cli /\ respaldada(u))
          BY <2>5, <2>8, <4>1 DEF normalBien
      <4>. QED
          BY <1>1, <2>3, <2>4, <2>9, <2>11, <3>1, <4>2 DEF normalBien
    <3>3. \A g \in Tareas : normalBien(g)'
        BY <2>6, <3>2
    <3>. QED
        BY <1>8, <1>16, <2>2, <2>9, <2>10, <3>1, <3>3 DEF Normal
  <2>13. CASE tarea[h].cli /\ op = "restaurar"
    <3>1. respaldada(u)
        BY <1>1, <2>5, <2>8, <2>13 DEF normalBien
    <3>2. srv.respaldo[u] # Ninguno /\ perfil \in srv.respaldo[u]
        BY <3>1 DEF respaldada, respalda
    <3>3. Bien'
      <4>1. CASE srv'.activo = srv.respaldo[t]
          BY <1>2, <2>7, <3>2, <4>1 DEF Bien
      <4>2. CASE srv'.activo = srv.activo /\ ~borra(h)
        <5>1. probando(h)
            BY <1>1, <1>16, <4>2 DEF ocupa, borra, probando
        <5>2. ~cambio.probado
            BY <5>1 DEF IInv2, InvCopia, copiaBien
        <5>. QED
            BY <1>2, <1>16, <4>2, <5>2 DEF Normal, Bien
      <4>. QED
          BY <1>2, <2>7, <2>13, <3>2, <4>1, <4>2
    <3>4. respaldada(u)'
        BY <1>2, <2>13, <3>1 DEF respaldada, respalda
    <3>5. \A g \in Tareas : normalBien(g)'
        BY <1>1, <2>6, <2>11, <3>3 DEF normalBien
    <3>. QED
        BY <2>9, <3>3, <3>4, <3>5 DEF Normal
  <2>14. CASE op \in {"cerrarNuevo", "quitarClave", "quitarFinal"}
    <3>1. (Bien' <=> Bien) /\ (respaldada(u)' <=> respaldada(u))
        BY <1>2, <2>14 DEF Bien, respaldada, respalda
    <3>2. "restaurar" \notin ordenes(h)
        BY <1>1, <2>14
    <3>3. normalBien(h)'
        BY <1>1, <2>3, <2>4, <2>5, <2>8, <2>9, <2>11, <3>1, <3>2 DEF normalBien
    <3>4. \A g \in Tareas : normalBien(g)'
        BY <2>6, <3>3
    <3>. QED
        BY <1>8, <1>16, <2>2, <2>9, <2>10, <3>1, <3>4 DEF Normal
  <2>15. CASE tarea[h].cli /\ op \in {"cerrarAnterior", "parar", "borrarRespaldo"}
    <3>1. borra(h) /\ borra(h)' /\ "restaurar" \notin ordenes(h)
        BY <1>1, <2>4, <2>15
    <3>2. Bien
        BY <2>5, <2>15, <3>1 DEF normalBien
    <3>3. Bien'
        BY <1>2, <2>15, <3>2 DEF Bien
    <3>4. ~aMedias'
        BY <3>1 DEF aMedias
    <3>5. \A g \in Tareas : normalBien(g)'
        BY <1>1, <2>6, <2>11, <3>3 DEF normalBien
    <3>. QED
        BY <3>3, <3>4, <3>5 DEF Normal
  <2>. QED
      BY <1>1, <1>2, <1>16, <2>1, <2>12, <2>13, <2>14, <2>15 DEF Ordenes
<1>. QED
    BY <1>4, <1>12, <1>13, <1>14, <1>15, <1>16

LEMMA AvanceGuion ==
    ASSUME IInv, IInv', IInv2, NEW h \in Tareas, Guion(h)
    PROVE  IInv2'
<1>1. InvCopia'
    BY GuionCopia
<1>2. InvClaves'
    BY GuionClaves
<1>3. InvPerfil'
    BY <1>1, GuionPerfil
<1>. QED
    BY <1>1, <1>2, <1>3 DEF IInv2

-----------------------------------------------------------------------------
(* Every step preserves the second invariant.                              *)

LEMMA Iniciales2 == Init => IInv2
<1> SUFFICES ASSUME Init PROVE IInv2
    OBVIOUS
<1>1. PICK p \in Puertos :
         /\ perfil = p
         /\ srv = [cfg |-> {p}, activo |-> {p}, abiertos |-> {p},
                   respaldo |-> [t \in Tokens |-> Ninguno], claves |-> {},
                   guardia |-> [t \in Tokens |-> "nueva"]]
    BY DEF Init
<1>2. \A h \in Tareas : tarea[h].paso = "libre" /\ ordenes(h) = {}
    BY DEF Init, TareaLibre, ordenes
<1>3. cambio = SinCambio /\ ~cambio.probado
    BY DEF Init, SinCambio
<1>4. InvCopia
    BY <1>2 DEF InvCopia, copiaBien, probando, decidiendo, borra
<1>5. InvClaves
    BY <1>1, <1>2, <1>3 DEF InvClaves, ClavesDeFlujo, clavesBien, activa
<1>6. InvPerfil
  <2>1. Bien /\ ~aMedias
      BY <1>1, <1>3 DEF Bien, aMedias
  <2>2. \A h \in Tareas : puertosBien(h) /\ normalBien(h)
      BY <1>2 DEF puertosBien, normalBien, borra
  <2>3. PuertosPerfil
      BY <1>1, <2>1 DEF PuertosPerfil, Init
  <2>. QED
      BY <2>1, <2>2, <2>3 DEF InvPerfil, InvPuertos, Normal
<1>. QED
    BY <1>4, <1>5, <1>6 DEF IInv2

LEMMA Paso2 == IInv /\ IInv' /\ IInv2 /\ [Next]_vars => IInv2'
<1> SUFFICES ASSUME IInv, IInv', IInv2, [Next]_vars PROVE IInv2'
    OBVIOUS
<1>1. averias \in Nat
    BY AveriasAssumption DEF IInv, TypeOK
<1>2. CASE UNCHANGED vars
    BY <1>2, AvanceExterno DEF vars, externo
<1>3. CASE Conectar
    BY <1>3, AvanceExterno DEF Conectar, externo
<1>4. ASSUME NEW p \in Puertos, Bloquear(p) PROVE IInv2'
    BY <1>1, <1>4, AvanceExterno DEF Bloquear
<1>5. ASSUME NEW h \in Tareas,
             \/ \E p \in Puertos : ProbarLeer(h, p)
             \/ \E t \in Tokens : ProbarReservar(h, t)
             \/ ProbarClave(h) \/ ProbarFirewall(h) \/ ProbarConfig(h)
             \/ ProbarConexion(h) \/ ProbarGuardia(h)
      PROVE  IInv2'
    BY <1>5, AvanceLeer, AvanceReservar, AvanceClave, AvanceFirewall, AvanceConfig,
       AvanceConexion, AvanceGuardia
<1>6. ASSUME NEW h \in Tareas,
             \/ \E cerrar \in BOOLEAN : Aplicar(h, cerrar)
             \/ AplicarClave(h) \/ AplicarConfig(h) \/ AplicarConexion(h)
             \/ AplicarGuardar(h) \/ Cancelar(h) \/ CancelarRestaurar(h)
      PROVE  IInv2'
  <2>1. ASSUME (\E cerrar \in BOOLEAN : Aplicar(h, cerrar)) \/ Cancelar(h)
        PROVE  IInv2'
      BY <2>1, AvanceTomar DEF Aplicar, Cancelar
  <2>. QED
      BY <1>6, <2>1, AvanceClaveFinal, AvanceConfigFinal, AvanceConexionFinal,
         AvanceGuardar, AvanceCancelar
<1>7. CASE Next
    BY <1>3, <1>4, <1>5, <1>6, <1>7, AvanceGuion, AvanceDisparo, AvanceCaida,
       AvanceMuerte DEF Next
<1>. QED
    BY <1>2, <1>7

-----------------------------------------------------------------------------
(* The port that is about to be saved.                                     *)

\* Between the last connection and the profile nothing touches the port.
InvComprobado ==
    SinDisparos => \A h \in Tareas :
        tarea[h].paso = "guardar" => alcanzable(tarea[h].copia.nuevo)

\* What the handlers without the server leave alone.
LEMMA PasoSinOcupar ==
    ASSUME IInv, IInv2, NEW g \in Tareas, ~ocupa(g), cambio # SinCambio,
           \/ \E p \in Puertos : ProbarLeer(g, p)
           \/ \E t \in Tokens : ProbarReservar(g, t)
           \/ \E p \in Trabajos, b \in BOOLEAN : tomar(g, p, b)
           \/ Guion(g)
    PROVE  /\ UNCHANGED externo
           /\ srv'.activo = srv.activo /\ srv'.abiertos = srv.abiertos
           /\ srv'.guardia = srv.guardia
<1>1. CASE Guion(g)
  <2>1. Head(tarea[g].guion) \in ordenes(g) /\ SinDueno
      BY <1>1, GuionDe, SinOcupar DEF IInv2
  <2>2. Head(tarea[g].guion) \notin {"restaurar", "cerrarNuevo", "cerrarAnterior", "parar",
                                     "borrarRespaldo"}
      BY <2>1 DEF SinDueno
  <2>. QED
      BY <1>1, <2>2, OrdenDe
<1>2. CASE \E t \in Tokens : ProbarReservar(g, t)
    BY <1>2 DEF ProbarReservar
<1>. QED
    BY <1>1, <1>2 DEF ProbarLeer, tomar

LEMMA PasoComprobado == IInv /\ IInv2 /\ InvComprobado /\ [Next]_vars => InvComprobado'
<1> SUFFICES ASSUME IInv, IInv2, InvComprobado, [Next]_vars, SinDisparos',
                    NEW h \in Tareas, tarea'[h].paso = "guardar"
             PROVE  alcanzable(tarea[h].copia.nuevo)'
    BY DEF InvComprobado
<1>1. ASSUME /\ UNCHANGED externo /\ srv'.activo = srv.activo
             /\ srv'.abiertos = srv.abiertos /\ srv'.guardia = srv.guardia
             /\ tarea'[h].paso = tarea[h].paso /\ tarea'[h].copia = tarea[h].copia
      PROVE  alcanzable(tarea[h].copia.nuevo)'
  <2>1. SinDisparos
      BY <1>1 DEF SinDisparos
  <2>2. alcanzable(tarea[h].copia.nuevo)
      BY <1>1, <2>1 DEF InvComprobado
  <2>. QED
      BY <1>1, <2>2 DEF alcanzable, externo
<1>2. ASSUME NEW g \in Tareas, g # h,
             \/ \E p \in Puertos : ProbarLeer(g, p)
             \/ \E t \in Tokens : ProbarReservar(g, t)
             \/ ProbarClave(g) \/ ProbarFirewall(g) \/ ProbarConfig(g)
             \/ ProbarConexion(g) \/ ProbarGuardia(g)
             \/ \E cerrar \in BOOLEAN : Aplicar(g, cerrar)
             \/ AplicarClave(g) \/ AplicarConfig(g) \/ AplicarConexion(g)
             \/ AplicarGuardar(g) \/ Cancelar(g) \/ CancelarRestaurar(g) \/ Guion(g)
      PROVE  alcanzable(tarea[h].copia.nuevo)'
  <2>1. tarea'[h] = tarea[h]
      BY <1>2 DEF IInv, TypeOK, ProbarLeer, ProbarReservar, ProbarClave, ProbarFirewall,
         ProbarConfig, ProbarConexion, ProbarGuardia, Aplicar, AplicarClave, AplicarConfig,
         AplicarConexion, AplicarGuardar, Cancelar, CancelarRestaurar, Guion, tomar, orden,
         pasar, terminar
  <2>2. tarea[h].paso \in Trabajos
      BY <2>1 DEF Trabajos
  <2>3. ~ocupa(g) /\ cambio # SinCambio
      BY <1>2, <2>2, Dueno
  <2>4. tarea[g].paso \notin Trabajos
      BY <2>3 DEF ocupa, Trabajos
  <2>5. "claveFinal" \in Trabajos /\ "cancelar" \in Trabajos
      BY DEF Trabajos
  <2>6. \/ \E p \in Puertos : ProbarLeer(g, p)
        \/ \E t \in Tokens : ProbarReservar(g, t)
        \/ \E p \in Trabajos, b \in BOOLEAN : tomar(g, p, b)
        \/ Guion(g)
      BY <1>2, <2>4, <2>5 DEF ProbarClave, ProbarFirewall, ProbarConfig, ProbarConexion,
         ProbarGuardia, Aplicar, AplicarClave, AplicarConfig, AplicarConexion,
         AplicarGuardar, Cancelar, CancelarRestaurar, Trabajos
  <2>. QED
      BY <1>1, <2>1, <2>3, <2>6, PasoSinOcupar
<1>3. CASE AplicarConexion(h)
  <2>1. alcanzable(tarea[h].copia.nuevo) /\ tarea'[h].copia = tarea[h].copia
      BY <1>3 DEF AplicarConexion, pasar, terminar, IInv, TypeOK
  <2>. QED
      BY <1>3, <2>1 DEF AplicarConexion, alcanzable, externo
<1>4. ASSUME \/ \E p \in Puertos : ProbarLeer(h, p)
             \/ \E t \in Tokens : ProbarReservar(h, t)
             \/ ProbarClave(h) \/ ProbarFirewall(h) \/ ProbarConfig(h)
             \/ ProbarConexion(h) \/ ProbarGuardia(h)
             \/ AplicarClave(h) \/ AplicarConfig(h)
             \/ AplicarGuardar(h) \/ CancelarRestaurar(h)
      PROVE  FALSE
  <2>1. TareaLibre.paso = "libre"
      BY DEF TareaLibre
  <2> HIDE DEF TareaLibre
  <2>2. tarea \in [Tareas -> Tarea]
      BY DEF IInv, TypeOK, Tarea
  <2>3. CASE \/ \E p \in Puertos : ProbarLeer(h, p)
             \/ \E t \in Tokens : ProbarReservar(h, t)
             \/ ProbarGuardia(h)
    <3>1. CASE \E p \in Puertos : ProbarLeer(h, p)
        BY <2>2, <3>1 DEF ProbarLeer, TareaLibre
    <3>2. CASE \E t \in Tokens : ProbarReservar(h, t)
        BY <2>1, <2>2, <3>2 DEF ProbarReservar, Tarea
    <3>3. CASE ProbarGuardia(h)
        BY <2>1, <2>2, <3>3 DEF ProbarGuardia
    <3>. QED
        BY <2>3, <3>1, <3>2, <3>3
  <2>4. CASE \/ ProbarClave(h) \/ ProbarFirewall(h) \/ ProbarConfig(h)
             \/ ProbarConexion(h) \/ AplicarClave(h) \/ AplicarConfig(h)
             \/ AplicarGuardar(h) \/ CancelarRestaurar(h)
      BY <2>2, <2>4 DEF Tarea, ProbarClave, ProbarFirewall, ProbarConfig, ProbarConexion,
         AplicarClave, AplicarConfig, AplicarGuardar, CancelarRestaurar, orden, pasar,
         terminar
  <2>. QED
      BY <1>4, <2>3, <2>4
<1>5. CASE Guion(h)
    BY <1>5, GuionDe
<1>6. CASE (\E cerrar \in BOOLEAN : Aplicar(h, cerrar)) \/ Cancelar(h)
  <2>1. PICK p \in {"claveFinal", "cancelar"}, b \in BOOLEAN : tomar(h, p, b)
      BY <1>6 DEF Aplicar, Cancelar
  <2>2. tarea'[h].paso = p
      BY <2>1 DEF tomar, TareaLibre, IInv, TypeOK
  <2>. QED
      BY <2>2
<1>7. ASSUME NEW t \in Tokens, GuardiaDispara(t) PROVE FALSE
  <2>1. srv'.guardia[t] = "disparada"
    <3>1. srv \in Servidor
        BY DEF IInv, TypeOK
    <3> DEFINE s == [srv EXCEPT !.guardia[t] = "disparada"]
    <3>2. s \in Servidor /\ s.guardia[t] = "disparada"
        BY <3>1 DEF Servidor, Guardias
    <3>3. srv' \in {quitarClave(restaurar(s, t), t, "prueba"), restaurar(s, t)}
                  \cup restaurarFalla(s, t)
        BY <1>7 DEF GuardiaDispara
    <3> HIDE DEF s
    <3>4. CASE srv' \in {restaurar(s, t)} \cup restaurarFalla(s, t)
        BY <3>2, <3>4, Restauraciones
    <3>5. CASE srv' = quitarClave(restaurar(s, t), t, "prueba")
        BY <3>2, <3>5, Restauraciones DEF quitarClave, Servidor
    <3>. QED
        BY <3>3, <3>4, <3>5
  <2>. QED
      BY <2>1 DEF SinDisparos
<1>8. ASSUME NEW p \in Puertos, Bloquear(p) PROVE FALSE
    BY <1>8 DEF Bloquear
<1>9. CASE CaerEnlace \/ Conectar \/ UNCHANGED vars
    BY <1>1, <1>9 DEF CaerEnlace, Conectar, vars, externo, IInv, TypeOK
<1>10. CASE Morir
    BY <1>10 DEF Morir, TareaLibre
<1>. QED
    BY <1>2, <1>3, <1>4, <1>5, <1>6, <1>7, <1>8, <1>9, <1>10 DEF Next

-----------------------------------------------------------------------------
(* The results.                                                            *)

\* The inductive invariant holds of every reachable state.
THEOREM Invariante == Spec => []IInv
BY Iniciales, Paso, PTL DEF Spec

\* Every variable keeps its type.
THEOREM TipoCorrecto == Spec => []TypeOK
<1>1. IInv => TypeOK
    BY DEF IInv
<1>. QED
    BY <1>1, Invariante, PTL

\* However many windows ask, whatever falls and whichever timers fire, at most
\* one handler changes sshd, its firewall or its backups at a time.
THEOREM UnSoloCambio == Spec => []CambioExclusivo
<1>1. IInv => CambioExclusivo
    BY DEF IInv, CambioExclusivo, InvOcupa, InvToken
<1>. QED
    BY <1>1, Invariante, PTL

\* The second inductive invariant holds too, whichever commands fail and
\* wherever a write is cut.
THEOREM Invariante2 == Spec => []IInv2
BY Iniciales, Iniciales2, Paso, Paso2, PTL DEF Spec

\* Every ending of every handler removes the temporary keys of its test: one
\* that is on the server while nothing has fallen belongs to a flow at work, or
\* is one whose removal failed.
THEOREM ClavesRetiradas == Spec => []ClavesDeFlujo
<1>1. IInv2 => ClavesDeFlujo
    BY DEF IInv2, InvClaves
<1>. QED
    BY <1>1, Invariante2, PTL

\* While nothing falls and no timer fires, and whichever commands fail, SSH
\* answers on the port of the profile, or the stage of a test that passed is
\* there to go on or back, and the backup Cancelar restores has the port; unless
\* the way back was lost: a restoration that fails unnoticed before Aplicar
\* gives up the stage, or a backup of a file without the port.
THEOREM PerfilSiempreAlcanzable == Spec => []PerfilAlcanzable
<1>1. IInv /\ IInv2 => PerfilAlcanzable
  <2> SUFFICES ASSUME IInv, IInv2, averias = 0, SinDisparos, viejas = {}, perdidas = {}
               PROVE  /\ alcanzable(perfil) \/ cambio.probado
                      /\ cambio.probado /\ ~cambio.enCurso =>
                            perfil \in srv.respaldo[cambio.token]
      BY DEF PerfilAlcanzable
  <2>1. InvPuertos /\ Normal
      BY DEF IInv2, InvPerfil, Cortado
  <2>2. Bien => alcanzable(perfil)
      BY <2>1 DEF Bien, InvPuertos, PuertosPerfil, alcanzable
  <2>3. ASSUME cambio.probado, ~cambio.enCurso
        PROVE  perfil \in srv.respaldo[cambio.token]
    <3>1. \A h \in Tareas : ~ocupa(h)
        BY <2>3 DEF IInv, InvEspera, InvOcupa
    <3>2. aMedias
        BY <2>3, <3>1 DEF aMedias, borra, ocupa, SinCambio
    <3>. QED
        BY <2>1, <2>3, <3>2 DEF Normal, respaldada, respalda
  <2>. QED
      BY <2>1, <2>2, <2>3 DEF Normal
<1>. QED
    BY <1>1, Invariante, Invariante2, PTL

\* Whatever link falls, whatever is blocked, whichever commands fail and whenever
\* the program dies, the port of the profile answers, or the server keeps a
\* backup that has it and a timer that nobody stopped; unless the way back was
\* lost as above, or a stage waits that never had a timer.
THEOREM PerfilSiempreRecuperable == Spec => []PerfilRecuperable
<1>1. IInv /\ IInv2 => PerfilRecuperable
  <2> SUFFICES ASSUME IInv, IInv2, SinDisparos, viejas = {}, perdidas = {},
                      \A t \in Tokens : ~desatendida(t)
               PROVE  alcanzable(perfil) \/ \E t \in Tokens : recupera(t)
      BY DEF PerfilRecuperable
  <2>1. InvPuertos /\ (Cortado \/ Normal)
      BY DEF IInv2, InvPerfil
  <2>2. \A t \in Tokens : respaldada(t) /\ srv.guardia[t] # "sin" => recupera(t)
      BY DEF respaldada, recupera, desatendida
  <2>3. CASE Cortado
      BY <2>2, <2>3 DEF Cortado
  <2>4. CASE Bien
      BY <2>1, <2>4 DEF Bien, InvPuertos, PuertosPerfil, alcanzable
  <2>5. CASE cambio.probado /\ respaldada(cambio.token)
    <3>1. cambio.token \in Tokens
        BY <2>5 DEF IInv, TypeOK, Cambio, SinCambio
    <3>2. srv.guardia[cambio.token] # "sin"
        BY <2>5 DEF IInv, InvEspera
    <3>. QED
        BY <2>2, <2>5, <3>1, <3>2
  <2>. QED
      BY <2>1, <2>3, <2>4, <2>5 DEF Normal
<1>. QED
    BY <1>1, Invariante, Invariante2, PTL

\* "Cambia el puerto SSH solo despues de verificar una segunda conexion real":
\* until a timer fires, the profile moves only to a port where SSH answers, even
\* for tests reserved with an old profile.
THEOREM PerfilSoloComprobado == Spec => PerfilComprobado
<1>1. Init => InvComprobado
    BY DEF Init, InvComprobado, TareaLibre
<1>2. IInv /\ InvComprobado /\ [Next]_vars
         => [perfil' # perfil /\ SinDisparos => alcanzable(perfil)']_vars
  <2> SUFFICES ASSUME IInv, InvComprobado, Next, perfil' # perfil, SinDisparos
               PROVE  alcanzable(perfil)'
      BY DEF vars
  <2>1. PICK h \in Tareas : AplicarGuardar(h)
      BY DEF Next, ProbarLeer, ProbarReservar, ProbarClave, ProbarFirewall, ProbarConfig,
         ProbarConexion, ProbarGuardia, Aplicar, AplicarClave, AplicarConfig,
         AplicarConexion, Cancelar, CancelarRestaurar, Guion, tomar, GuardiaDispara,
         Bloquear, CaerEnlace, Conectar, Morir
  <2>2. alcanzable(tarea[h].copia.nuevo) /\ perfil' = tarea[h].copia.nuevo
      BY <2>1 DEF AplicarGuardar, InvComprobado
  <2>. QED
      BY <2>1, <2>2 DEF AplicarGuardar, alcanzable, externo
<1>. QED
    BY <1>1, <1>2, Invariante, Invariante2, PasoComprobado, PTL DEF Spec, PerfilComprobado

=============================================================================
