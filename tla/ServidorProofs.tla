--------------------------- MODULE ServidorProofs ---------------------------
(***************************************************************************)
(* Proofs about Servidor, for every number of ports, handlers, servers and *)
(* faults, and with nothing of what its runs leave aside.                  *)
(***************************************************************************)
EXTENDS Servidor, TLAPS

-----------------------------------------------------------------------------
(* The inductive invariant.                                                *)

ocupada(h) == tarea[h].paso # "libre"
activo(q) == corte[q].paso \notin {"libre", "respaldar"}

\* What the records of the handlers hold at each step.
InvFormas ==
    /\ \A q \in Cortan :
          /\ corte[q].paso # "libre" => corte[q].puerto \in Puertos
          /\ activo(q) => corte[q].respaldo \in SUBSET Puertos
          /\ corte[q].paso \in {"permanente", "inverso"} =>
                entorno.backend = "firewalld"
    /\ \A h \in Endurecen : ocupada(h) =>
          /\ tarea[h].puerto \in Puertos
          /\ tarea[h].antes \in [cfg : Contenido, viva : Contenido]

\* A change of the firewall has the lock.
InvCandado == \A q \in Cortan : corte[q].paso # "libre" <=> candado = q

\* The port that is tried, or closed, is not the profile's.
InvCambio ==
    /\ cambio.fase # "nada" =>
          cambio.nuevo \in Puertos \ {perfil} /\ entorno.backend # "nftables"
    /\ cambio.fase \in {"doble", "probado", "final", "restaurar"} =>
          cambio.respaldo \in Contenido

\* Without faults nobody is without a link.
InvEnlace ==
    averias = 0 =>
        /\ \A q \in Cortan : corte[q].paso # "libre" => corte[q].cli
        /\ \A h \in Endurecen : ocupada(h) => tarea[h].cli

\* The firewall is at rest: the profile's port is open, now and after a reload,
\* which brings what is in force, but for nftables.
abierta ==
    /\ entorno.backend # "nftables" => fw.viva = fw.fija
    /\ perfil \in fw.viva /\ perfil \in fw.fija

\* What ufw and nftables keep at every step.
parejas ==
    /\ entorno.backend = "ufw" => fw.viva = fw.fija
    /\ entorno.backend = "nftables" => perfil \in fw.fija

InvReposo ==
    averias = 0 /\ ~viejo =>
        /\ parejas
        /\ (\A q \in Cortan :
               corte[q].paso \in {"libre", "respaldar", "cambiar", "fin"}) => abierta
        /\ \A q \in Cortan : activo(q) /\ q \notin cruzados => perfil \in corte[q].respaldo

\* What the rules are at each step of a change nobody crossed.
deseado(q) == poner(corte[q].respaldo, corte[q].abre, corte[q].puerto)

CorteBien(q) ==
    activo(q) /\ q \notin cruzados =>
        /\ corte[q].paso = "permanente" => perfil \in fw.viva
        /\ entorno.backend # "nftables" =>
              /\ corte[q].paso = "cambiar" =>
                    fw.viva = corte[q].respaldo /\ fw.fija = corte[q].respaldo
              /\ corte[q].paso \in {"comprobar", "permanente"} =>
                    /\ fw.viva = deseado(q)
                    /\ fw.fija = IF entorno.backend = "firewalld"
                                 THEN corte[q].respaldo ELSE deseado(q)
              /\ corte[q].paso = "fin" =>
                    fw.viva = deseado(q) /\ fw.fija = deseado(q)

InvCorte == averias = 0 /\ ~viejo => \A q \in Cortan : CorteBien(q)

\* What sshd is at each step of a hardening nobody crossed.
nuevo(t) == [t.antes.cfg EXCEPT !.modo = t.quiere]

TareaBien(h) ==
    LET t == tarea[h]
    IN  ocupada(h) /\ h \notin cruzados /\ t.antes.cfg = t.antes.viva =>
          /\ t.paso \in {"respaldar", "escribir"} => sshd.cfg = t.antes.cfg
          /\ t.paso \notin {"respaldar", "escribir"} => sshd.cfg = nuevo(t)
          /\ t.paso \in {"respaldar", "escribir", "comprobar", "recargar"} =>
                sshd.viva = t.antes.cfg
          /\ t.paso \in {"llave", "clave", "deshacer"} => sshd.viva = nuevo(t)
          /\ t.paso # "respaldar" => sshd.bak[t.quiere] = t.antes.cfg
          /\ t.paso = "clave" => t.quiere \in entorno.llave

InvTarea == averias = 0 => \A h \in Endurecen : TareaBien(h)

IInv == TypeOK /\ InvFormas /\ InvCandado /\ InvCambio /\ InvEnlace
        /\ InvReposo /\ InvCorte /\ InvTarea
-----------------------------------------------------------------------------
(* Hardening.                                                              *)

TSshd == [cfg : Contenido, viva : Contenido,
          bak : [Quiere -> Contenido \cup {Ninguno}]]
TTarea == [paso : PasosSSH, quiere : Quiere, puerto : Puertos \cup {Ninguno},
           cli : BOOLEAN,
           antes : [cfg : Contenido, viva : Contenido] \cup {Ninguno}]

LEMMA Libre == TareaLibre \in TTarea /\ TareaLibre.paso = "libre"
BY DEF TareaLibre, TTarea, PasosSSH, Quiere

\* Hardening leaves the invariant of the firewall alone.
LEMMA OtroSSH ==
    ASSUME IInv, UNCHANGED resto,
           cruzados \cap Cortan \subseteq cruzados', averias' = 0 => averias = 0
    PROVE  InvCandado' /\ InvCambio' /\ InvReposo' /\ InvCorte'
<1>1. InvCandado' /\ InvCambio'
    BY DEF IInv, InvCandado, InvCambio, resto
<1>2. InvReposo'
    BY DEF IInv, InvReposo, abierta, parejas, activo, resto
<1>3. InvCorte'
  <2> SUFFICES ASSUME (averias = 0 /\ ~viejo)', NEW q \in Cortan PROVE CorteBien(q)'
      BY DEF InvCorte
  <2>1. CorteBien(q)
      BY DEF IInv, InvCorte, resto
  <2>. QED
      BY <2>1 DEF CorteBien, activo, deseado, poner, resto
<1>. QED
    BY <1>1, <1>2, <1>3

\* A step of one handler: it answers for itself, the others have been crossed if
\* sshd changed.
LEMMA PasoHilo ==
    ASSUME IInv, NEW h \in Endurecen, ocupada(h), sshd' \in TSshd,
           averias' \in 0 .. MaxAverias, averias' = 0 => averias = 0,
           \/ \E p \in PasosSSH : pasoSSH(h, p)
           \/ acabar(h),
           averias' = 0 => TareaBien(h)'
    PROVE  IInv'
<1>1. UNCHANGED resto
    BY DEF pasoSSH, acabar
<1>2. /\ tarea' \in [Endurecen -> TTarea]
      /\ \A g \in Endurecen \ {h} : tarea'[g] = tarea[g]
      /\ \/ tarea'[h].paso = "libre"
         \/ /\ tarea'[h].puerto = tarea[h].puerto
            /\ tarea'[h].antes = tarea[h].antes
            /\ tarea'[h].cli = tarea[h].cli
  <2>1. tarea \in [Endurecen -> TTarea]
      BY DEF IInv, TypeOK, TTarea
  <2>2. CASE acabar(h)
      BY <2>1, <2>2, Libre DEF acabar
  <2>3. ASSUME NEW p \in PasosSSH, pasoSSH(h, p)
        PROVE  <1>2
      BY <2>1, <2>3 DEF pasoSSH, TTarea
  <2>. QED
      BY <2>2, <2>3
<1>3. /\ cruzados' \in SUBSET (Endurecen \cup Cortan)
      /\ cruzados \cap Cortan \subseteq cruzados'
      /\ cruzados \ {h} \subseteq cruzados'
      /\ sshd' # sshd => enObra \ {h} \subseteq cruzados'
    BY HilosAssumption DEF pasoSSH, acabar, IInv, TypeOK, enObra
<1>4. InvCandado' /\ InvCambio' /\ InvReposo' /\ InvCorte'
    BY <1>1, <1>3, OtroSSH
<1>5. TypeOK'
    BY <1>1, <1>2, <1>3 DEF IInv, TypeOK, resto, TSshd, TTarea, Contenido, Reglas
<1>6. InvFormas'
    BY <1>1, <1>2 DEF IInv, InvFormas, resto, ocupada, activo
<1>7. InvEnlace'
    BY <1>1, <1>2 DEF IInv, InvEnlace, resto, ocupada
<1>8. InvTarea'
  <2> SUFFICES ASSUME averias' = 0, NEW g \in Endurecen \ {h} PROVE TareaBien(g)'
      BY DEF InvTarea
  <2>1. TareaBien(g) /\ tarea'[g] = tarea[g] /\ entorno' = entorno
      BY <1>1, <1>2 DEF IInv, InvTarea, resto
  <2>2. CASE sshd' = sshd
      BY <1>3, <2>1, <2>2 DEF TareaBien, ocupada, nuevo
  <2>3. CASE sshd' # sshd
      BY <1>3, <2>1, <2>3 DEF TareaBien, ocupada, enObra
  <2>. QED
      BY <2>2, <2>3
<1>. QED
    BY <1>4, <1>5, <1>6, <1>7, <1>8 DEF IInv

\* What a handler at work knows of itself.
LEMMA Hilo ==
    ASSUME IInv, NEW h \in Endurecen
    PROVE  /\ tarea[h] \in TTarea /\ sshd \in TSshd
           /\ ocupada(h) => tarea[h].antes \in [cfg : Contenido, viva : Contenido]
           /\ averias \in 0 .. MaxAverias
           /\ averias = 0 => TareaBien(h)
           /\ averias = 0 /\ ocupada(h) => tarea[h].cli
BY DEF IInv, TypeOK, InvFormas, InvTarea, InvEnlace, TTarea, TSshd

LEMMA Respaldados ==
    ASSUME NEW s \in TSshd, NEW quiere \in Quiere
    PROVE  /\ restituir(s, quiere) \in TSshd /\ recargar(s) \in TSshd
           /\ escribir(s, quiere) \in TSshd
           /\ s.bak[quiere] \in Contenido =>
                 restituir(s, quiere) = [s EXCEPT !.cfg = s.bak[quiere]]
BY NingunoAssumption DEF TSshd, restituir, recargar, escribir, Contenido, Modos, Quiere

LEMMA PasoEmpezar ==
    ASSUME IInv, NEW h \in Endurecen, NEW quiere \in Quiere, empezar(h, quiere)
    PROVE  IInv'
<1> DEFINE t == [paso |-> "respaldar", quiere |-> quiere, puerto |-> perfil,
                 cli |-> TRUE, antes |-> [cfg |-> sshd.cfg, viva |-> sshd.viva]]
<1>1. /\ UNCHANGED <<resto, sshd, averias>>
      /\ tarea' = [tarea EXCEPT ![h] = t]
      /\ cruzados \subseteq cruzados'
      /\ cruzados' \in SUBSET (Endurecen \cup Cortan)
      /\ \A g \in Endurecen \ {h} : g \notin cruzados' => g \notin cruzados
    BY DEF empezar, IInv, TypeOK, enObra
<1>2. InvCandado' /\ InvCambio' /\ InvReposo' /\ InvCorte'
    BY <1>1, OtroSSH
<1>3. t \in TTarea
    BY Hilo DEF TTarea, TSshd, PasosSSH, IInv, TypeOK
<1>4. tarea \in [Endurecen -> TTarea]
    BY DEF IInv, TypeOK, TTarea
<1>5. tarea' \in [Endurecen -> TTarea] /\ tarea'[h] = t
      /\ \A g \in Endurecen \ {h} : tarea'[g] = tarea[g]
    BY <1>1, <1>3, <1>4
<1>6. TypeOK'
    BY <1>1, <1>5 DEF IInv, TypeOK, resto, TTarea, Contenido, Reglas
<1>7. InvFormas'
    BY <1>1, <1>5, Hilo DEF IInv, InvFormas, TypeOK, TSshd, resto, ocupada, activo
<1>8. InvEnlace'
    BY <1>1, <1>5 DEF IInv, InvEnlace, resto, ocupada
<1>9. InvTarea'
  <2> SUFFICES ASSUME averias' = 0, NEW g \in Endurecen PROVE TareaBien(g)'
      BY DEF InvTarea
  <2>1. CASE g = h
      BY <1>1, <1>5, <2>1 DEF TareaBien, ocupada
  <2>2. CASE g # h
    <3>1. TareaBien(g) /\ tarea'[g] = tarea[g] /\ entorno' = entorno
        BY <1>1, <1>5, <2>2 DEF IInv, InvTarea, resto
    <3>. QED
        BY <1>1, <2>2, <3>1 DEF TareaBien, ocupada, nuevo
  <2>. QED
      BY <2>1, <2>2
<1>. QED
    BY <1>2, <1>6, <1>7, <1>8, <1>9 DEF IInv

\* What a step of a handler leaves in its own record.
LEMMA Propio ==
    ASSUME IInv, NEW h \in Endurecen, NEW p \in PasosSSH, pasoSSH(h, p)
    PROVE  /\ tarea'[h].paso = p
           /\ tarea'[h].quiere = tarea[h].quiere
           /\ tarea'[h].antes = tarea[h].antes
           /\ h \notin cruzados' => h \notin cruzados
           /\ entorno' = entorno
<1>1. tarea \in [Endurecen -> TTarea]
    BY DEF IInv, TypeOK, TTarea
<1>2. tarea' = [tarea EXCEPT ![h].paso = p] /\ cruzados \subseteq cruzados'
      /\ entorno' = entorno
    BY DEF pasoSSH, resto
<1>. QED
    BY <1>1, <1>2 DEF TTarea

LEMMA Acaba ==
    ASSUME IInv, NEW h \in Endurecen, ocupada(h), acabar(h), sshd' \in TSshd,
           averias' \in 0 .. MaxAverias, averias' = 0 => averias = 0
    PROVE  IInv'
<1>1. tarea \in [Endurecen -> TTarea]
    BY DEF IInv, TypeOK, TTarea
<1>2. tarea'[h].paso = "libre"
    BY <1>1, Libre DEF acabar
<1>3. TareaBien(h)'
    BY <1>2 DEF TareaBien, ocupada
<1>. QED
    BY <1>3, PasoHilo

LEMMA Sigue ==
    ASSUME IInv, NEW h \in Endurecen, ocupada(h), NEW p \in PasosSSH, pasoSSH(h, p),
           sshd' \in TSshd, UNCHANGED averias, averias = 0 => TareaBien(h)'
    PROVE  IInv'
BY PasoHilo, Hilo

LEMMA PasoRespaldar ==
    ASSUME IInv, NEW h \in Endurecen, Respaldar(h)
    PROVE  IInv'
<1>1. ocupada(h) /\ UNCHANGED averias /\ tarea[h].paso = "respaldar"
    BY DEF Respaldar, ocupada
<1>2. CASE UNCHANGED sshd /\ acabar(h)
    BY <1>1, <1>2, Hilo, Acaba
<1>3. CASE /\ sshd' = [sshd EXCEPT !.bak[tarea[h].quiere] = sshd.cfg]
           /\ pasoSSH(h, "escribir")
  <2>1. tarea[h].quiere \in Quiere
      BY Hilo DEF TTarea
  <2>2. /\ sshd' \in TSshd /\ sshd'.cfg = sshd.cfg /\ sshd'.viva = sshd.viva
        /\ sshd'.bak[tarea[h].quiere] = sshd.cfg
      BY <1>3, <2>1, Hilo DEF TSshd
  <2>3. "escribir" \in PasosSSH
      BY DEF PasosSSH
  <2>4. averias = 0 => TareaBien(h)'
      BY <1>1, <1>3, <2>2, <2>3, Hilo, Propio DEF TareaBien, ocupada
  <2>. QED
      BY <1>1, <1>3, <2>2, <2>3, <2>4, Sigue
<1>. QED
    BY <1>1, <1>2, <1>3 DEF Respaldar

LEMMA PasoEscribir ==
    ASSUME IInv, NEW h \in Endurecen, Escribir(h)
    PROVE  IInv'
<1>1. ocupada(h) /\ UNCHANGED averias /\ tarea[h].paso = "escribir"
    BY DEF Escribir, ocupada
<1>2. CASE UNCHANGED sshd /\ acabar(h)
    BY <1>1, <1>2, Hilo, Acaba
<1>3. CASE sshd' = escribir(sshd, tarea[h].quiere) /\ pasoSSH(h, "comprobar")
  <2>1. tarea[h].quiere \in Quiere
      BY Hilo DEF TTarea
  <2>2. /\ sshd' \in TSshd /\ sshd'.bak = sshd.bak /\ sshd'.viva = sshd.viva
        /\ sshd'.cfg = [sshd.cfg EXCEPT !.modo = tarea[h].quiere]
      BY <1>3, <2>1, Hilo, Respaldados DEF TSshd, escribir
  <2>3. "comprobar" \in PasosSSH
      BY DEF PasosSSH
  <2>4. averias = 0 => TareaBien(h)'
    <3> SUFFICES ASSUME averias = 0, ocupada(h)', h \notin cruzados',
                        tarea'[h].antes.cfg = tarea'[h].antes.viva
                 PROVE  /\ sshd'.cfg = nuevo(tarea'[h])
                        /\ sshd'.viva = tarea'[h].antes.cfg
                        /\ sshd'.bak[tarea'[h].quiere] = tarea'[h].antes.cfg
        BY <1>3, <2>3, Propio DEF TareaBien
    <3>1. /\ sshd.cfg = tarea[h].antes.cfg /\ sshd.viva = tarea[h].antes.cfg
          /\ sshd.bak[tarea[h].quiere] = tarea[h].antes.cfg
        BY <1>1, <1>3, <2>3, Hilo, Propio DEF TareaBien
    <3>. QED
        BY <1>3, <2>2, <2>3, <3>1, Propio DEF nuevo
  <2>. QED
      BY <1>1, <1>3, <2>2, <2>3, <2>4, Sigue
<1>. QED
    BY <1>1, <1>2, <1>3 DEF Escribir

LEMMA PasoEscribirTrunca ==
    ASSUME IInv, NEW h \in Endurecen, EscribirTrunca(h)
    PROVE  IInv'
<1>1. ocupada(h) /\ acabar(h) /\ averias' \in 0 .. MaxAverias /\ averias' # 0
    BY Hilo, AveriasAssumption DEF EscribirTrunca, ocupada
<1>2. sshd' \in TSshd
    BY Hilo DEF EscribirTrunca, TSshd, Contenido, Modos
<1>. QED
    BY <1>1, <1>2, Acaba

LEMMA PasoComprobar ==
    ASSUME IInv, NEW h \in Endurecen, Comprobar(h)
    PROVE  IInv'
<1>1. ocupada(h) /\ UNCHANGED averias /\ tarea[h].paso = "comprobar"
    BY DEF Comprobar, ocupada
<1>2. CASE sshd' = restituir(sshd, tarea[h].quiere) /\ acabar(h)
  <2>1. tarea[h].quiere \in Quiere
      BY Hilo DEF TTarea
  <2>. QED
      BY <1>1, <1>2, <2>1, Hilo, Respaldados, Acaba
<1>3. CASE UNCHANGED sshd /\ pasoSSH(h, "recargar")
  <2>1. "recargar" \in PasosSSH
      BY DEF PasosSSH
  <2>2. averias = 0 => TareaBien(h)'
      BY <1>1, <1>3, <2>1, Hilo, Propio DEF TareaBien, ocupada, nuevo
  <2>. QED
      BY <1>1, <1>3, <2>1, <2>2, Hilo, Sigue
<1>. QED
    BY <1>1, <1>2, <1>3 DEF Comprobar

LEMMA PasoRecargar ==
    ASSUME IInv, NEW h \in Endurecen, Recargar(h)
    PROVE  IInv'
<1>1. ocupada(h) /\ UNCHANGED averias /\ tarea[h].paso = "recargar"
    BY DEF Recargar, ocupada
<1>2. tarea[h].quiere \in Quiere
    BY Hilo DEF TTarea
<1>3. CASE sshd' = restituir(sshd, tarea[h].quiere) /\ acabar(h)
    BY <1>1, <1>2, <1>3, Hilo, Respaldados, Acaba
<1>4. CASE sshd' = recargar(sshd) /\ acabar(h)
    BY <1>1, <1>2, <1>4, Hilo, Respaldados, Acaba
<1>5. CASE sshd' = recargar(sshd) /\ pasoSSH(h, "llave")
  <2>1. "llave" \in PasosSSH
      BY DEF PasosSSH
  <2>2. /\ sshd' \in TSshd /\ sshd'.cfg = sshd.cfg /\ sshd'.viva = sshd.cfg
        /\ sshd'.bak = sshd.bak
      BY <1>5, Hilo DEF TSshd, recargar
  <2>3. averias = 0 => TareaBien(h)'
      BY <1>1, <1>5, <2>1, <2>2, Hilo, Propio DEF TareaBien, ocupada, nuevo
  <2>. QED
      BY <1>1, <1>5, <2>1, <2>2, <2>3, Sigue
<1>. QED
    BY <1>1, <1>3, <1>4, <1>5 DEF Recargar

\* The tests from outside move the handler only.
LEMMA PasoProbar ==
    ASSUME IInv, NEW h \in Endurecen,
           ProbarLlave(h) \/ ProbarCerrada(h) \/ ProbarAbierta(h)
    PROVE  IInv'
<1>1. /\ ocupada(h) /\ UNCHANGED <<sshd, averias>>
      /\ tarea[h].paso \in {"llave", "clave"}
    BY DEF ProbarLlave, ProbarCerrada, ProbarAbierta, ocupada
<1>2. CASE acabar(h)
    BY <1>1, <1>2, Hilo, Acaba
<1>3. CASE pasoSSH(h, "deshacer")
  <2>1. "deshacer" \in PasosSSH
      BY DEF PasosSSH
  <2>2. averias = 0 => TareaBien(h)'
      BY <1>1, <1>3, <2>1, Hilo, Propio DEF TareaBien, ocupada, nuevo
  <2>. QED
      BY <1>1, <1>3, <2>1, <2>2, Hilo, Sigue
<1>4. CASE tarea[h].paso = "llave" /\ entraLlave(tarea[h].puerto) /\ pasoSSH(h, "clave")
  <2>1. "clave" \in PasosSSH
      BY DEF PasosSSH
  <2>2. averias = 0 => TareaBien(h)'
    <3> SUFFICES ASSUME averias = 0, ocupada(h)', h \notin cruzados',
                        tarea'[h].antes.cfg = tarea'[h].antes.viva
                 PROVE  TareaBien(h)'
        BY DEF TareaBien
    <3>1. /\ sshd.cfg = nuevo(tarea[h]) /\ sshd.viva = nuevo(tarea[h])
          /\ sshd.bak[tarea[h].quiere] = tarea[h].antes.cfg
        BY <1>1, <1>4, <2>1, Hilo, Propio DEF TareaBien
    <3>2. nuevo(tarea[h]).modo = tarea[h].quiere
        BY <1>1, Hilo DEF nuevo, Contenido
    <3>3. tarea[h].quiere \in entorno.llave
        BY <1>4, <3>1, <3>2 DEF entraLlave
    <3>. QED
        BY <1>1, <1>4, <2>1, <3>1, <3>3, Propio DEF TareaBien, nuevo
  <2>. QED
      BY <1>1, <1>4, <2>1, <2>2, Hilo, Sigue
<1>. QED
    BY <1>1, <1>2, <1>3, <1>4 DEF ProbarLlave, ProbarCerrada, ProbarAbierta

LEMMA PasoDeshacer ==
    ASSUME IInv, NEW h \in Endurecen, Deshacer(h) \/ DeshacerFalla(h)
    PROVE  IInv'
<1>1. /\ ocupada(h) /\ acabar(h) /\ averias' \in 0 .. MaxAverias
      /\ averias' = 0 => averias = 0
    BY Hilo, AveriasAssumption DEF Deshacer, DeshacerFalla, ocupada
<1>2. tarea[h].quiere \in Quiere /\ sshd \in TSshd
    BY Hilo DEF TTarea
<1>3. restituir(sshd, tarea[h].quiere) \in TSshd
    BY <1>2, Respaldados
<1>4. sshd' \in TSshd
    BY <1>2, <1>3, Respaldados DEF Deshacer, DeshacerFalla
<1>. QED
    BY <1>1, <1>4, Acaba

-----------------------------------------------------------------------------
(* The firewall.                                                           *)

TCorte == [paso : PasosFw, abre : BOOLEAN, puerto : Puertos \cup {Ninguno},
           cli : BOOLEAN, respaldo : (SUBSET Puertos) \cup {Ninguno}]

\* What the handler with the lock answers for.
ReposoBien(q) ==
    /\ parejas
    /\ corte[q].paso \in {"respaldar", "cambiar", "fin"} => abierta
    /\ activo(q) /\ q \notin cruzados => perfil \in corte[q].respaldo
    /\ CorteBien(q)

\* What a handler of the firewall at work knows.
LEMMA Corta ==
    ASSUME IInv, NEW q \in Cortan, corte[q].paso # "libre"
    PROVE  /\ corte[q] \in TCorte /\ fw \in Reglas /\ corte[q].puerto \in Puertos
           /\ activo(q) => corte[q].respaldo \in SUBSET Puertos
           /\ candado = q
           /\ \A r \in Cortan \ {q} : corte[r].paso = "libre"
           /\ averias \in 0 .. MaxAverias /\ viejo \in BOOLEAN
           /\ averias = 0 => corte[q].cli
           /\ averias = 0 /\ ~viejo => ReposoBien(q)
<1>1. \A r \in Cortan \ {q} : corte[r].paso = "libre"
    BY DEF IInv, InvCandado
<1>2. averias = 0 /\ ~viejo => ReposoBien(q)
    BY <1>1 DEF IInv, InvReposo, InvCorte, ReposoBien
<1>. QED
    BY <1>1, <1>2 DEF IInv, TypeOK, InvFormas, InvCandado, InvEnlace, TCorte, activo

\* The firewall leaves the invariant of hardening, and of the change of port.
LEMMA OtroFw ==
    ASSUME IInv, UNCHANGED <<entorno, sshd, tarea>>,
           cruzados \cap Endurecen \subseteq cruzados', averias' = 0 => averias = 0
    PROVE  /\ InvTarea'
           /\ \A h \in Endurecen : ocupada(h)' =>
                 /\ tarea'[h].puerto \in Puertos
                 /\ tarea'[h].antes \in [cfg : Contenido, viva : Contenido]
           /\ averias' = 0 => \A h \in Endurecen : ocupada(h)' => tarea'[h].cli
<1>1. InvTarea'
  <2> SUFFICES ASSUME averias' = 0, NEW h \in Endurecen PROVE TareaBien(h)'
      BY DEF InvTarea
  <2>1. TareaBien(h)
      BY DEF IInv, InvTarea
  <2>. QED
      BY <2>1 DEF TareaBien, ocupada, nuevo
<1>. QED
    BY <1>1 DEF IInv, InvFormas, InvEnlace, ocupada

\* The end of a handler: the firewall must be at rest.
LEMMA Suelta ==
    ASSUME IInv, NEW q \in Cortan, corte[q].paso # "libre", UNCHANGED restoFw, soltar(q),
           fw' \in Reglas, viejo' \in BOOLEAN, averias' \in 0 .. MaxAverias,
           averias' = 0 => averias = 0, averias' = 0 /\ ~viejo' => abierta'
    PROVE  IInv'
<1>1. CorteLibre \in TCorte /\ CorteLibre.paso = "libre"
    BY DEF CorteLibre, TCorte, PasosFw
<1>2. corte \in [Cortan -> TCorte]
    BY DEF IInv, TypeOK, TCorte
<1>3. corte' \in [Cortan -> TCorte] /\ \A r \in Cortan : corte'[r].paso = "libre"
    BY <1>1, <1>2, Corta DEF soltar
<1>4. /\ candado' = Ninguno
      /\ cruzados' \in SUBSET (Endurecen \cup Cortan)
      /\ cruzados \cap Endurecen \subseteq cruzados'
    BY HilosAssumption DEF soltar, IInv, TypeOK
<1>5. TypeOK'
    BY <1>3, <1>4 DEF IInv, TypeOK, restoFw, TCorte, Contenido
<1>6. InvTarea' /\ InvFormas' /\ InvEnlace'
    BY <1>3, <1>4, OtroFw DEF InvFormas, InvEnlace, IInv, restoFw, activo
<1>7. InvCandado' /\ InvCambio'
    BY <1>3, <1>4, NingunoAssumption DEF IInv, InvCandado, InvCambio, restoFw
<1>8. InvReposo' /\ InvCorte'
    BY <1>3 DEF InvReposo, InvCorte, CorteBien, activo, abierta, parejas
<1>. QED
    BY <1>5, <1>6, <1>7, <1>8 DEF IInv

\* A step of the handler with the lock, once it has its backup.
LEMMA Avanza ==
    ASSUME IInv, NEW q \in Cortan, corte[q].paso # "libre",
           NEW c \in TCorte, corte' = [corte EXCEPT ![q] = c],
           c.paso \notin {"libre", "respaldar"}, c.puerto = corte[q].puerto,
           c.cli = corte[q].cli, c.respaldo \in SUBSET Puertos,
           c.paso \in {"permanente", "inverso"} => entorno.backend = "firewalld",
           UNCHANGED <<restoFw, candado, cruzados, averias>>,
           fw' \in Reglas, viejo' \in BOOLEAN, viejo => viejo',
           averias = 0 /\ ~viejo' => ReposoBien(q)'
    PROVE  IInv'
<1>1. corte \in [Cortan -> TCorte]
    BY DEF IInv, TypeOK, TCorte
<1>2. /\ corte' \in [Cortan -> TCorte] /\ corte'[q] = c
      /\ \A r \in Cortan \ {q} : corte'[r] = corte[r] /\ corte'[r].paso = "libre"
    BY <1>1, Corta
<1>3. TypeOK'
    BY <1>2 DEF IInv, TypeOK, restoFw, TCorte, Contenido
<1>4. InvFormas' /\ InvEnlace' /\ InvTarea'
  <2>1. InvTarea' /\ (\A h \in Endurecen : ocupada(h)' =>
                 /\ tarea'[h].puerto \in Puertos
                 /\ tarea'[h].antes \in [cfg : Contenido, viva : Contenido])
      BY OtroFw DEF restoFw
  <2>2. averias' = 0 => \A h \in Endurecen : ocupada(h)' => tarea'[h].cli
      BY OtroFw DEF restoFw
  <2>3. averias' = 0 => c.cli
      BY Corta
  <2>4. c.puerto \in Puertos /\ entorno' = entorno
      BY Corta DEF restoFw
  <2>. QED
      BY <1>2, <2>1, <2>2, <2>3, <2>4 DEF InvFormas, InvEnlace, activo
<1>5. InvCandado' /\ InvCambio'
    BY <1>2, Corta DEF IInv, InvCandado, InvCambio, restoFw
<1>6. InvReposo' /\ InvCorte'
  <2>1. \A r \in Cortan \ {q} : ~activo(r)' /\ CorteBien(r)'
      BY <1>2 DEF activo, CorteBien
  <2>2. corte'[q].paso \notin {"libre", "respaldar"}
      BY <1>2
  <2>. QED
      BY <2>1, <2>2 DEF InvReposo, InvCorte, ReposoBien
<1>. QED
    BY <1>3, <1>4, <1>5, <1>6 DEF IInv

\* Moving the handler on is a change of its record.
LEMMA PasoPropio ==
    ASSUME IInv, NEW q \in Cortan, corte[q].paso # "libre",
           NEW p \in PasosFw, pasoFw(q, p)
    PROVE  \E c \in TCorte :
              /\ corte' = [corte EXCEPT ![q] = c] /\ corte'[q] = c
              /\ c.paso = p /\ c.abre = corte[q].abre /\ c.puerto = corte[q].puerto
              /\ c.cli = corte[q].cli /\ c.respaldo = corte[q].respaldo
              /\ UNCHANGED <<candado, cruzados>>
<1> DEFINE c == [corte[q] EXCEPT !.paso = p]
<1>1. corte \in [Cortan -> TCorte]
    BY DEF IInv, TypeOK, TCorte
<1>2. /\ c \in TCorte /\ c.paso = p /\ c.abre = corte[q].abre
      /\ c.puerto = corte[q].puerto /\ c.cli = corte[q].cli
      /\ c.respaldo = corte[q].respaldo
    BY <1>1 DEF TCorte
<1>3. corte' = [corte EXCEPT ![q] = c] /\ UNCHANGED <<candado, cruzados>>
    BY DEF pasoFw
<1>4. corte'[q] = c
    BY <1>1, <1>3
<1>. QED
    BY <1>2, <1>3, <1>4

\* An advance that leaves the backup alone.
LEMMA Mueve ==
    ASSUME IInv, NEW q \in Cortan, activo(q),
           NEW p \in PasosFw \ {"libre", "respaldar"}, pasoFw(q, p),
           p \in {"permanente", "inverso"} => entorno.backend = "firewalld",
           UNCHANGED <<restoFw, averias>>,
           fw' \in Reglas, viejo' \in BOOLEAN, viejo => viejo',
           ASSUME averias = 0, ~viejo', corte'[q].paso = p,
                  corte'[q].abre = corte[q].abre, corte'[q].puerto = corte[q].puerto,
                  corte'[q].respaldo = corte[q].respaldo
           PROVE  ReposoBien(q)'
    PROVE  IInv'
<1>1. corte[q].paso # "libre"
    BY DEF activo
<1>2. PICK c \in TCorte :
              /\ corte' = [corte EXCEPT ![q] = c] /\ corte'[q] = c
              /\ c.paso = p /\ c.abre = corte[q].abre /\ c.puerto = corte[q].puerto
              /\ c.cli = corte[q].cli /\ c.respaldo = corte[q].respaldo
              /\ UNCHANGED <<candado, cruzados>>
    BY <1>1, PasoPropio
<1>3. averias = 0 /\ ~viejo' => ReposoBien(q)'
    BY <1>2
<1>4. c.respaldo \in SUBSET Puertos
    BY <1>1, <1>2, Corta
<1>. QED
    BY <1>1, <1>2, <1>3, <1>4, Avanza

LEMMA Cambios ==
    ASSUME entorno \in Entornos, NEW f \in Reglas, NEW abre \in BOOLEAN, NEW p \in Puertos
    PROVE  /\ cambiar(f, abre, p) \in Reglas /\ guardado(f) \in SUBSET Puertos
           /\ \A P \in SUBSET Puertos : restaurado(f, P) \in Reglas
           /\ \A P \in SUBSET Puertos : poner(P, abre, p) \in SUBSET Puertos
BY DEF Reglas, cambiar, guardado, restaurado, poner

LEMMA PasoTomar ==
    ASSUME IInv, NEW q \in Cortan, NEW abre \in BOOLEAN, NEW p \in Puertos,
           Tomar(q, abre, p)
    PROVE  IInv'
<1> DEFINE c == [CorteLibre EXCEPT !.paso = "respaldar", !.abre = abre,
                                   !.puerto = p, !.cli = TRUE]
<1>1. /\ c \in TCorte /\ c.paso = "respaldar" /\ c.puerto = p /\ c.cli
    BY DEF CorteLibre, TCorte, PasosFw
<1>2. corte \in [Cortan -> TCorte] /\ \A r \in Cortan : corte[r].paso = "libre"
    BY NingunoAssumption DEF IInv, TypeOK, TCorte, InvCandado, Tomar
<1>3. /\ corte' \in [Cortan -> TCorte] /\ corte'[q] = c
      /\ \A r \in Cortan \ {q} : corte'[r] = corte[r]
    BY <1>1, <1>2 DEF Tomar
<1> HIDE DEF c
<1>4. /\ candado' = q
      /\ UNCHANGED <<entorno, sshd, fw, perfil, enlace, tarea, cambio, cruzados,
                     viejo, averias>>
    BY DEF Tomar
<1>5. TypeOK'
    BY <1>3, <1>4 DEF IInv, TypeOK, TCorte, Contenido, Reglas
<1>6. InvTarea' /\ InvFormas' /\ InvEnlace'
  <2>1. InvTarea' /\ (\A h \in Endurecen : ocupada(h)' =>
                 /\ tarea'[h].puerto \in Puertos
                 /\ tarea'[h].antes \in [cfg : Contenido, viva : Contenido])
        /\ (averias' = 0 => \A h \in Endurecen : ocupada(h)' => tarea'[h].cli)
      BY <1>4, OtroFw
  <2>2. \A r \in Cortan : corte'[r].paso # "libre" =>
            /\ corte'[r].puerto \in Puertos /\ corte'[r].cli
            /\ corte'[r].paso = "respaldar"
      BY <1>1, <1>2, <1>3
  <2>. QED
      BY <2>1, <2>2 DEF InvFormas, InvEnlace, activo
<1>7. InvCandado' /\ InvCambio'
    BY <1>1, <1>2, <1>3, <1>4 DEF IInv, InvCandado, InvCambio
<1>8. InvReposo' /\ InvCorte'
  <2>1. \A r \in Cortan : corte'[r].paso \in {"libre", "respaldar"}
      BY <1>1, <1>2, <1>3
  <2>. QED
      BY <1>2, <1>4, <2>1 DEF IInv, InvReposo, InvCorte, CorteBien, activo, abierta, parejas
<1>. QED
    BY <1>5, <1>6, <1>7, <1>8 DEF IInv

LEMMA PasoRespaldarFw ==
    ASSUME IInv, NEW q \in Cortan, RespaldarFw(q)
    PROVE  IInv'
<1>1. /\ corte[q].paso = "respaldar"
      /\ UNCHANGED <<restoFw, fw, viejo, averias>>
    BY DEF RespaldarFw
<1>2. averias = 0 /\ ~viejo => abierta
    BY <1>1, Corta DEF ReposoBien
<1>3. CASE soltar(q)
    BY <1>1, <1>2, <1>3, Corta, Suelta DEF restoFw, abierta
<1>4. CASE /\ corte' = [corte EXCEPT ![q].paso = "cambiar",
                                     ![q].respaldo = guardado(fw)]
           /\ UNCHANGED <<candado, cruzados>>
  <2> DEFINE c == [corte[q] EXCEPT !.paso = "cambiar", !.respaldo = guardado(fw)]
  <2>1. corte[q] \in TCorte /\ guardado(fw) \in SUBSET Puertos
      BY <1>1, Corta, Cambios DEF IInv, TypeOK
  <2>2. /\ c \in TCorte /\ c.paso = "cambiar" /\ c.puerto = corte[q].puerto
        /\ c.cli = corte[q].cli /\ c.respaldo = guardado(fw)
      BY <2>1 DEF TCorte, PasosFw
  <2>3. corte' = [corte EXCEPT ![q] = c]
      BY <1>4
  <2>4. corte'[q] = c
      BY <2>3 DEF IInv, TypeOK
  <2> HIDE DEF c
  <2>5. averias = 0 /\ ~viejo' => ReposoBien(q)'
    <3> SUFFICES ASSUME averias = 0, ~viejo PROVE ReposoBien(q)'
        BY <1>1
    <3>1. /\ entorno.backend # "nftables" => fw.viva = fw.fija
          /\ perfil \in fw.viva /\ guardado(fw) = fw.viva
        BY <1>2 DEF abierta, guardado
    <3>. QED
        BY <1>1, <1>2, <2>2, <2>4, <3>1
           DEF ReposoBien, CorteBien, abierta, parejas, restoFw
  <2>. QED
      BY <1>1, <1>4, <2>1, <2>2, <2>3, <2>5, Avanza, Corta DEF restoFw
<1>. QED
    BY <1>3, <1>4 DEF RespaldarFw

LEMMA PasoCambiar ==
    ASSUME IInv, NEW q \in Cortan, Cambiar(q)
    PROVE  IInv'
<1>1. corte[q].paso = "cambiar" /\ UNCHANGED <<restoFw, viejo, averias>>
    BY DEF Cambiar
<1>2. /\ corte[q].paso # "libre" /\ activo(q)
      /\ fw \in Reglas /\ viejo \in BOOLEAN /\ corte[q] \in TCorte
      /\ corte[q].puerto \in Puertos /\ averias \in 0 .. MaxAverias
      /\ averias = 0 /\ ~viejo => ReposoBien(q) /\ abierta
    BY <1>1, Corta DEF activo, ReposoBien
<1>3. CASE soltar(q) /\ UNCHANGED fw
    BY <1>1, <1>2, <1>3, Suelta DEF restoFw, abierta
<1>4. CASE pasoFw(q, "deshacer") /\ UNCHANGED fw
  <2>1. "deshacer" \in PasosFw
      BY DEF PasosFw
  <2>2. ASSUME averias = 0, ~viejo', corte'[q].paso = "deshacer",
               corte'[q].respaldo = corte[q].respaldo
        PROVE  ReposoBien(q)'
      BY <1>1, <1>2, <1>4, <2>2
         DEF ReposoBien, CorteBien, activo, restoFw, pasoFw, parejas
  <2>. QED
      BY <1>1, <1>2, <1>4, <2>1, <2>2, Mueve
<1>5. CASE fw' = cambiar(fw, corte[q].abre, corte[q].puerto) /\ pasoFw(q, "comprobar")
  <2>1. "comprobar" \in PasosFw
      BY DEF PasosFw
  <2>2. corte[q].abre \in BOOLEAN
      BY <1>2 DEF TCorte
  <2>3. fw' \in Reglas
      BY <1>2, <1>5, <2>2, Cambios DEF IInv, TypeOK
  <2>4. ASSUME averias = 0, ~viejo', corte'[q].paso = "comprobar",
               corte'[q].abre = corte[q].abre, corte'[q].puerto = corte[q].puerto,
               corte'[q].respaldo = corte[q].respaldo
        PROVE  ReposoBien(q)'
    <3>1. ReposoBien(q) /\ parejas
        BY <1>1, <1>2, <2>4 DEF ReposoBien
    <3>2. /\ fw'.viva = poner(fw.viva, corte[q].abre, corte[q].puerto)
          /\ fw'.fija = IF entorno.backend = "ufw"
                        THEN poner(fw.fija, corte[q].abre, corte[q].puerto)
                        ELSE fw.fija
          /\ entorno.backend \in {"ufw", "firewalld", "nftables"}
        BY <1>5, EntornosAssumption DEF cambiar, IInv, TypeOK, Backends
    <3>3. entorno' = entorno /\ perfil' = perfil /\ cruzados' = cruzados
        BY <1>1, <1>5 DEF restoFw, pasoFw
    <3>4. deseado(q)' = deseado(q)
        BY <2>4 DEF deseado, poner
    <3>5. q \notin cruzados /\ entorno.backend # "nftables" =>
             fw.viva = corte[q].respaldo /\ fw.fija = corte[q].respaldo
        BY <1>1, <1>2, <3>1 DEF ReposoBien, CorteBien
    <3>6. CorteBien(q)'
        BY <2>4, <3>2, <3>3, <3>4, <3>5 DEF CorteBien, activo, deseado
    <3>. QED
        BY <1>2, <2>4, <3>1, <3>2, <3>3, <3>6 DEF ReposoBien, activo, parejas
  <2>. QED
      BY <1>1, <1>2, <1>5, <2>1, <2>3, <2>4, Mueve
<1>. QED
    BY <1>3, <1>4, <1>5 DEF Cambiar

LEMMA PasoComprobarSSH ==
    ASSUME IInv, NEW q \in Cortan, ComprobarSSH(q)
    PROVE  IInv'
<1>1. corte[q].paso = "comprobar" /\ UNCHANGED <<restoFw, fw, viejo, averias>>
    BY DEF ComprobarSSH
<1>2. /\ corte[q].paso # "libre" /\ activo(q)
      /\ fw \in Reglas /\ viejo \in BOOLEAN
      /\ averias = 0 /\ ~viejo => ReposoBien(q)
    BY <1>1, Corta DEF activo
<1>3. PICK p \in {"fin", "permanente", "inverso", "deshacer"} :
         /\ pasoFw(q, p)
         /\ p \in {"fin", "permanente"} => perfil \in fw.viva
         /\ p \in {"permanente", "inverso"} <=> entorno.backend = "firewalld"
    BY DEF ComprobarSSH, alcanzable
<1>4. p \in PasosFw
    BY DEF PasosFw
<1>5. ASSUME averias = 0, ~viejo', corte'[q].paso = p,
             corte'[q].abre = corte[q].abre, corte'[q].puerto = corte[q].puerto,
             corte'[q].respaldo = corte[q].respaldo
      PROVE  ReposoBien(q)'
  <2>1. ReposoBien(q)
      BY <1>1, <1>2, <1>5
  <2>2. UNCHANGED <<entorno, fw, perfil, cruzados>>
      BY <1>1, <1>3 DEF restoFw, pasoFw
  <2>3. deseado(q)' = deseado(q)
      BY <1>5 DEF deseado, poner
  <2>4. CorteBien(q)'
      BY <1>1, <1>2, <1>3, <1>5, <2>1, <2>2, <2>3 DEF ReposoBien, CorteBien, activo
  <2>5. entorno.backend \in {"ufw", "firewalld", "nftables"}
      BY EntornosAssumption DEF IInv, TypeOK, Backends
  <2>. QED
      BY <1>2, <1>3, <1>5, <2>1, <2>2, <2>4, <2>5 DEF ReposoBien, activo, abierta, parejas
<1>. QED
    BY <1>1, <1>2, <1>3, <1>4, <1>5, Mueve

LEMMA PasoPermanente ==
    ASSUME IInv, NEW q \in Cortan, Permanente(q)
    PROVE  IInv'
<1>1. /\ corte[q].paso = "permanente" /\ UNCHANGED <<restoFw, averias>>
      /\ entorno.backend = "firewalld"
    BY DEF Permanente, IInv, InvFormas
<1>2. /\ corte[q].paso # "libre" /\ activo(q)
      /\ fw \in Reglas /\ viejo \in BOOLEAN /\ corte[q] \in TCorte
      /\ corte[q].puerto \in Puertos
      /\ averias = 0 /\ ~viejo => ReposoBien(q)
    BY <1>1, Corta DEF activo
<1>3. CASE pasoFw(q, "inverso") /\ UNCHANGED <<fw, viejo>>
  <2>1. "inverso" \in PasosFw
      BY DEF PasosFw
  <2>2. ASSUME averias = 0, ~viejo', corte'[q].paso = "inverso",
               corte'[q].respaldo = corte[q].respaldo
        PROVE  ReposoBien(q)'
      BY <1>1, <1>2, <1>3, <2>2 DEF ReposoBien, CorteBien, activo, restoFw, pasoFw, parejas
  <2>. QED
      BY <1>1, <1>2, <1>3, <2>1, <2>2, Mueve
<1>4. CASE /\ fw' = [fw EXCEPT !.fija = poner(@, corte[q].abre, corte[q].puerto)]
           /\ pasoFw(q, "fin") /\ envejecer(q)
  <2>1. "fin" \in PasosFw
      BY DEF PasosFw
  <2>2. /\ fw' \in Reglas /\ fw'.viva = fw.viva
        /\ fw'.fija = poner(fw.fija, corte[q].abre, corte[q].puerto)
      BY <1>2, <1>4 DEF Reglas, poner
  <2>3. viejo' \in BOOLEAN /\ (viejo => viejo') /\ (q \in cruzados => viejo')
      BY <1>4 DEF envejecer
  <2>4. ASSUME averias = 0, ~viejo', corte'[q].paso = "fin",
               corte'[q].abre = corte[q].abre, corte'[q].puerto = corte[q].puerto,
               corte'[q].respaldo = corte[q].respaldo
        PROVE  ReposoBien(q)'
    <3>1. ReposoBien(q) /\ q \notin cruzados
        BY <1>2, <2>3, <2>4
    <3>2. UNCHANGED <<entorno, perfil, cruzados>>
        BY <1>1, <1>4 DEF restoFw, pasoFw
    <3>3. deseado(q)' = deseado(q)
        BY <2>4 DEF deseado, poner
    <3>4. /\ fw.viva = deseado(q) /\ fw.fija = corte[q].respaldo
          /\ perfil \in fw.viva /\ perfil \in corte[q].respaldo
        BY <1>1, <1>2, <3>1 DEF ReposoBien, CorteBien
    <3>5. fw'.viva = deseado(q) /\ fw'.fija = deseado(q)
        BY <2>2, <3>4 DEF deseado
    <3>. QED
        BY <1>1, <2>4, <3>2, <3>3, <3>4, <3>5
           DEF ReposoBien, CorteBien, activo, abierta, parejas
  <2>. QED
      BY <1>1, <1>2, <1>4, <2>1, <2>2, <2>3, <2>4, Mueve
<1>. QED
    BY <1>3, <1>4 DEF Permanente

LEMMA PasoInverso ==
    ASSUME IInv, NEW q \in Cortan, Inverso(q)
    PROVE  IInv'
<1>1. /\ corte[q].paso = "inverso" /\ UNCHANGED <<restoFw, viejo, averias>>
      /\ entorno.backend = "firewalld" /\ pasoFw(q, "deshacer")
    BY DEF Inverso, IInv, InvFormas
<1>2. /\ corte[q].paso # "libre" /\ activo(q)
      /\ fw \in Reglas /\ viejo \in BOOLEAN /\ corte[q].puerto \in Puertos
      /\ averias = 0 /\ ~viejo => ReposoBien(q)
    BY <1>1, Corta DEF activo
<1>3. "deshacer" \in PasosFw
    BY DEF PasosFw
<1>4. fw' \in Reglas
    BY <1>2 DEF Inverso, Reglas, poner
<1>5. ASSUME averias = 0, ~viejo', corte'[q].paso = "deshacer",
             corte'[q].respaldo = corte[q].respaldo
      PROVE  ReposoBien(q)'
    BY <1>1, <1>2, <1>5 DEF ReposoBien, CorteBien, activo, restoFw, pasoFw, parejas
<1>. QED
    BY <1>1, <1>2, <1>3, <1>4, <1>5, Mueve

LEMMA PasoDeshacerFw ==
    ASSUME IInv, NEW q \in Cortan, DeshacerFw(q) \/ DeshacerFwFalla(q)
    PROVE  IInv'
<1>1. /\ corte[q].paso = "deshacer" /\ UNCHANGED restoFw /\ soltar(q)
    BY DEF DeshacerFw, DeshacerFwFalla
<1>2. /\ corte[q].paso # "libre" /\ activo(q)
      /\ fw \in Reglas /\ viejo \in BOOLEAN /\ averias \in 0 .. MaxAverias
      /\ corte[q].respaldo \in SUBSET Puertos /\ corte[q].puerto \in Puertos
      /\ averias = 0 => corte[q].cli
      /\ averias = 0 /\ ~viejo => ReposoBien(q)
    BY <1>1, Corta DEF activo
<1>3. CASE DeshacerFwFalla(q)
  <2>1. averias' \in 0 .. MaxAverias /\ averias' # 0 /\ UNCHANGED <<fw, viejo>>
      BY <1>2, <1>3, AveriasAssumption DEF DeshacerFwFalla
  <2>. QED
      BY <1>1, <1>2, <2>1, Suelta
<1>4. CASE DeshacerFw(q) /\ ~corte[q].cli
  <2>1. averias' = averias /\ averias # 0 /\ UNCHANGED <<fw, viejo>>
      BY <1>2, <1>4 DEF DeshacerFw
  <2>. QED
      BY <1>1, <1>2, <2>1, Suelta
<1>5. CASE DeshacerFw(q) /\ corte[q].cli
  <2>1. averias' = averias /\ fw' = restaurado(fw, corte[q].respaldo) /\ envejecer(q)
      BY <1>5 DEF DeshacerFw
  <2>2. fw' \in Reglas
      BY <1>2, <2>1 DEF Reglas, restaurado
  <2>3. viejo' \in BOOLEAN /\ (viejo => viejo') /\ (q \in cruzados => viejo')
      BY <2>1 DEF envejecer
  <2>4. ASSUME averias' = 0, ~viejo' PROVE abierta'
    <3>1. /\ perfil' = perfil /\ perfil \in corte[q].respaldo
          /\ entorno.backend = "nftables" => perfil \in fw.fija
        BY <1>1, <1>2, <2>1, <2>3, <2>4 DEF ReposoBien, restoFw, parejas
    <3>2. entorno' = entorno /\ fw \in Reglas
        BY <1>1, <1>2 DEF restoFw
    <3>. QED
        BY <2>1, <3>1, <3>2 DEF abierta, restaurado, Reglas
  <2>. QED
      BY <1>1, <1>2, <2>1, <2>2, <2>3, <2>4, Suelta
<1>. QED
    BY <1>3, <1>4, <1>5

LEMMA PasoResponder ==
    ASSUME IInv, NEW q \in Cortan, Responder(q)
    PROVE  IInv'
<1>1. /\ corte[q].paso = "fin" /\ UNCHANGED <<restoFw, fw, viejo, averias>>
      /\ soltar(q)
    BY DEF Responder
<1>2. averias = 0 /\ ~viejo => abierta
    BY <1>1, Corta DEF ReposoBien
<1>. QED
    BY <1>1, <1>2, Corta, Suelta DEF restoFw, abierta

-----------------------------------------------------------------------------
(* The change of port.                                                     *)

TCambio == [fase : Fases, nuevo : Puertos \cup {Ninguno},
            respaldo : Contenido \cup {Ninguno}]

\* A step of the change crosses whoever it could surprise, so that the others
\* promise nothing more: what is left is that the firewall stays at rest.
LEMMA Cruza ==
    ASSUME IInv, UNCHANGED <<entorno, enlace, tarea, corte, candado, viejo, averias>>,
           cruzar, sshd' \in TSshd, fw' \in Reglas, perfil' \in Puertos,
           cambio' \in TCambio, InvCambio',
           parejas => parejas', abierta => abierta'
    PROVE  IInv'
<1>1. /\ cruzados \subseteq cruzados'
      /\ cruzados' \in SUBSET (Endurecen \cup Cortan)
      /\ \A q \in Cortan : activo(q) => q \in cruzados'
      /\ sshd' # sshd => \A h \in Endurecen : ocupada(h) => h \in cruzados'
    BY DEF cruzar, cortando, enObra, activo, ocupada, IInv, TypeOK
<1>2. TypeOK'
    BY <1>1 DEF IInv, TypeOK, TSshd, TCambio, Contenido, Reglas
<1>3. InvFormas' /\ InvCandado' /\ InvEnlace'
    BY DEF IInv, InvFormas, InvCandado, InvEnlace, ocupada, activo
<1>4. InvReposo'
    BY <1>1 DEF IInv, InvReposo, activo
<1>5. InvCorte'
    BY <1>1 DEF InvCorte, CorteBien, activo
<1>6. InvTarea'
  <2> SUFFICES ASSUME averias' = 0, NEW h \in Endurecen PROVE TareaBien(h)'
      BY DEF InvTarea
  <2>1. TareaBien(h)
      BY DEF IInv, InvTarea
  <2>2. CASE sshd' = sshd
      BY <1>1, <2>1, <2>2 DEF TareaBien, ocupada, nuevo
  <2>3. CASE sshd' # sshd
      BY <1>1, <2>3 DEF TareaBien, ocupada
  <2>. QED
      BY <2>2, <2>3
<1>. QED
    BY <1>2, <1>3, <1>4, <1>5, <1>6 DEF IInv

\* What the change of port knows of the server.
LEMMA Cambia ==
    ASSUME IInv
    PROVE  /\ sshd \in TSshd /\ fw \in Reglas /\ perfil \in Puertos
           /\ cambio \in TCambio /\ InvCambio
BY DEF IInv, TypeOK, TSshd, TCambio

\* A new phase, with the port as it was.
LEMMA Fase ==
    ASSUME IInv, NEW f \in Fases, fase(f), cambio.fase # "nada",
           UNCHANGED <<entorno, perfil>>,
           f \in {"doble", "probado", "final", "restaurar"} => cambio.respaldo \in Contenido
    PROVE  cambio' \in TCambio /\ InvCambio'
<1>1. cambio \in TCambio /\ InvCambio
    BY Cambia
<1>2. cambio' = [cambio EXCEPT !.fase = f]
    BY DEF fase
<1>3. cambio' \in TCambio /\ cambio'.fase = f /\ cambio'.nuevo = cambio.nuevo
      /\ cambio'.respaldo = cambio.respaldo
    BY <1>1, <1>2 DEF TCambio
<1>. QED
    BY <1>1, <1>3 DEF InvCambio

\* sshd reloads a file with other ports, or the one it is given.
LEMMA Recarga ==
    ASSUME NEW s \in TSshd
    PROVE  /\ \A P \in SUBSET Puertos : recargar([s EXCEPT !.cfg.puertos = P]) \in TSshd
           /\ \A c \in Contenido : recargar([s EXCEPT !.cfg = c]) \in TSshd
           /\ s.cfg \in Contenido
BY DEF TSshd, recargar, Contenido

LEMMA PasoProbarAbrir ==
    ASSUME IInv, NEW p \in Puertos, ProbarAbrir(p)
    PROVE  IInv'
<1>1. /\ UNCHANGED <<restoCambio, sshd>> /\ cruzar /\ p # perfil
      /\ fw' = [viva |-> fw.viva \cup {p}, fija |-> fw.fija \cup {p}]
      /\ cambio' = [SinCambio EXCEPT !.fase = "abierto", !.nuevo = p]
    BY DEF ProbarAbrir
<1>2. cambio' \in TCambio /\ InvCambio'
    BY <1>1, Cambia DEF TCambio, SinCambio, Fases, InvCambio, restoCambio, ProbarAbrir
<1>3. fw' \in Reglas /\ (parejas => parejas') /\ (abierta => abierta')
    BY <1>1, Cambia DEF Reglas, abierta, parejas, restoCambio
<1>. QED
    BY <1>1, <1>2, <1>3, Cambia, Cruza DEF restoCambio

LEMMA PasoProbarConfig ==
    ASSUME IInv, ProbarConfig
    PROVE  IInv'
<1>1. /\ cambio.fase = "abierto" /\ UNCHANGED <<restoCambio, fw>> /\ cruzar
      /\ sshd' = recargar([sshd EXCEPT !.cfg.puertos = {perfil, cambio.nuevo}])
      /\ cambio' = [cambio EXCEPT !.fase = "doble", !.respaldo = sshd.cfg]
    BY DEF ProbarConfig
<1>2. cambio.nuevo \in Puertos \ {perfil} /\ entorno.backend # "nftables"
    BY <1>1, Cambia DEF InvCambio
<1>3. sshd' \in TSshd /\ sshd.cfg \in Contenido
    BY <1>1, <1>2, Cambia, Recarga
<1>4. /\ cambio' \in TCambio /\ cambio'.fase = "doble" /\ cambio'.nuevo = cambio.nuevo
      /\ cambio'.respaldo = sshd.cfg
    BY <1>1, <1>3, Cambia DEF TCambio, Fases
<1>5. InvCambio'
    BY <1>1, <1>2, <1>3, <1>4 DEF InvCambio, restoCambio
<1>. QED
    BY <1>1, <1>3, <1>4, <1>5, Cambia, Cruza DEF restoCambio, abierta, parejas

LEMMA PasoProbarConexion ==
    ASSUME IInv, ProbarConexion \/ Cancelar
    PROVE  IInv'
<1>1. /\ cambio.fase \in {"doble", "probado"} /\ UNCHANGED <<restoCambio, sshd, fw>>
      /\ cruzar
    BY DEF ProbarConexion, Cancelar
<1>2. PICK f \in {"probado", "restaurar"} : fase(f)
    BY DEF ProbarConexion, Cancelar
<1>3. f \in Fases /\ cambio.respaldo \in Contenido
    BY <1>1, Cambia DEF Fases, InvCambio
<1>4. cambio' \in TCambio /\ InvCambio'
    BY <1>1, <1>2, <1>3, Fase DEF restoCambio
<1>. QED
    BY <1>1, <1>4, Cambia, Cruza DEF restoCambio, abierta, parejas

LEMMA PasoAplicarConfig ==
    ASSUME IInv, AplicarConfig
    PROVE  IInv'
<1>1. /\ cambio.fase = "probado" /\ UNCHANGED <<restoCambio, fw>> /\ cruzar
      /\ sshd' = recargar([sshd EXCEPT !.cfg.puertos = {cambio.nuevo}])
      /\ fase("final")
    BY DEF AplicarConfig
<1>2. cambio.nuevo \in Puertos /\ cambio.respaldo \in Contenido /\ "final" \in Fases
    BY <1>1, Cambia DEF InvCambio, Fases
<1>3. sshd' \in TSshd
    BY <1>1, <1>2, Cambia, Recarga
<1>4. cambio' \in TCambio /\ InvCambio'
    BY <1>1, <1>2, Fase DEF restoCambio
<1>. QED
    BY <1>1, <1>3, <1>4, Cambia, Cruza DEF restoCambio, abierta, parejas

\* The final connection shows that the firewall lets the new port in.
LEMMA PasoAplicarFinal ==
    ASSUME IInv, AplicarFinal
    PROVE  IInv'
<1>1. /\ cambio.fase = "final" /\ cruzar
      /\ UNCHANGED <<entorno, sshd, fw, enlace, tarea, corte, candado, viejo,
                     averias>>
    BY DEF AplicarFinal
<1>2. /\ cambio.nuevo \in Puertos \ {perfil} /\ cambio.respaldo \in Contenido
      /\ entorno.backend # "nftables"
    BY <1>1, Cambia DEF InvCambio
<1>3. CASE fase("restaurar") /\ UNCHANGED perfil
  <2>1. "restaurar" \in Fases
      BY DEF Fases
  <2>2. cambio' \in TCambio /\ InvCambio'
      BY <1>1, <1>2, <1>3, <2>1, Fase
  <2>. QED
      BY <1>1, <1>3, <2>2, Cambia, Cruza DEF abierta, parejas
<1>4. CASE /\ alcanzable(cambio.nuevo) /\ perfil' = cambio.nuevo
           /\ \/ cambio' = [SinCambio EXCEPT !.fase = "limpiar", !.nuevo = perfil]
              \/ cambio' = SinCambio
  <2>1. cambio' \in TCambio /\ InvCambio'
    <3>1. perfil \in Puertos /\ perfil # perfil'
        BY <1>2, <1>4, Cambia
    <3>2. CASE cambio' = SinCambio
        BY <3>2 DEF TCambio, SinCambio, Fases, InvCambio
    <3>3. CASE cambio' = [SinCambio EXCEPT !.fase = "limpiar", !.nuevo = perfil]
        BY <1>1, <1>2, <3>1, <3>3 DEF TCambio, SinCambio, Fases, InvCambio
    <3>. QED
        BY <1>4, <3>2, <3>3
  <2>2. (abierta => abierta') /\ (parejas => parejas')
      BY <1>1, <1>2, <1>4 DEF abierta, parejas, alcanzable
  <2>. QED
      BY <1>1, <1>2, <1>4, <2>1, <2>2, Cambia, Cruza
<1>. QED
    BY <1>3, <1>4 DEF AplicarFinal

LEMMA PasoRestaurar ==
    ASSUME IInv, Restaurar
    PROVE  IInv'
<1>1. /\ cambio.fase = "restaurar" /\ UNCHANGED <<restoCambio, fw>> /\ cruzar
      /\ sshd' = recargar([sshd EXCEPT !.cfg = cambio.respaldo])
      /\ fase("limpiar")
    BY DEF Restaurar
<1>2. cambio.respaldo \in Contenido /\ "limpiar" \in Fases
    BY <1>1, Cambia DEF InvCambio, Fases
<1>3. sshd' \in TSshd
    BY <1>1, <1>2, Cambia, Recarga
<1>4. cambio' \in TCambio /\ InvCambio'
    BY <1>1, <1>2, Fase DEF restoCambio
<1>. QED
    BY <1>1, <1>3, <1>4, Cambia, Cruza DEF restoCambio, abierta, parejas

\* The port that is closed is not the profile's.
LEMMA PasoLimpiar ==
    ASSUME IInv, Limpiar
    PROVE  IInv'
<1>1. /\ cambio.fase = "limpiar" /\ UNCHANGED <<restoCambio, sshd>> /\ cruzar
      /\ fw' = [viva |-> fw.viva \ {cambio.nuevo}, fija |-> fw.fija \ {cambio.nuevo}]
      /\ cambio' = SinCambio
    BY DEF Limpiar
<1>2. cambio.nuevo # perfil
    BY <1>1, Cambia DEF InvCambio
<1>3. cambio' \in TCambio /\ InvCambio'
    BY <1>1 DEF TCambio, SinCambio, Fases, InvCambio
<1>4. fw' \in Reglas /\ (parejas => parejas') /\ (abierta => abierta')
    BY <1>1, <1>2, Cambia DEF Reglas, abierta, parejas, restoCambio
<1>. QED
    BY <1>1, <1>3, <1>4, Cambia, Cruza DEF restoCambio

-----------------------------------------------------------------------------
(* The environment.                                                        *)

\* A fall is a fault, and without faults the invariant promises most.
LEMMA PasoCaer ==
    ASSUME IInv, CaerEnlace
    PROVE  IInv'
<1>1. averias' \in 0 .. MaxAverias /\ averias' # 0
    BY AveriasAssumption DEF CaerEnlace, IInv, TypeOK
<1>2. /\ tarea \in [Endurecen -> TTarea] /\ corte \in [Cortan -> TCorte]
    BY DEF IInv, TypeOK, TTarea, TCorte
<1>3. /\ tarea' \in [Endurecen -> TTarea] /\ corte' \in [Cortan -> TCorte]
      /\ \A h \in Endurecen : /\ tarea'[h].paso = tarea[h].paso
                              /\ tarea'[h].puerto = tarea[h].puerto
                              /\ tarea'[h].antes = tarea[h].antes
      /\ \A q \in Cortan : /\ corte'[q].paso = corte[q].paso
                           /\ corte'[q].puerto = corte[q].puerto
                           /\ corte'[q].respaldo = corte[q].respaldo
    BY <1>2 DEF CaerEnlace, TTarea, TCorte
<1>4. UNCHANGED <<entorno, sshd, fw, perfil, candado, cambio, historia>>
      /\ enlace' \in BOOLEAN
    BY DEF CaerEnlace
<1>5. TypeOK'
    BY <1>1, <1>3, <1>4 DEF IInv, TypeOK, TTarea, TCorte, historia, Contenido, Reglas
<1>6. InvFormas' /\ InvCandado' /\ InvCambio'
    BY <1>3, <1>4 DEF IInv, InvFormas, InvCandado, InvCambio, ocupada, activo
<1>. QED
    BY <1>1, <1>5, <1>6 DEF IInv, InvEnlace, InvReposo, InvCorte, InvTarea

\* The link comes back, or nothing happens.
LEMMA Quieto ==
    ASSUME IInv, enlace' \in BOOLEAN,
           UNCHANGED <<entorno, sshd, fw, perfil, tarea, corte, candado, cambio,
                       historia, averias>>
    PROVE  IInv'
<1>1. TypeOK'
    BY DEF IInv, TypeOK, historia, Contenido, Reglas
<1>2. InvFormas' /\ InvCandado' /\ InvCambio' /\ InvEnlace'
    BY DEF IInv, InvFormas, InvCandado, InvCambio, InvEnlace, ocupada, activo
<1>3. InvReposo'
    BY DEF IInv, InvReposo, abierta, parejas, activo, historia
<1>4. InvCorte'
  <2> SUFFICES ASSUME (averias = 0 /\ ~viejo)', NEW q \in Cortan PROVE CorteBien(q)'
      BY DEF InvCorte
  <2>1. CorteBien(q)
      BY DEF IInv, InvCorte, historia
  <2>. QED
      BY <2>1 DEF CorteBien, activo, deseado, poner, historia
<1>5. InvTarea'
  <2> SUFFICES ASSUME averias' = 0, NEW h \in Endurecen PROVE TareaBien(h)'
      BY DEF InvTarea
  <2>1. TareaBien(h)
      BY DEF IInv, InvTarea
  <2>. QED
      BY <2>1 DEF TareaBien, ocupada, nuevo, historia
<1>. QED
    BY <1>1, <1>2, <1>3, <1>4, <1>5 DEF IInv

-----------------------------------------------------------------------------
(* The invariant.                                                          *)

LEMMA Inicio == Init => IInv
<1> SUFFICES ASSUME Init PROVE IInv
    OBVIOUS
<1>1. /\ tarea = [h \in Endurecen |-> TareaLibre]
      /\ corte = [q \in Cortan |-> CorteLibre]
      /\ candado = Ninguno /\ cambio = SinCambio /\ averias = 0 /\ viejo = FALSE
      /\ entorno \in Entornos /\ enlace = TRUE /\ cruzados = {}
    BY DEF Init
<1>2. PICK p \in Puertos :
         /\ perfil = p
         /\ sshd = LET c == [modo |-> "previo", puertos |-> {p}]
                   IN  [cfg |-> c, viva |-> c, bak |-> [q \in Quiere |-> Ninguno]]
         /\ fw = [viva |-> {p}, fija |-> {p}]
    BY DEF Init
<1>3. sshd \in TSshd /\ fw \in Reglas /\ perfil \in Puertos /\ abierta /\ parejas
    BY <1>2 DEF TSshd, Contenido, Modos, Reglas, abierta, parejas
<1>4. CorteLibre \in TCorte /\ CorteLibre.paso = "libre"
    BY DEF CorteLibre, TCorte, PasosFw
<1>5. /\ tarea \in [Endurecen -> TTarea] /\ corte \in [Cortan -> TCorte]
      /\ \A h \in Endurecen : tarea[h].paso = "libre"
      /\ \A q \in Cortan : corte[q].paso = "libre"
    BY <1>1, <1>4, Libre
<1>6. SinCambio \in TCambio /\ SinCambio.fase = "nada"
    BY DEF TCambio, SinCambio, Fases
<1>7. TypeOK
  <2>1. averias \in 0 .. MaxAverias
      BY <1>1, AveriasAssumption
  <2>2. /\ tarea \in [Endurecen -> TTarea] /\ corte \in [Cortan -> TCorte]
        /\ cambio \in TCambio
      BY <1>1, <1>5, <1>6
  <2>3. /\ candado \in Cortan \cup {Ninguno} /\ viejo \in BOOLEAN /\ enlace \in BOOLEAN
        /\ entorno \in Entornos /\ cruzados \in SUBSET (Endurecen \cup Cortan)
      BY <1>1
  <2>. QED
      BY <1>3, <2>1, <2>2, <2>3 DEF TypeOK, TSshd, TTarea, TCorte, TCambio
<1>8. InvFormas /\ InvCandado /\ InvCambio /\ InvEnlace
    BY <1>1, <1>5, <1>6, NingunoAssumption
       DEF InvFormas, InvCandado, InvCambio, InvEnlace, ocupada, activo
<1>9. InvReposo /\ InvCorte /\ InvTarea
    BY <1>3, <1>5 DEF InvReposo, InvCorte, InvTarea, CorteBien, TareaBien, activo,
                      ocupada, abierta
<1>. QED
    BY <1>7, <1>8, <1>9 DEF IInv

LEMMA Inductivo == IInv /\ [Next]_vars => IInv'
<1> SUFFICES ASSUME IInv, [Next]_vars PROVE IInv'
    OBVIOUS
<1>1. CASE UNCHANGED vars
    BY <1>1, Quieto DEF vars, historia, IInv, TypeOK
<1>2. ASSUME NEW h \in Endurecen, Asegurar(h) \/ Permitir(h) PROVE IInv'
    BY <1>2, PasoEmpezar DEF Asegurar, Permitir, Quiere
<1>3. ASSUME NEW h \in Endurecen,
             Respaldar(h) \/ Escribir(h) \/ EscribirTrunca(h) \/ Comprobar(h)
      PROVE  IInv'
    BY <1>3, PasoRespaldar, PasoEscribir, PasoEscribirTrunca, PasoComprobar
<1>4. ASSUME NEW h \in Endurecen,
             \/ Recargar(h) \/ ProbarLlave(h) \/ ProbarCerrada(h) \/ ProbarAbierta(h)
             \/ Deshacer(h) \/ DeshacerFalla(h)
      PROVE  IInv'
    BY <1>4, PasoRecargar, PasoProbar, PasoDeshacer
<1>5. ASSUME NEW q \in Cortan, NEW abre \in BOOLEAN, NEW p \in Puertos, Tomar(q, abre, p)
      PROVE  IInv'
    BY <1>5, PasoTomar
<1>6. ASSUME NEW q \in Cortan,
             RespaldarFw(q) \/ Cambiar(q) \/ ComprobarSSH(q) \/ Permanente(q)
      PROVE  IInv'
    BY <1>6, PasoRespaldarFw, PasoCambiar, PasoComprobarSSH, PasoPermanente
<1>7. ASSUME NEW q \in Cortan,
             Inverso(q) \/ DeshacerFw(q) \/ DeshacerFwFalla(q) \/ Responder(q)
      PROVE  IInv'
    BY <1>7, PasoInverso, PasoDeshacerFw, PasoResponder
<1>8. ASSUME NEW p \in Puertos, ProbarAbrir(p) PROVE IInv'
    BY <1>8, PasoProbarAbrir
<1>9. CASE ProbarConfig \/ ProbarConexion \/ AplicarConfig \/ AplicarFinal
           \/ Cancelar \/ Restaurar \/ Limpiar
    BY <1>9, PasoProbarConfig, PasoProbarConexion, PasoAplicarConfig, PasoAplicarFinal,
       PasoRestaurar, PasoLimpiar
<1>10. CASE CaerEnlace
    BY <1>10, PasoCaer
<1>11. CASE Conectar
    BY <1>11, Quieto DEF Conectar
<1>. QED
    BY <1>1, <1>2, <1>3, <1>4, <1>5, <1>6, <1>7, <1>8, <1>9, <1>10, <1>11 DEF Next

\* The inductive invariant holds of every behaviour: what each handler found and
\* saved is still so until somebody crosses it.
THEOREM Invariante == Spec => []IInv
BY Inicio, Inductivo, PTL DEF Spec

\* Every variable of the server, of the handlers of claves.go and firewall.go and
\* of the change of port keeps its type.
THEOREM TipoCorrecto == Spec => []TypeOK
<1>1. IInv => TypeOK
    BY DEF IInv
<1>. QED
    BY <1>1, Invariante, PTL

\* "Firewall seguro: protege el puerto SSH": when aplicarFirewall has let go of
\* its lock the port of the profile is open, now and after a reload, with a change
\* of the SSH port at any point of its way.
THEOREM PuertoSSHProtegido == Spec => []PuertoProtegido
<1>1. IInv => PuertoProtegido
  <2> SUFFICES ASSUME IInv, candado = Ninguno, ~viejo, averias = 0
               PROVE  perfil \in fw.viva \cap fw.fija
      BY DEF PuertoProtegido
  <2>1. \A q \in Cortan : corte[q].paso = "libre"
      BY NingunoAssumption DEF IInv, InvCandado
  <2>2. abierta
      BY <2>1 DEF IInv, InvReposo
  <2>. QED
      BY <2>2 DEF abierta
<1>. QED
    BY <1>1, Invariante, PTL

-----------------------------------------------------------------------------
(* Whole or nothing.                                                       *)

\* Another handler of hardening does not end this one.
LEMMA Ajeno ==
    ASSUME IInv, NEW h \in Endurecen, NEW g \in Endurecen \ {h},
           \/ \E p \in PasosSSH : pasoSSH(g, p)
           \/ acabar(g)
           \/ \E quiere \in Quiere : empezar(g, quiere)
    PROVE  tarea'[h] = tarea[h]
<1>1. tarea \in [Endurecen -> TTarea]
    BY DEF IInv, TypeOK, TTarea
<1>. QED
    BY <1>1 DEF pasoSSH, acabar, empezar

\* A step of a handler moves it on, or ends it.
LEMMA Pasos ==
    ASSUME NEW h \in Endurecen,
           \/ Asegurar(h) \/ Permitir(h) \/ Respaldar(h) \/ Escribir(h)
           \/ EscribirTrunca(h) \/ Comprobar(h) \/ Recargar(h) \/ ProbarLlave(h)
           \/ ProbarCerrada(h) \/ ProbarAbierta(h) \/ Deshacer(h) \/ DeshacerFalla(h)
    PROVE  /\ \/ \E p \in PasosSSH : pasoSSH(h, p)
              \/ acabar(h)
              \/ \E quiere \in Quiere : empezar(h, quiere)
           /\ corte' = corte
<1>1. \/ \E p \in PasosSSH : pasoSSH(h, p)
      \/ acabar(h)
      \/ \E quiere \in Quiere : empezar(h, quiere)
    BY DEF Asegurar, Permitir, Respaldar, Escribir, EscribirTrunca, Comprobar, Recargar,
           ProbarLlave, ProbarCerrada, ProbarAbierta, Deshacer, DeshacerFalla, PasosSSH,
           Quiere
<1>2. corte' = corte
    BY <1>1 DEF pasoSSH, acabar, empezar, resto
<1>. QED
    BY <1>1, <1>2

\* The ends of a handler that nobody crossed: the file as it was, or tested.
LEMMA FinHilo ==
    ASSUME IInv, NEW h \in Endurecen, ocupada(h), tarea'[h].paso = "libre",
           tarea[h].antes.cfg = tarea[h].antes.viva, h \notin cruzados, averias' = 0,
           \/ Respaldar(h) \/ Escribir(h) \/ EscribirTrunca(h) \/ Comprobar(h)
           \/ Recargar(h) \/ ProbarLlave(h) \/ ProbarCerrada(h) \/ ProbarAbierta(h)
           \/ Deshacer(h) \/ DeshacerFalla(h)
    PROVE  sshdEntero(tarea[h])
<1> DEFINE t == tarea[h]
<1>1. averias = 0 /\ averias' # averias + 1
    BY Hilo DEF Respaldar, Escribir, EscribirTrunca, Comprobar, Recargar, ProbarLlave,
                ProbarCerrada, ProbarAbierta, Deshacer, DeshacerFalla
<1>2. /\ t \in TTarea /\ t.quiere \in Quiere /\ sshd \in TSshd /\ t.cli
      /\ t.antes.cfg \in Contenido /\ TareaBien(h)
    BY <1>1, Hilo DEF TTarea
<1>3. \A p \in PasosSSH \ {"libre"} : ~pasoSSH(h, p)
    BY Propio
<1>4. CASE Respaldar(h) \/ Escribir(h)
  <2>1. sshd' = sshd
      BY <1>3, <1>4 DEF Respaldar, Escribir, PasosSSH
  <2>2. sshd.cfg = t.antes.cfg /\ sshd.viva = t.antes.cfg
      BY <1>2, <1>4 DEF TareaBien, Respaldar, Escribir
  <2>. QED
      BY <2>1, <2>2 DEF sshdEntero
<1>5. CASE Comprobar(h) \/ Recargar(h)
  <2>1. sshd' = restituir(sshd, t.quiere)
      BY <1>2, <1>3, <1>5 DEF Comprobar, Recargar, PasosSSH
  <2>2. sshd.bak[t.quiere] = t.antes.cfg /\ sshd.viva = t.antes.cfg
      BY <1>2, <1>5 DEF TareaBien, Comprobar, Recargar
  <2>3. sshd' = [sshd EXCEPT !.cfg = t.antes.cfg]
      BY <1>2, <2>1, <2>2, Respaldados
  <2>. QED
      BY <1>2, <2>2, <2>3 DEF sshdEntero, TSshd
<1>6. CASE ProbarLlave(h)
    BY <1>3, <1>6 DEF ProbarLlave, PasosSSH
<1>7. CASE ProbarCerrada(h) \/ ProbarAbierta(h)
  <2>1. /\ sshd' = sshd
        /\ t.quiere = "segura" => ~aceptaClave
      BY <1>3, <1>7 DEF ProbarCerrada, ProbarAbierta, PasosSSH
  <2>2. sshd.cfg = nuevo(t) /\ sshd.viva = nuevo(t) /\ t.quiere \in entorno.llave
      BY <1>2, <1>7 DEF TareaBien, ProbarCerrada, ProbarAbierta
  <2>3. nuevo(t).modo = t.quiere
      BY <1>2 DEF nuevo, Contenido
  <2>. QED
      BY <2>1, <2>2, <2>3 DEF sshdEntero, aceptaClave, nuevo
<1>8. CASE Deshacer(h)
  <2>1. sshd' = recargar(restituir(sshd, t.quiere))
      BY <1>2, <1>8 DEF Deshacer
  <2>2. sshd.bak[t.quiere] = t.antes.cfg
      BY <1>2, <1>8 DEF TareaBien, Deshacer
  <2>3. restituir(sshd, t.quiere) = [sshd EXCEPT !.cfg = t.antes.cfg]
      BY <1>2, <2>2, Respaldados
  <2>. QED
      BY <1>2, <2>1, <2>3 DEF sshdEntero, TSshd, recargar
<1>. QED
    BY <1>1, <1>4, <1>5, <1>6, <1>7, <1>8 DEF EscribirTrunca, DeshacerFalla

\* The ends of a change of the firewall that nobody crossed.
LEMMA FinCorte ==
    ASSUME IInv, NEW q \in Cortan, activo(q), corte'[q].paso = "libre",
           q \notin cruzados, ~viejo', averias' = 0, entorno.backend # "nftables",
           \/ RespaldarFw(q) \/ Cambiar(q) \/ ComprobarSSH(q) \/ Permanente(q)
           \/ Inverso(q) \/ DeshacerFw(q) \/ DeshacerFwFalla(q) \/ Responder(q)
    PROVE  fwEntero(corte[q])
<1> DEFINE c == corte[q]
<1>1. averias \in 0 .. MaxAverias /\ viejo \in BOOLEAN /\ corte \in [Cortan -> TCorte]
    BY DEF IInv, TypeOK, TCorte
<1>2. averias = 0 /\ averias' # averias + 1 /\ ~viejo
    BY <1>1 DEF RespaldarFw, Cambiar, ComprobarSSH, Permanente, Inverso, DeshacerFw,
                DeshacerFwFalla, Responder, envejecer
<1>3. /\ fw \in Reglas /\ c.cli /\ CorteBien(q)
    BY <1>2, Corta DEF ReposoBien, activo
<1>4. \A p \in PasosFw \ {"libre"} : ~pasoFw(q, p)
    BY <1>1 DEF pasoFw, TCorte
<1>5. CASE Cambiar(q)
  <2>1. fw' = fw
      BY <1>4, <1>5 DEF Cambiar, PasosFw
  <2>2. fw.viva = c.respaldo /\ fw.fija = c.respaldo
      BY <1>3, <1>5 DEF CorteBien, Cambiar
  <2>. QED
      BY <1>3, <2>1, <2>2 DEF fwEntero, Reglas
<1>6. CASE DeshacerFw(q)
    BY <1>3, <1>6 DEF DeshacerFw, restaurado, fwEntero
<1>7. CASE Responder(q)
  <2>1. fw' = fw /\ fw.viva = deseado(q) /\ fw.fija = deseado(q)
      BY <1>3, <1>7 DEF CorteBien, Responder
  <2>. QED
      BY <1>3, <2>1 DEF fwEntero, Reglas, deseado
<1>8. ~RespaldarFw(q) /\ ~ComprobarSSH(q) /\ ~Permanente(q) /\ ~Inverso(q)
    BY <1>4 DEF RespaldarFw, ComprobarSSH, Permanente, Inverso, PasosFw, activo
<1>. QED
    BY <1>2, <1>5, <1>6, <1>7, <1>8 DEF DeshacerFwFalla

\* A change of the firewall leaves the others where they were.
LEMMA UnCorte ==
    ASSUME IInv, NEW q \in Cortan, NEW r \in Cortan, activo(q),
           \/ \E abre \in BOOLEAN, p \in Puertos : Tomar(r, abre, p)
           \/ RespaldarFw(r) \/ Cambiar(r) \/ ComprobarSSH(r) \/ Permanente(r)
           \/ Inverso(r) \/ DeshacerFw(r) \/ DeshacerFwFalla(r) \/ Responder(r)
    PROVE  /\ r = q /\ tarea' = tarea
           /\ \A abre \in BOOLEAN, p \in Puertos : ~Tomar(r, abre, p)
<1>1. candado = q /\ q # Ninguno
    BY NingunoAssumption DEF IInv, InvCandado, activo
<1>2. \A abre \in BOOLEAN, p \in Puertos : ~Tomar(r, abre, p)
    BY <1>1 DEF Tomar
<1>3. corte[r].paso # "libre"
    BY <1>2 DEF RespaldarFw, Cambiar, ComprobarSSH, Permanente, Inverso, DeshacerFw,
                DeshacerFwFalla, Responder
<1>4. tarea' = tarea
    BY <1>2 DEF RespaldarFw, Cambiar, ComprobarSSH, Permanente, Inverso, DeshacerFw,
                DeshacerFwFalla, Responder, restoFw
<1>. QED
    BY <1>1, <1>2, <1>3, <1>4 DEF IInv, InvCandado

\* Nobody else ends a handler.
LEMMA Ajenos ==
    ASSUME IInv,
           \/ \E p \in Puertos : ProbarAbrir(p)
           \/ ProbarConfig \/ ProbarConexion \/ AplicarConfig \/ AplicarFinal
           \/ Cancelar \/ Restaurar \/ Limpiar \/ Conectar \/ UNCHANGED vars
    PROVE  tarea' = tarea /\ corte' = corte
BY DEF ProbarAbrir, ProbarConfig, ProbarConexion, AplicarConfig, AplicarFinal, Cancelar,
       Restaurar, Limpiar, Conectar, restoCambio, vars

LEMMA HilosEnteros ==
    ASSUME IInv, Next, NEW h \in Endurecen
    PROVE  HiloEntero(h)
<1> SUFFICES ASSUME ocupada(h), tarea'[h].paso = "libre",
                    tarea[h].antes.cfg = tarea[h].antes.viva, h \notin cruzados,
                    averias' = 0
             PROVE  sshdEntero(tarea[h])
    BY DEF HiloEntero, ocupada
<1>1. ASSUME NEW g \in Endurecen,
             \/ Asegurar(g) \/ Permitir(g) \/ Respaldar(g) \/ Escribir(g)
             \/ EscribirTrunca(g) \/ Comprobar(g) \/ Recargar(g) \/ ProbarLlave(g)
             \/ ProbarCerrada(g) \/ ProbarAbierta(g) \/ Deshacer(g) \/ DeshacerFalla(g)
      PROVE  sshdEntero(tarea[h])
  <2>1. g = h
      BY <1>1, Pasos, Ajeno DEF ocupada
  <2>2. ~Asegurar(h) /\ ~Permitir(h)
      BY DEF Asegurar, Permitir, empezar, ocupada
  <2>. QED
      BY <1>1, <2>1, <2>2, FinHilo
<1>2. tarea' # tarea
    BY DEF ocupada
<1>3. ~CaerEnlace
    BY DEF CaerEnlace, IInv, TypeOK
<1>4. ASSUME NEW q \in Cortan,
             \/ \E abre \in BOOLEAN, p \in Puertos : Tomar(q, abre, p)
             \/ RespaldarFw(q) \/ Cambiar(q) \/ ComprobarSSH(q) \/ Permanente(q)
             \/ Inverso(q) \/ DeshacerFw(q) \/ DeshacerFwFalla(q) \/ Responder(q)
      PROVE  FALSE
    BY <1>2, <1>4 DEF Tomar, RespaldarFw, Cambiar, ComprobarSSH, Permanente, Inverso,
                      DeshacerFw, DeshacerFwFalla, Responder, restoFw
<1>. QED
    BY <1>1, <1>2, <1>3, <1>4, Ajenos DEF Next

LEMMA CortesEnteros ==
    ASSUME IInv, Next, NEW q \in Cortan
    PROVE  CorteEntero(q)
<1> SUFFICES ASSUME activo(q), corte'[q].paso = "libre", q \notin cruzados, ~viejo',
                    averias' = 0, entorno.backend # "nftables"
             PROVE  fwEntero(corte[q])
    BY DEF CorteEntero, activo
<1>1. ASSUME NEW r \in Cortan,
             \/ \E abre \in BOOLEAN, p \in Puertos : Tomar(r, abre, p)
             \/ RespaldarFw(r) \/ Cambiar(r) \/ ComprobarSSH(r) \/ Permanente(r)
             \/ Inverso(r) \/ DeshacerFw(r) \/ DeshacerFwFalla(r) \/ Responder(r)
      PROVE  fwEntero(corte[q])
  <2>1. r = q /\ \A abre \in BOOLEAN, p \in Puertos : ~Tomar(r, abre, p)
      BY <1>1, UnCorte
  <2>. QED
      BY <1>1, <2>1, FinCorte
<1>2. corte' # corte
    BY DEF activo
<1>3. ~CaerEnlace
    BY DEF CaerEnlace, IInv, TypeOK
<1>4. ASSUME NEW g \in Endurecen,
             \/ Asegurar(g) \/ Permitir(g) \/ Respaldar(g) \/ Escribir(g)
             \/ EscribirTrunca(g) \/ Comprobar(g) \/ Recargar(g) \/ ProbarLlave(g)
             \/ ProbarCerrada(g) \/ ProbarAbierta(g) \/ Deshacer(g) \/ DeshacerFalla(g)
      PROVE  FALSE
    BY <1>2, <1>4, Pasos
<1>. QED
    BY <1>1, <1>2, <1>3, <1>4, Ajenos DEF Next

\* "valida la configuracion y conserva rollback antes de confirmar el cambio": a
\* hardening of sshd, or a change of the firewall, that nothing crosses ends with
\* the change made and tested, or with the server as it was, whichever step of it
\* fails.
THEOREM CambiosEnteros == Spec => TodoONada
<1>1. IInv /\ [Next]_vars =>
         [(\A h \in Endurecen : HiloEntero(h)) /\ (\A q \in Cortan : CorteEntero(q))]_vars
    BY HilosEnteros, CortesEnteros
<1>. QED
    BY <1>1, Invariante, PTL DEF Spec, TodoONada
=============================================================================
