-------------------------- MODULE ReemplazosProofs --------------------------
(***************************************************************************)
(* Proofs about the two components that replace a file in several steps,   *)
(* each of which may fail or meet somebody else's.  The updater replaces   *)
(* the program: Actualizador, for every finite set of releases and every   *)
(* number of processes, helpers, requests and attempts.  The file manager  *)
(* replaces a remote document: Archivos, for every number of connections,  *)
(* windows, closings and contents.  They share no state.                   *)
(***************************************************************************)
EXTENDS Actualizador, Archivos, FiniteSetTheorems, WellFoundedInduction, TLAPS

-----------------------------------------------------------------------------
(* The updater: the inductive invariant.                                   *)

\* Who works has a release to work on.
InvVersion ==
    /\ \A a \in vivas : app[a].v \in Versiones
    /\ \A h \in trabajando : ayudante[h].v \in Versiones
    /\ \A q \in Peticiones : peticion[q].paso # "libre" => peticion[q].v \in Versiones

\* One file at most is being written, and nobody runs from it; what a process
\* runs from is whole, under its name or in a copy.
InvImagen ==
    /\ \A h, k \in Ayudantes :
          ayudante[h].paso = "copiando" /\ ayudante[k].paso = "copiando" => h = k
    /\ escribiendo => exe = Roto
    /\ enMarcha("exe") => exe \in Versiones
    /\ \A b \in Respaldos : enMarcha(b) => respaldo[b] \in Versiones

\* While a helper copies, the program is not there, or not whole.
FaseEntera == {"renombrar", "listo"}
FaseCopia == {"copiar", "copiando", "lanzar"}
hayCopia == \E b \in Respaldos : respaldo[b] \in Versiones

\* As long as the helpers do not overlap: one works at most, which started
\* from the program that is there.
InvSolo ==
    ~solapados =>
    /\ \A h, k \in trabajando : h = k
    /\ \A q \in Peticiones : peticion[q].paso = "copiado" =>
          trabajando = {} /\ (updater \in Versiones => exe = updater)

\* Up to the rename and from the launch on the program is whole; in between,
\* nobody runs from its name, there is a copy, and the one that the helper
\* would put back is whole or not there.
InvFases ==
    ~solapados =>
    /\ \A h \in Ayudantes :
          /\ ayudante[h].paso \in FaseEntera => exe \in Versiones
          /\ ayudante[h].paso \in FaseCopia =>
                /\ ~enMarcha("exe")
                /\ hayCopia
                /\ respaldo[ayudante[h].backup] \in Versiones \cup {Falta}
    /\ trabajando = {} =>
          /\ exe \in Versiones \/ hayCopia
          /\ ~sinVuelta => exe \in Versiones

IInv ==
    /\ TypeOK
    /\ InvVersion
    /\ InvImagen
    /\ InvSolo
    /\ InvFases

\* The record that the panel reads is how the last attempt failed.
InvFallo ==
    fallo # SinRegistro =>
        /\ fallo.paso \in Fallos
        /\ registro[deArranque] = fallo

-----------------------------------------------------------------------------
(* The releases, and the values that the variables take.                   *)

\* A set of natural numbers that is not empty has a least one.
LEMMA MinimoNatural ==
    ASSUME NEW S \in SUBSET Nat, S # {}
    PROVE  \E x \in S : \A y \in S : x <= y
<1>1. \E x \in S : \A y \in S : <<y, x>> \notin OpToRel(<, Nat)
    BY NatLessThanWellFounded, WFMin
<1>2. PICK x \in S : \A y \in S : <<y, x>> \notin OpToRel(<, Nat)
    BY <1>1
<1>3. \A y \in S : ~(y < x)
    BY <1>2 DEF OpToRel
<1>. QED
    BY <1>3

\* A finite set of numbers has a bound: the first elements of an enumeration
\* that had none would have a last one, which cannot be what breaks it.
LEMMA Acotado ==
    ASSUME NEW S \in SUBSET Nat, IsFiniteSet(S)
    PROVE  \E m \in Nat : \A x \in S : x <= m
<1>1. PICK n \in Nat : ExistsSurjection(1 .. n, S)
    BY FS_NatSurjection
<1>2. PICK f \in [1 .. n -> S] : \A x \in S : \E i \in 1 .. n : f[i] = x
    BY <1>1 DEF ExistsSurjection, Surjection
<1> DEFINE cota(k, m) == \A i \in 1 .. n : i <= k => f[i] <= m
           Sin == {k \in Nat : ~\E m \in Nat : cota(k, m)}
<1>3. ASSUME Sin # {} PROVE FALSE
    <2>1. PICK k \in Sin : \A y \in Sin : k <= y
        BY <1>3, MinimoNatural
    <2>2. k \in Nat /\ ~\E m \in Nat : cota(k, m)
        BY <2>1
    <2>3. k # 0
        <3>1. ASSUME k = 0 PROVE cota(k, 0)
            BY <3>1
        <3>. QED
            BY <3>1, <2>2
    <2>4. k - 1 \in Nat
        BY <2>2, <2>3
    <2>5. k - 1 \notin Sin
        <3>1. ~(k <= k - 1)
            BY <2>2
        <3>. QED
            BY <3>1, <2>1
    <2>6. PICK m \in Nat : cota(k - 1, m)
        BY <2>4, <2>5
    <2>7. CASE k \in 1 .. n
        <3>1. f[k] \in Nat
            BY <1>2, <2>7
        <3> DEFINE c == m + f[k]
        <3>2. c \in Nat /\ m <= c /\ f[k] <= c
            <4>1. \A y, z \in Nat : y + z \in Nat /\ y <= y + z /\ z <= y + z
                OBVIOUS
            <4>. QED
                BY <3>1, <4>1
        <3> HIDE DEF c
        <3>3. ASSUME NEW i \in 1 .. n, i <= k PROVE f[i] <= c
            <4>1. f[i] \in Nat
                BY <1>2
            <4>2. i = k \/ i <= k - 1
                BY <3>3, <2>2
            <4>3. CASE i = k
                BY <4>3, <3>2
            <4>4. CASE i <= k - 1
                <5>1. f[i] <= m
                    BY <4>4, <2>6
                <5>. QED
                    BY <5>1, <4>1, <3>2
            <4>. QED
                BY <4>2, <4>3, <4>4
        <3>. QED
            BY <3>2, <3>3, <2>2
    <2>8. CASE k \notin 1 .. n
        <3>1. \A i \in 1 .. n : i <= k => i <= k - 1
            BY <2>8, <2>2
        <3>2. cota(k, m)
            BY <3>1, <2>6
        <3>. QED
            BY <3>2, <2>2
    <2>. QED
        BY <2>7, <2>8
<1>4. PICK m \in Nat : cota(n, m)
    BY <1>3
<1>5. ASSUME NEW x \in S PROVE x <= m
    <2>1. PICK i \in 1 .. n : f[i] = x
        BY <1>2
    <2>2. i <= n
        BY <2>1
    <2>. QED
        BY <2>1, <2>2, <1>4
<1>. QED
    BY <1>5

\* There is a first release and a last one; the marks of a file that is not
\* there and of one that is not whole are no release.
LEMMA Extremos ==
    /\ Min(Versiones) \in Versiones
    /\ Versiones \subseteq Nat
    /\ Roto \in Nat
    /\ Roto \notin Versiones
    /\ Falta \notin Versiones
    /\ Roto # Falta
<1>1. Versiones \in SUBSET Nat /\ Versiones # {} /\ Falta \notin Versiones
    BY VersionesAssumption DEF Falta
<1>2. Min(Versiones) \in Versiones
    <2>1. \E x \in Versiones : \A y \in Versiones : x <= y
        BY <1>1, MinimoNatural
    <2>. QED
        BY <2>1 DEF Min
<1> DEFINE Cotas == {m \in Nat : \A x \in Versiones : x <= m}
<1>3. PICK m \in Cotas : \A y \in Cotas : m <= y
    <2>1. Cotas # {}
        BY <1>1, VersionesAssumption, Acotado
    <2>. QED
        BY <2>1, MinimoNatural
<1>4. m \in Nat /\ \A x \in Versiones : x \in Nat /\ x <= m
    BY <1>1, <1>3
<1>5. m \in Versiones
    <2> SUFFICES ASSUME m \notin Versiones PROVE FALSE
        OBVIOUS
    <2>1. ASSUME NEW x \in Versiones PROVE x <= m - 1
        <3>1. x \in Nat /\ x <= m /\ x # m
            BY <1>4
        <3>. QED
            BY <3>1, <1>4
    <2>2. PICK x \in Versiones : TRUE
        BY <1>1
    <2>3. m - 1 \in Nat
        <3>1. x \in Nat /\ x <= m - 1
            BY <2>1, <1>4
        <3>. QED
            BY <3>1, <1>4
    <2>4. ~(m <= m - 1)
        BY <1>4
    <2>. QED
        BY <2>1, <2>3, <2>4, <1>3
<1>6. Max(Versiones) \in Versiones /\ \A x \in Versiones : Max(Versiones) >= x
    <2>1. \A y \in Versiones : m >= y
        BY <1>4
    <2>. QED
        BY <2>1, <1>5 DEF Max
<1> DEFINE M == Max(Versiones)
<1>7. M \in Nat /\ \A x \in Versiones : x \in Nat /\ M >= x
    BY <1>4, <1>6
<1> HIDE DEF M
<1>8. M + 1 \in Nat /\ M + 1 # 0 /\ M + 1 \notin Versiones
    BY <1>7
<1>9. Roto \in Nat /\ Roto # 0 /\ Roto \notin Versiones
    BY <1>8 DEF Roto, M
<1>. QED
    BY <1>1, <1>2, <1>9 DEF Falta

\* A process that has just started.
LEMMA Arrancada ==
    ASSUME NEW v \in Versiones, NEW r
    PROVE  /\ arrancada(v, r) \in App
           /\ arrancada(v, r).viva
           /\ arrancada(v, r).v = v
           /\ arrancada(v, r).imagen = "exe"
BY DEF arrancada, App

\* A file that is renamed takes with it the processes that run from it.
LEMMA Movidas ==
    ASSUME TypeOK, NEW de \in Respaldos \cup {"exe"}, NEW a \in Respaldos \cup {"exe"}
    PROVE  /\ movidas(de, a) \in [Aplicaciones -> App]
           /\ \A x \in Aplicaciones :
                 /\ movidas(de, a)[x].viva = app[x].viva
                 /\ movidas(de, a)[x].v = app[x].v
                 /\ app[x].viva => movidas(de, a)[x].imagen =
                       IF app[x].imagen = de THEN a ELSE app[x].imagen
BY DEF TypeOK, movidas, App

\* What is written down of a step that failed is a record.
LEMMA Registrado ==
    ASSUME TypeOK, NEW d \in {"datos", "arranque"}, NEW v \in Versiones,
           NEW p \in Fallos \cup {"updater-lanzado", "listo"}, registrar(d, v, p)
    PROVE  registro' \in [{"datos", "arranque"} -> Registro] /\ fallo' \in Registro
BY DEF TypeOK, registrar, Registro

\* The record that is forgotten is still a record.
LEMMA Olvidado ==
    ASSUME TypeOK, NEW v \in Versiones, olvidar(v)
    PROVE  registro' \in [{"datos", "arranque"} -> Registro] /\ fallo' \in Registro
BY DEF TypeOK, olvidar, Registro, deArranque

-----------------------------------------------------------------------------
(* Types.                                                                  *)

Tipos == TypeOK /\ InvVersion

\* The types, at the start and after a step of each kind of process.
LEMMA TiposIniciales == Init => Tipos
<1> SUFFICES ASSUME Init PROVE Tipos
    OBVIOUS
<1>1. NoApp \in App /\ ~NoApp.viva
    BY DEF NoApp, App
<1>2. NoAyudante \in Ayudante /\ NoAyudante.paso = "fin"
    BY ReintentosAssumption DEF NoAyudante, Ayudante, Respaldos
<1>3. Libre \in Peticion /\ Libre.paso = "libre"
    BY DEF Libre, Peticion
<1>4. SinRegistro \in Registro
    BY DEF Registro
<1>5. TypeOK
    BY <1>1, <1>2, <1>3, <1>4, Extremos DEF Init, TypeOK, Contenido
<1>6. InvVersion
    BY <1>1, <1>2, <1>3 DEF Init, InvVersion, vivas, trabajando
<1>. QED
    BY <1>5, <1>6 DEF Tipos

\* What a step does to the three kinds of processes, one of each at most.
LEMMA TiposDeProcesos ==
    ASSUME Tipos
    PROVE  /\ \A a \in Aplicaciones, x \in App :
                 (x.viva => x.v \in Versiones) /\ app' = [app EXCEPT ![a] = x] =>
                    /\ app' \in [Aplicaciones -> App]
                    /\ \A y \in vivas' : app'[y].v \in Versiones
           /\ \A h \in Ayudantes, x \in Ayudante :
                 /\ x.paso # "fin" => x.v \in Versiones
                 /\ ayudante' = [ayudante EXCEPT ![h] = x]
                 =>
                    /\ ayudante' \in [Ayudantes -> Ayudante]
                    /\ \A y \in trabajando' : ayudante'[y].v \in Versiones
           /\ \A q \in Peticiones, x \in Peticion :
                 /\ x.paso # "libre" => x.v \in Versiones
                 /\ peticion' = [peticion EXCEPT ![q] = x]
                 =>
                    /\ peticion' \in [Peticiones -> Peticion]
                    /\ \A y \in Peticiones :
                          peticion'[y].paso # "libre" => peticion'[y].v \in Versiones
<1>1. ASSUME NEW a \in Aplicaciones, NEW x \in App, x.viva => x.v \in Versiones,
             app' = [app EXCEPT ![a] = x]
      PROVE  /\ app' \in [Aplicaciones -> App]
             /\ \A y \in vivas' : app'[y].v \in Versiones
    BY <1>1 DEF Tipos, TypeOK, InvVersion, vivas
<1>2. ASSUME NEW h \in Ayudantes, NEW x \in Ayudante,
             x.paso # "fin" => x.v \in Versiones,
             ayudante' = [ayudante EXCEPT ![h] = x]
      PROVE  /\ ayudante' \in [Ayudantes -> Ayudante]
             /\ \A y \in trabajando' : ayudante'[y].v \in Versiones
    BY <1>2 DEF Tipos, TypeOK, InvVersion, trabajando
<1>3. ASSUME NEW q \in Peticiones, NEW x \in Peticion,
             x.paso # "libre" => x.v \in Versiones,
             peticion' = [peticion EXCEPT ![q] = x]
      PROVE  /\ peticion' \in [Peticiones -> Peticion]
             /\ \A y \in Peticiones :
                   peticion'[y].paso # "libre" => peticion'[y].v \in Versiones
    BY <1>3 DEF Tipos, TypeOK, InvVersion
<1>. QED
    BY <1>1, <1>2, <1>3

\* A step of a program keeps the types.
LEMMA TiposAplicacion ==
    ASSUME Tipos, NEW a \in Aplicaciones,
           Abrir(a) \/ LimpiarBackup(a) \/ Salir(a)
    PROVE  Tipos'
<1>1. CASE Abrir(a)
    <2>1. exe \in Versiones /\ arrancada(exe, respaldo) \in App
          /\ arrancada(exe, respaldo).v = exe
        BY <1>1, Arrancada DEF Abrir
    <2>2. app' = [app EXCEPT ![a] = arrancada(exe, respaldo)]
        BY <1>1 DEF Abrir
    <2>3. /\ app' \in [Aplicaciones -> App]
          /\ \A y \in vivas' : app'[y].v \in Versiones
        BY <2>1, <2>2, TiposDeProcesos
    <2>4. registro' \in [{"datos", "arranque"} -> Registro] /\ fallo' \in Registro
        BY <1>1, <2>1, Olvidado DEF Abrir, Tipos
    <2>5. UNCHANGED <<publicada, exe, respaldo, nuevo, updater, ayudante, peticion,
                      sinVuelta>> /\ solapados' \in BOOLEAN
        BY <1>1 DEF Abrir, Tipos, TypeOK
    <2>. QED
        BY <2>3, <2>4, <2>5 DEF Tipos, TypeOK, InvVersion, trabajando
<1>2. CASE LimpiarBackup(a)
    <2> DEFINE x == [app[a] EXCEPT !.limpiar = {}]
    <2>1. x \in App /\ (x.viva => x.v \in Versiones)
        BY DEF Tipos, TypeOK, InvVersion, vivas, App
    <2>2. app' = [app EXCEPT ![a] = x]
        BY <1>2 DEF LimpiarBackup
    <2> HIDE DEF x
    <2>3. /\ app' \in [Aplicaciones -> App]
          /\ \A y \in vivas' : app'[y].v \in Versiones
        BY <2>1, <2>2, TiposDeProcesos
    <2>4. respaldo' \in [Respaldos -> Contenido]
        BY <1>2 DEF LimpiarBackup, Tipos, TypeOK, Contenido
    <2>5. UNCHANGED <<publicada, exe, nuevo, updater, registro, ayudante, peticion,
                      fallo, solapados, sinVuelta>>
        BY <1>2 DEF LimpiarBackup
    <2>. QED
        BY <2>3, <2>4, <2>5 DEF Tipos, TypeOK, InvVersion, trabajando
<1>3. CASE Salir(a)
    <2>1. NoApp \in App /\ ~NoApp.viva
        BY DEF NoApp, App
    <2>2. app' = [app EXCEPT ![a] = NoApp]
        BY <1>3 DEF Salir
    <2>3. /\ app' \in [Aplicaciones -> App]
          /\ \A y \in vivas' : app'[y].v \in Versiones
        BY <2>1, <2>2, TiposDeProcesos
    <2>4. Libre \in Peticion /\ Libre.paso = "libre"
        BY DEF Libre, Peticion
    <2>5. /\ peticion' \in [Peticiones -> Peticion]
          /\ \A q \in Peticiones :
                peticion'[q].paso # "libre" => peticion'[q].v \in Versiones
        BY <1>3, <2>4 DEF Salir, Tipos, TypeOK, InvVersion
    <2>6. UNCHANGED <<publicada, exe, respaldo, nuevo, updater, registro, ayudante,
                      fallo, solapados, sinVuelta>>
        BY <1>3 DEF Salir
    <2>. QED
        BY <2>3, <2>5, <2>6 DEF Tipos, TypeOK, InvVersion, trabajando
<1>. QED
    BY <1>1, <1>2, <1>3

\* A step of a handler keeps the types.
LEMMA TiposPeticion ==
    ASSUME Tipos, NEW q \in Peticiones,
           \/ \E a \in Aplicaciones : Descargar(q, a)
           \/ EscribirNuevo(q) \/ CopiarUpdater(q) \/ LanzarUpdaterFalla(q)
           \/ \E h \in Ayudantes : LanzarUpdater(q, h)
    PROVE  Tipos'
<1>1. Libre \in Peticion /\ Libre.paso = "libre"
    BY DEF Libre, Peticion
<1>2. ASSUME NEW x \in Peticion, x.paso # "libre" => x.v \in Versiones,
             peticion' = [peticion EXCEPT ![q] = x],
             UNCHANGED <<publicada, exe, respaldo, registro, app, ayudante,
                         fallo, solapados, sinVuelta>>,
             nuevo' \in [Versiones -> Contenido], updater' \in Contenido
      PROVE  Tipos'
    <2>1. /\ peticion' \in [Peticiones -> Peticion]
          /\ \A y \in Peticiones :
                peticion'[y].paso # "libre" => peticion'[y].v \in Versiones
        BY <1>2, TiposDeProcesos
    <2>. QED
        BY <1>2, <2>1 DEF Tipos, TypeOK, InvVersion, vivas, trabajando
<1>3. ASSUME NEW a \in Aplicaciones, Descargar(q, a) PROVE Tipos'
    <2> DEFINE x == [paso |-> "descargado", v |-> publicada, app |-> {a}]
    <2>1. x \in Peticion /\ x.v \in Versiones
        BY DEF Tipos, TypeOK, Peticion
    <2>2. peticion' = [peticion EXCEPT ![q] = x]
        BY <1>3 DEF Descargar
    <2> HIDE DEF x
    <2>. QED
        BY <1>2, <1>3, <2>1, <2>2 DEF Descargar, Tipos, TypeOK
<1>4. CASE EscribirNuevo(q)
    <2> DEFINE x == [peticion[q] EXCEPT !.paso = "escrito"]
    <2>1. peticion[q].v \in Versiones /\ x \in Peticion /\ x.v \in Versiones
        BY <1>4 DEF EscribirNuevo, Tipos, TypeOK, InvVersion, Peticion
    <2>2. \/ peticion' = [peticion EXCEPT ![q] = x]
          \/ peticion' = [peticion EXCEPT ![q] = Libre]
        BY <1>4 DEF EscribirNuevo
    <2> HIDE DEF x
    <2>3. nuevo' \in [Versiones -> Contenido]
        BY <1>4, <2>1 DEF EscribirNuevo, Tipos, TypeOK, Contenido
    <2>. QED
        BY <1>1, <1>2, <1>4, <2>1, <2>2, <2>3 DEF EscribirNuevo, Tipos, TypeOK
<1>5. CASE CopiarUpdater(q)
    <2> DEFINE x == [peticion[q] EXCEPT !.paso = "copiado"]
    <2>1. x \in Peticion /\ x.v \in Versiones
        BY <1>5 DEF CopiarUpdater, Tipos, TypeOK, InvVersion, Peticion
    <2>2. \/ peticion' = [peticion EXCEPT ![q] = x]
          \/ peticion' = [peticion EXCEPT ![q] = Libre]
        BY <1>5 DEF CopiarUpdater
    <2> HIDE DEF x
    <2>3. updater' \in Contenido
        BY <1>5 DEF CopiarUpdater, Tipos, TypeOK, Contenido
    <2>. QED
        BY <1>1, <1>2, <1>5, <2>1, <2>2, <2>3 DEF CopiarUpdater, Tipos, TypeOK
<1>6. CASE LanzarUpdaterFalla(q)
    <2>1. peticion[q].v \in Versiones
        BY <1>6 DEF LanzarUpdaterFalla, Tipos, InvVersion
    <2>2. registro' \in [{"datos", "arranque"} -> Registro] /\ fallo' \in Registro
        BY <1>6, <2>1, Registrado DEF LanzarUpdaterFalla, Tipos, Fallos
    <2>3. /\ peticion' \in [Peticiones -> Peticion]
          /\ \A y \in Peticiones :
                peticion'[y].paso # "libre" => peticion'[y].v \in Versiones
        BY <1>1, <1>6, TiposDeProcesos DEF LanzarUpdaterFalla
    <2>. QED
        BY <1>6, <2>2, <2>3 DEF LanzarUpdaterFalla, Tipos, TypeOK, InvVersion, vivas,
           trabajando
<1>7. ASSUME NEW h \in Ayudantes, LanzarUpdater(q, h) PROVE Tipos'
    <2> DEFINE x == [NoAyudante EXCEPT !.paso = "renombrar", !.v = peticion[q].v]
    <2>1. peticion[q].v \in Versiones
        BY <1>7 DEF LanzarUpdater, Tipos, InvVersion
    <2>2. x \in Ayudante /\ x.v \in Versiones
        <3>1. NoAyudante \in Ayudante
            BY ReintentosAssumption DEF NoAyudante, Ayudante, Respaldos
        <3>. QED
            BY <2>1, <3>1 DEF Ayudante
    <2>3. ayudante' = [ayudante EXCEPT ![h] = x]
        BY <1>7 DEF LanzarUpdater
    <2> HIDE DEF x
    <2>4. /\ ayudante' \in [Ayudantes -> Ayudante]
          /\ \A y \in trabajando' : ayudante'[y].v \in Versiones
        BY <2>2, <2>3, TiposDeProcesos
    <2>5. registro' \in [{"datos", "arranque"} -> Registro] /\ fallo' \in Registro
        BY <1>7, <2>1, Registrado DEF LanzarUpdater, Tipos
    <2>6. /\ peticion' \in [Peticiones -> Peticion]
          /\ \A y \in Peticiones :
                peticion'[y].paso # "libre" => peticion'[y].v \in Versiones
        BY <1>1, <1>7, TiposDeProcesos DEF LanzarUpdater
    <2>7. solapados' \in BOOLEAN
        BY <1>7 DEF LanzarUpdater, Tipos, TypeOK
    <2>. QED
        BY <1>7, <2>4, <2>5, <2>6, <2>7 DEF LanzarUpdater, Tipos, TypeOK, InvVersion,
           vivas
<1>. QED
    BY <1>3, <1>4, <1>5, <1>6, <1>7

\* A step of a helper keeps the types.
LEMMA TiposAyudante ==
    ASSUME Tipos, NEW h \in Ayudantes,
           \/ Renombrar(h) \/ RenombrarFalla(h)
           \/ Copiar(h) \/ CopiarFin(h) \/ CopiarFalla(h)
           \/ \E a \in Aplicaciones : Lanzar(h, a)
           \/ Listo(h) \/ LanzarFalla(h) \/ Matar(h)
    PROVE  Tipos'
<1> DEFINE p == ayudante[h]
<1>1. p \in Ayudante /\ (p.paso # "fin" => p.v \in Versiones)
    BY DEF Tipos, TypeOK, InvVersion, trabajando
<1>2. p.backup \in Respaldos /\ respaldo[p.backup] \in Contenido
    BY <1>1 DEF Ayudante, Tipos, TypeOK
<1>3. NoAyudante \in Ayudante /\ NoAyudante.paso = "fin"
    BY ReintentosAssumption DEF NoAyudante, Ayudante, Respaldos
<1>4. \A s \in {"copiar", "copiando", "lanzar", "listo"} :
          p.paso # "fin" =>
             [p EXCEPT !.paso = s] \in Ayudante /\ [p EXCEPT !.paso = s].v \in Versiones
    BY <1>1 DEF Ayudante
<1>5. ASSUME \/ terminar(h)
             \/ /\ p.paso # "fin"
                /\ \E s \in {"copiar", "copiando", "lanzar", "listo"} :
                      ayudante' = [ayudante EXCEPT ![h].paso = s]
      PROVE  /\ ayudante' \in [Ayudantes -> Ayudante]
             /\ \A y \in trabajando' : ayudante'[y].v \in Versiones
    <2>1. CASE terminar(h)
        BY <1>3, <2>1, TiposDeProcesos DEF terminar
    <2>2. ASSUME NEW s \in {"copiar", "copiando", "lanzar", "listo"}, p.paso # "fin",
                 ayudante' = [ayudante EXCEPT ![h].paso = s]
          PROVE  /\ ayudante' \in [Ayudantes -> Ayudante]
                 /\ \A y \in trabajando' : ayudante'[y].v \in Versiones
        <3> DEFINE x == [p EXCEPT !.paso = s]
        <3>1. ayudante' = [ayudante EXCEPT ![h] = x]
            BY <2>2
        <3>2. x \in Ayudante /\ x.v \in Versiones
            BY <2>2, <1>4
        <3> HIDE DEF x
        <3>. QED
            BY <3>1, <3>2, TiposDeProcesos
    <2>. QED
        BY <1>5, <2>1, <2>2
<1>6. \A de, a \in Respaldos \cup {"exe"} :
          /\ movidas(de, a) \in [Aplicaciones -> App]
          /\ \A x \in Aplicaciones : movidas(de, a)[x].viva =>
                movidas(de, a)[x].v \in Versiones
    BY Movidas DEF Tipos, InvVersion, vivas
<1>7. Falta \in Contenido /\ Roto \in Contenido /\ Versiones \subseteq Contenido
    BY DEF Contenido
<1>8. deArranque \in {"datos", "arranque"}
    BY DEF deArranque
<1> HIDE DEF p
<1>9. CASE Renombrar(h)
    <2>1. /\ app' \in [Aplicaciones -> App]
          /\ \A x \in vivas' : app'[x].v \in Versiones
        BY <1>2, <1>6, <1>9 DEF Renombrar, vivas, p
    <2>2. /\ ayudante' \in [Ayudantes -> Ayudante]
          /\ \A y \in trabajando' : ayudante'[y].v \in Versiones
        BY <1>5, <1>9 DEF Renombrar, p
    <2>. QED
        BY <1>2, <1>7, <1>9, <2>1, <2>2 DEF Renombrar, Tipos, TypeOK, InvVersion, p
<1>10. CASE RenombrarFalla(h)
    <2> DEFINE b == IF p.i = Cambio THEN "unico" ELSE p.backup
               x == [p EXCEPT !.i = @ + 1, !.backup = b]
    <2>1. respaldo' \in [Respaldos -> Contenido]
        BY <1>7, <1>10 DEF RenombrarFalla, Tipos, TypeOK
    <2>2. CASE p.i + 1 < Reintentos
        <3>1. ayudante' = [ayudante EXCEPT ![h] = x]
            BY <1>10, <2>2 DEF RenombrarFalla, p
        <3>2. x \in Ayudante /\ x.v \in Versiones
            <4>1. p.paso # "fin"
                BY <1>10 DEF RenombrarFalla, p
            <4>2. p.i + 1 \in 0 .. Reintentos - 1
                <5>1. p.i \in Nat
                    BY <1>1 DEF Ayudante
                <5>. QED
                    BY <5>1, <2>2, ReintentosAssumption
            <4>3. b \in Respaldos
                BY <1>2 DEF Respaldos
            <4> HIDE DEF b
            <4>. QED
                BY <1>1, <4>1, <4>2, <4>3 DEF Ayudante
        <3> HIDE DEF x
        <3>3. /\ ayudante' \in [Ayudantes -> Ayudante]
              /\ \A y \in trabajando' : ayudante'[y].v \in Versiones
            BY <3>1, <3>2, TiposDeProcesos
        <3>4. UNCHANGED <<publicada, exe, nuevo, updater, registro, app, peticion,
                          fallo, solapados, sinVuelta>>
            BY <1>10, <2>2 DEF RenombrarFalla, p
        <3>. QED
            BY <2>1, <3>3, <3>4 DEF Tipos, TypeOK, InvVersion, vivas
    <2>3. CASE ~(p.i + 1 < Reintentos)
        <3>1. terminar(h) /\ registrar(deArranque, p.v, "renombrar-exe-actual")
              /\ p.v \in Versiones
            BY <1>1, <1>10, <2>3 DEF RenombrarFalla, p
        <3>2. registro' \in [{"datos", "arranque"} -> Registro] /\ fallo' \in Registro
            BY <1>8, <3>1, Registrado DEF Tipos, Fallos
        <3>3. /\ ayudante' \in [Ayudantes -> Ayudante]
              /\ \A y \in trabajando' : ayudante'[y].v \in Versiones
            BY <1>5, <3>1
        <3>4. UNCHANGED <<publicada, exe, nuevo, updater, app, peticion, solapados,
                          sinVuelta>>
            BY <1>10 DEF RenombrarFalla
        <3>. QED
            BY <2>1, <3>2, <3>3, <3>4 DEF Tipos, TypeOK, InvVersion, vivas
    <2>. QED
        BY <2>2, <2>3
<1>11. CASE Copiar(h) \/ CopiarFin(h)
    <2>1. /\ ayudante' \in [Ayudantes -> Ayudante]
          /\ \A y \in trabajando' : ayudante'[y].v \in Versiones
        BY <1>5, <1>11 DEF Copiar, CopiarFin, p
    <2>2. exe' \in Contenido
        <3>1. CASE Copiar(h)
            BY <1>7, <3>1 DEF Copiar
        <3>2. CASE CopiarFin(h)
            BY <1>1, <1>7, <3>2 DEF CopiarFin, Tipos, TypeOK, p
        <3>. QED
            BY <1>11, <3>1, <3>2
    <2>3. UNCHANGED <<publicada, respaldo, nuevo, updater, registro, app, peticion,
                      fallo, solapados, sinVuelta>>
        BY <1>11 DEF Copiar, CopiarFin
    <2>. QED
        BY <2>1, <2>2, <2>3 DEF Tipos, TypeOK, InvVersion, vivas
<1>12. CASE CopiarFalla(h)
    <2>1. /\ ayudante' \in [Ayudantes -> Ayudante]
          /\ \A y \in trabajando' : ayudante'[y].v \in Versiones
        BY <1>5, <1>12 DEF CopiarFalla
    <2>2. p.v \in Versiones /\ registrar(deArranque, p.v, "escribir-exe-nuevo")
        BY <1>1, <1>12 DEF CopiarFalla, p
    <2>3. registro' \in [{"datos", "arranque"} -> Registro] /\ fallo' \in Registro
        BY <1>8, <2>2, Registrado DEF Tipos, Fallos
    <2>4. UNCHANGED <<publicada, nuevo, updater, peticion, solapados>>
        BY <1>12 DEF CopiarFalla
    <2>5. /\ exe' \in Contenido
          /\ respaldo' \in [Respaldos -> Contenido]
          /\ sinVuelta' \in BOOLEAN
          /\ app' \in [Aplicaciones -> App]
          /\ \A x \in vivas' : app'[x].v \in Versiones
        <3>1. CASE UNCHANGED <<exe, respaldo, app>> /\ sinVuelta' = TRUE
            BY <3>1 DEF Tipos, TypeOK, InvVersion, vivas
        <3>2. CASE /\ exe' = respaldo[p.backup]
                   /\ respaldo' = [respaldo EXCEPT ![p.backup] = Falta]
                   /\ app' = movidas(p.backup, "exe")
                   /\ UNCHANGED sinVuelta
            BY <1>2, <1>6, <1>7, <3>2 DEF Tipos, TypeOK, vivas
        <3>. QED
            BY <1>12, <3>1, <3>2 DEF CopiarFalla, p
    <2>. QED
        BY <2>1, <2>3, <2>4, <2>5 DEF Tipos, TypeOK, InvVersion
<1>13. ASSUME NEW a \in Aplicaciones, Lanzar(h, a) PROVE Tipos'
    <2>1. exe \in Versiones /\ arrancada(exe, respaldo) \in App
          /\ arrancada(exe, respaldo).v = exe
        BY <1>13, Arrancada DEF Lanzar
    <2>2. app' = [app EXCEPT ![a] = arrancada(exe, respaldo)]
        BY <1>13 DEF Lanzar
    <2>3. /\ app' \in [Aplicaciones -> App]
          /\ \A y \in vivas' : app'[y].v \in Versiones
        BY <2>1, <2>2, TiposDeProcesos
    <2>4. registro' \in [{"datos", "arranque"} -> Registro] /\ fallo' \in Registro
        BY <1>13, <2>1, Olvidado DEF Lanzar, Tipos
    <2>5. /\ ayudante' \in [Ayudantes -> Ayudante]
          /\ \A y \in trabajando' : ayudante'[y].v \in Versiones
        BY <1>5, <1>13 DEF Lanzar, p
    <2>6. UNCHANGED <<publicada, exe, respaldo, nuevo, updater, peticion, solapados,
                      sinVuelta>>
        BY <1>13 DEF Lanzar
    <2>. QED
        BY <2>3, <2>4, <2>5, <2>6 DEF Tipos, TypeOK, InvVersion
<1>14. CASE Listo(h)
    <2>1. /\ ayudante' \in [Ayudantes -> Ayudante]
          /\ \A y \in trabajando' : ayudante'[y].v \in Versiones
        BY <1>5, <1>14 DEF Listo
    <2>2. p.v \in Versiones /\ registrar(deArranque, p.v, "listo")
        BY <1>1, <1>14 DEF Listo, p
    <2>3. registro' \in [{"datos", "arranque"} -> Registro] /\ fallo' \in Registro
        BY <1>8, <2>2, Registrado DEF Tipos
    <2>4. nuevo' \in [Versiones -> Contenido]
        BY <1>7, <1>14 DEF Listo, Tipos, TypeOK
    <2>. QED
        BY <1>14, <2>1, <2>3, <2>4 DEF Listo, Tipos, TypeOK, InvVersion, vivas
<1>15. CASE LanzarFalla(h)
    <2>1. /\ ayudante' \in [Ayudantes -> Ayudante]
          /\ \A y \in trabajando' : ayudante'[y].v \in Versiones
        BY <1>5, <1>15 DEF LanzarFalla
    <2>2. p.v \in Versiones /\ registrar(deArranque, p.v, "lanzar-exe-nuevo")
        BY <1>1, <1>15 DEF LanzarFalla, p
    <2>3. registro' \in [{"datos", "arranque"} -> Registro] /\ fallo' \in Registro
        BY <1>8, <2>2, Registrado DEF Tipos, Fallos
    <2>4. /\ exe' \in Contenido
          /\ respaldo' \in [Respaldos -> Contenido]
          /\ sinVuelta' \in BOOLEAN
        <3>1. CASE /\ exe' = respaldo[p.backup]
                   /\ respaldo' = [respaldo EXCEPT ![p.backup] = Falta]
                   /\ UNCHANGED sinVuelta
            BY <1>2, <1>7, <3>1 DEF Tipos, TypeOK
        <3>2. CASE /\ exe' \in {exe, Falta}
                   /\ UNCHANGED respaldo
                   /\ sinVuelta' = TRUE
            BY <1>7, <3>2 DEF Tipos, TypeOK
        <3>. QED
            BY <1>15, <3>1, <3>2 DEF LanzarFalla, p
    <2>5. PICK m \in {app, movidas(p.backup, "exe")} :
             \/ app' = m
             \/ /\ exe' \in Versiones
                /\ \E a \in Aplicaciones :
                      app' = [m EXCEPT ![a] = arrancada(exe', respaldo')]
        BY <1>15 DEF LanzarFalla, p
    <2>6. /\ m \in [Aplicaciones -> App]
          /\ \A x \in Aplicaciones : m[x].viva => m[x].v \in Versiones
        BY <1>2, <1>6 DEF Tipos, TypeOK, InvVersion, vivas
    <2>7. /\ app' \in [Aplicaciones -> App]
          /\ \A x \in vivas' : app'[x].v \in Versiones
        <3>1. CASE app' = m
            BY <2>6, <3>1 DEF vivas
        <3>2. ASSUME exe' \in Versiones, NEW a \in Aplicaciones,
                     app' = [m EXCEPT ![a] = arrancada(exe', respaldo')]
              PROVE  /\ app' \in [Aplicaciones -> App]
                     /\ \A x \in vivas' : app'[x].v \in Versiones
            <4>1. /\ arrancada(exe', respaldo') \in App
                  /\ arrancada(exe', respaldo').v \in Versiones
                BY <3>2, Arrancada
            <4>. QED
                BY <2>6, <3>2, <4>1 DEF vivas
        <3>. QED
            BY <2>5, <3>1, <3>2
    <2>. QED
        BY <1>15, <2>1, <2>3, <2>4, <2>7 DEF LanzarFalla, Tipos, TypeOK, InvVersion
<1>16. CASE Matar(h)
    <2>1. /\ ayudante' \in [Ayudantes -> Ayudante]
          /\ \A y \in trabajando' : ayudante'[y].v \in Versiones
        BY <1>5, <1>16 DEF Matar
    <2>2. SinRegistro \in Registro
        BY DEF Registro
    <2>. QED
        BY <1>16, <2>1, <2>2 DEF Matar, Tipos, TypeOK, InvVersion, vivas
<1>. QED
    BY <1>9, <1>10, <1>11, <1>12, <1>13, <1>14, <1>15, <1>16

LEMMA TiposPaso == Tipos /\ [Next]_vars => Tipos'
<1> SUFFICES ASSUME Tipos, [Next]_vars PROVE Tipos'
    OBVIOUS
<1>1. CASE UNCHANGED vars
    BY <1>1 DEF vars, Tipos, TypeOK, InvVersion, vivas, trabajando
<1>2. ASSUME NEW v \in Versiones, Publicar(v) PROVE Tipos'
    BY <1>2 DEF Publicar, Tipos, TypeOK, InvVersion, vivas, trabajando
<1>. QED
    BY <1>1, <1>2, TiposAplicacion, TiposPeticion, TiposAyudante DEF Next

-----------------------------------------------------------------------------
(* What processes run from.                                                *)

\* A step that leaves alone the program and the copies that are running, and
\* starts no copy and no process, or one from a program that is whole.
LEMMA ImagenQuieta ==
    ASSUME InvImagen, exe' = exe,
           \A b \in Respaldos : enMarcha(b) => respaldo'[b] = respaldo[b],
           \A a \in Aplicaciones : app'[a].viva =>
              \/ app[a].viva /\ app'[a].imagen = app[a].imagen
              \/ app'[a].imagen = "exe" /\ exe \in Versiones,
           \A h \in Ayudantes :
              ayudante'[h].paso = "copiando" => ayudante[h].paso = "copiando"
    PROVE  InvImagen'
<1>1. (\A h, k \in Ayudantes :
          ayudante[h].paso = "copiando" /\ ayudante[k].paso = "copiando" => h = k)'
    BY DEF InvImagen
<1>2. escribiendo' => exe' = Roto
    BY DEF InvImagen, escribiendo
<1>3. enMarcha("exe")' => exe' \in Versiones
    BY DEF InvImagen, enMarcha, vivas
<1>4. ASSUME NEW b \in Respaldos, enMarcha(b)' PROVE respaldo'[b] \in Versiones
    <2>1. b # "exe"
        BY DEF Respaldos
    <2>2. enMarcha(b)
        BY <1>4, <2>1 DEF enMarcha, vivas
    <2>. QED
        BY <2>2 DEF InvImagen
<1>. QED
    BY <1>1, <1>2, <1>3, <1>4 DEF InvImagen

\* The program goes back under its name, and may be started.
LEMMA ImagenVuelta ==
    ASSUME Tipos, InvImagen, NEW h \in Ayudantes, NEW b \in Respaldos, terminar(h),
           ayudante[h].paso = "copiando" \/ ~escribiendo, ~enMarcha("exe"),
           exe' = respaldo[b], respaldo' = [respaldo EXCEPT ![b] = Falta],
           \/ app' = movidas(b, "exe")
           \/ /\ exe' \in Versiones
              /\ \E a \in Aplicaciones :
                    app' = [movidas(b, "exe") EXCEPT ![a] = arrancada(exe', respaldo')]
    PROVE  InvImagen'
<1>1. ~escribiendo'
    BY DEF InvImagen, escribiendo, terminar, NoAyudante, Tipos, TypeOK
<1>2. \A a \in Aplicaciones : app'[a].viva =>
          \/ /\ app[a].viva
             /\ app'[a].imagen = IF app[a].imagen = b THEN "exe" ELSE app[a].imagen
          \/ app'[a].imagen = "exe" /\ exe' \in Versiones
    <2>1. \A a \in Aplicaciones : movidas(b, "exe")[a].viva =>
             /\ app[a].viva
             /\ movidas(b, "exe")[a].imagen =
                   IF app[a].imagen = b THEN "exe" ELSE app[a].imagen
        BY Movidas DEF Tipos
    <2>2. movidas(b, "exe") \in [Aplicaciones -> App]
        BY Movidas DEF Tipos
    <2>3. ASSUME exe' \in Versiones, NEW a \in Aplicaciones,
                 app' = [movidas(b, "exe") EXCEPT ![a] = arrancada(exe', respaldo')]
          PROVE  \A x \in Aplicaciones : app'[x].viva =>
                    \/ /\ app[x].viva
                       /\ app'[x].imagen =
                             IF app[x].imagen = b THEN "exe" ELSE app[x].imagen
                    \/ app'[x].imagen = "exe" /\ exe' \in Versiones
        <3>1. arrancada(exe', respaldo').imagen = "exe"
            BY <2>3, Arrancada
        <3>. QED
            BY <2>1, <2>2, <2>3, <3>1
    <2>. QED
        BY <2>1, <2>3
<1>3. enMarcha("exe")' => exe' \in Versiones
    <2>1. ASSUME NEW a \in Aplicaciones, app'[a].viva, app'[a].imagen = "exe"
          PROVE  exe' \in Versiones
        <3>1. \/ app[a].viva /\ (app[a].imagen = b \/ app[a].imagen = "exe")
              \/ exe' \in Versiones
            BY <1>2, <2>1
        <3>. QED
            BY <3>1 DEF InvImagen, enMarcha, vivas
    <2>. QED
        BY <2>1 DEF enMarcha, vivas
<1>4. ASSUME NEW c \in Respaldos, enMarcha(c)' PROVE respaldo'[c] \in Versiones
    <2>1. PICK a \in Aplicaciones : app'[a].viva /\ app'[a].imagen = c
        BY <1>4 DEF enMarcha, vivas
    <2>2. c # "exe"
        BY DEF Respaldos
    <2>3. app[a].viva /\ app[a].imagen = c /\ c # b
        BY <1>2, <2>1, <2>2
    <2>. QED
        BY <2>3 DEF InvImagen, enMarcha, vivas, Tipos, TypeOK
<1>. QED
    BY <1>1, <1>3, <1>4 DEF InvImagen, escribiendo

\* At the start nobody copies and the file of the program is whole.
LEMMA ImagenInicial == Init => InvImagen
BY DEF Init, InvImagen, escribiendo, enMarcha, vivas, NoApp, NoAyudante

\* A program runs from a file that is whole, whoever starts or ends.
LEMMA ImagenAplicacion ==
    ASSUME Tipos, InvImagen, NEW a \in Aplicaciones,
           Abrir(a) \/ LimpiarBackup(a) \/ Salir(a)
    PROVE  InvImagen'
<1>1. CASE Abrir(a)
    <2>1. exe \in Versiones /\ arrancada(exe, respaldo).imagen = "exe"
        BY <1>1, Arrancada DEF Abrir
    <2>2. \A x \in Aplicaciones : app'[x].viva =>
              \/ app[x].viva /\ app'[x].imagen = app[x].imagen
              \/ app'[x].imagen = "exe" /\ exe \in Versiones
        BY <1>1, <2>1 DEF Abrir, Tipos, TypeOK
    <2>. QED
        BY <1>1, <2>2, ImagenQuieta DEF Abrir
<1>2. CASE LimpiarBackup(a)
    <2>1. \A b \in Respaldos : enMarcha(b) => respaldo'[b] = respaldo[b]
        BY <1>2 DEF LimpiarBackup
    <2>2. \A x \in Aplicaciones : app'[x].viva =>
              app[x].viva /\ app'[x].imagen = app[x].imagen
        BY <1>2 DEF LimpiarBackup, Tipos, TypeOK, App
    <2>. QED
        BY <1>2, <2>1, <2>2, ImagenQuieta DEF LimpiarBackup
<1>3. CASE Salir(a)
    <2>1. \A x \in Aplicaciones : app'[x].viva =>
              app[x].viva /\ app'[x].imagen = app[x].imagen
        BY <1>3 DEF Salir, NoApp, Tipos, TypeOK
    <2>. QED
        BY <1>3, <2>1, ImagenQuieta DEF Salir
<1>. QED
    BY <1>1, <1>2, <1>3

\* A handler copies the program to a name from which nobody runs.
LEMMA ImagenPeticion ==
    ASSUME Tipos, InvImagen, NEW q \in Peticiones,
           \/ \E a \in Aplicaciones : Descargar(q, a)
           \/ EscribirNuevo(q) \/ CopiarUpdater(q) \/ LanzarUpdaterFalla(q)
           \/ \E h \in Ayudantes : LanzarUpdater(q, h)
    PROVE  InvImagen'
<1>1. exe' = exe /\ respaldo' = respaldo /\ app' = app
    BY DEF Descargar, EscribirNuevo, CopiarUpdater, LanzarUpdaterFalla, LanzarUpdater
<1>2. \A h \in Ayudantes :
          ayudante'[h].paso = "copiando" => ayudante[h].paso = "copiando"
    <2>1. CASE ayudante' = ayudante
        BY <2>1
    <2>2. ASSUME NEW h \in Ayudantes, LanzarUpdater(q, h)
          PROVE  \A k \in Ayudantes :
                    ayudante'[k].paso = "copiando" => ayudante[k].paso = "copiando"
        BY <2>2 DEF LanzarUpdater, NoAyudante, Tipos, TypeOK
    <2>. QED
        BY <2>1, <2>2 DEF Descargar, EscribirNuevo, CopiarUpdater, LanzarUpdaterFalla
<1>. QED
    BY <1>1, <1>2, ImagenQuieta

\* A helper overwrites the program only when nobody runs from it.
LEMMA ImagenAyudante ==
    ASSUME Tipos, InvImagen, NEW h \in Ayudantes,
           \/ Renombrar(h) \/ RenombrarFalla(h)
           \/ Copiar(h) \/ CopiarFin(h) \/ CopiarFalla(h)
           \/ \E a \in Aplicaciones : Lanzar(h, a)
           \/ Listo(h) \/ LanzarFalla(h) \/ Matar(h)
    PROVE  InvImagen'
<1> DEFINE p == ayudante[h]
<1>1. p.backup \in Respaldos /\ p.backup # "exe"
    BY DEF Tipos, TypeOK, Ayudante, Respaldos
<1>2. terminar(h) => \A k \in Ayudantes :
          ayudante'[k].paso = "copiando" => ayudante[k].paso = "copiando"
    BY DEF terminar, NoAyudante, Tipos, TypeOK
<1> HIDE DEF p
<1>3. CASE Renombrar(h)
    <2>1. ~escribiendo'
        BY <1>3 DEF Renombrar, escribiendo, Tipos, TypeOK, Ayudante
    <2>2. /\ exe' = Falta
          /\ respaldo' = [respaldo EXCEPT ![p.backup] = exe]
          /\ ~enMarcha(p.backup)
        BY <1>3 DEF Renombrar, p
    <2>3. \A a \in Aplicaciones : app'[a].viva =>
              /\ app[a].viva
              /\ app'[a].imagen = IF app[a].imagen = "exe" THEN p.backup
                                  ELSE app[a].imagen
        <3>1. app' = movidas("exe", p.backup)
            BY <1>3 DEF Renombrar, p
        <3>2. ASSUME NEW b \in Respaldos
              PROVE  \A x \in Aplicaciones :
                        /\ movidas("exe", b)[x].viva = app[x].viva
                        /\ app[x].viva => movidas("exe", b)[x].imagen =
                              IF app[x].imagen = "exe" THEN b ELSE app[x].imagen
            BY Movidas DEF Tipos
        <3>. QED
            BY <1>1, <3>1, <3>2
    <2>4. ~enMarcha("exe")'
        BY <1>1, <2>3 DEF enMarcha, vivas
    <2>5. ASSUME NEW c \in Respaldos, enMarcha(c)' PROVE respaldo'[c] \in Versiones
        <3>1. PICK a \in Aplicaciones : app'[a].viva /\ app'[a].imagen = c
            BY <2>5 DEF enMarcha, vivas
        <3>2. app[a].viva
            BY <2>3, <3>1
        <3>3. CASE app[a].imagen = "exe"
            <4>1. c = p.backup /\ exe \in Versiones
                BY <2>3, <3>1, <3>2, <3>3 DEF InvImagen, enMarcha, vivas
            <4>. QED
                BY <1>1, <2>2, <4>1 DEF Tipos, TypeOK
        <3>4. CASE app[a].imagen # "exe"
            <4>1. enMarcha(c)
                BY <2>3, <3>1, <3>2, <3>4 DEF enMarcha, vivas
            <4>2. c # p.backup
                BY <2>2, <4>1
            <4>. QED
                BY <2>2, <4>1, <4>2 DEF InvImagen, Tipos, TypeOK
        <3>. QED
            BY <3>3, <3>4
    <2>. QED
        BY <2>1, <2>4, <2>5 DEF InvImagen, escribiendo
<1>4. CASE RenombrarFalla(h)
    <2>1. exe' = exe /\ app' = app
        BY <1>4 DEF RenombrarFalla
    <2>2. \A b \in Respaldos : enMarcha(b) => respaldo'[b] = respaldo[b]
        BY <1>4 DEF RenombrarFalla, Tipos, TypeOK
    <2>3. \A k \in Ayudantes :
              ayudante'[k].paso = "copiando" => ayudante[k].paso = "copiando"
        <3>1. CASE terminar(h)
            BY <1>2, <3>1
        <3>2. ASSUME NEW b \in Respaldos,
                     ayudante' = [ayudante EXCEPT ![h].i = @ + 1, ![h].backup = b]
              PROVE  \A k \in Ayudantes :
                        ayudante'[k].paso = "copiando" => ayudante[k].paso = "copiando"
            BY <3>2 DEF Tipos, TypeOK, Ayudante
        <3>3. (IF p.i = Cambio THEN "unico" ELSE p.backup) \in Respaldos
            BY <1>1 DEF Respaldos
        <3>. QED
            BY <1>4, <3>1, <3>2, <3>3 DEF RenombrarFalla, p
    <2>. QED
        BY <2>1, <2>2, <2>3, ImagenQuieta
<1>5. CASE Copiar(h)
    <2>1. /\ exe' = Roto /\ respaldo' = respaldo /\ app' = app
          /\ ~enMarcha("exe") /\ ~escribiendo
          /\ ayudante' = [ayudante EXCEPT ![h].paso = "copiando"]
        BY <1>5 DEF Copiar
    <2>2. \A k \in Ayudantes : ayudante'[k].paso = "copiando" => k = h
        BY <2>1 DEF escribiendo, Tipos, TypeOK
    <2>. QED
        BY <2>1, <2>2 DEF InvImagen, enMarcha, vivas
<1>6. CASE CopiarFin(h)
    <2>1. /\ respaldo' = respaldo /\ app' = app
          /\ p.paso = "copiando"
          /\ ayudante' = [ayudante EXCEPT ![h].paso = "lanzar"]
        BY <1>6 DEF CopiarFin, p
    <2>2. ~escribiendo'
        BY <2>1 DEF p, escribiendo, InvImagen, Tipos, TypeOK, Ayudante
    <2>3. ~enMarcha("exe")
        BY <2>1, Extremos DEF p, escribiendo, InvImagen
    <2>. QED
        BY <2>1, <2>2, <2>3 DEF InvImagen, enMarcha, vivas, escribiendo
<1>7. CASE CopiarFalla(h)
    <2>1. CASE UNCHANGED <<exe, respaldo, app>>
        BY <1>2, <1>7, <2>1, ImagenQuieta DEF CopiarFalla
    <2>2. CASE ~UNCHANGED <<exe, respaldo, app>>
        BY <1>1, <1>7, <2>2, ImagenVuelta DEF CopiarFalla, p
    <2>. QED
        BY <2>1, <2>2
<1>8. ASSUME NEW a \in Aplicaciones, Lanzar(h, a) PROVE InvImagen'
    <2>1. exe \in Versiones /\ arrancada(exe, respaldo).imagen = "exe"
        BY <1>8, Arrancada DEF Lanzar
    <2>2. \A x \in Aplicaciones : app'[x].viva =>
              \/ app[x].viva /\ app'[x].imagen = app[x].imagen
              \/ app'[x].imagen = "exe" /\ exe \in Versiones
        BY <1>8, <2>1 DEF Lanzar, Tipos, TypeOK
    <2>3. \A k \in Ayudantes :
              ayudante'[k].paso = "copiando" => ayudante[k].paso = "copiando"
        BY <1>8 DEF Lanzar, Tipos, TypeOK, Ayudante
    <2>. QED
        BY <1>8, <2>2, <2>3, ImagenQuieta DEF Lanzar
<1>9. CASE Listo(h) \/ Matar(h)
    BY <1>2, <1>9, ImagenQuieta DEF Listo, Matar
<1>10. CASE LanzarFalla(h)
    <2>1. CASE /\ ~enMarcha("exe") /\ ~escribiendo
               /\ exe' = respaldo[p.backup]
               /\ respaldo' = [respaldo EXCEPT ![p.backup] = Falta]
               /\ \/ app' = movidas(p.backup, "exe")
                  \/ /\ exe' \in Versiones
                     /\ \E a \in Aplicaciones :
                           app' = [movidas(p.backup, "exe") EXCEPT
                                     ![a] = arrancada(exe', respaldo')]
        BY <1>1, <1>10, <2>1, ImagenVuelta DEF LanzarFalla
    <2>2. CASE /\ exe' = exe \/ (exe' = Falta /\ ~enMarcha("exe") /\ ~escribiendo)
               /\ UNCHANGED respaldo
               /\ \/ app' = app
                  \/ /\ exe' \in Versiones
                     /\ \E a \in Aplicaciones :
                           app' = [app EXCEPT ![a] = arrancada(exe', respaldo')]
        <3>1. \A k \in Ayudantes :
                  ayudante'[k].paso = "copiando" => ayudante[k].paso = "copiando"
            BY <1>2, <1>10 DEF LanzarFalla
        <3>2. CASE exe' = exe
            <4>1. ASSUME exe' \in Versiones, NEW a \in Aplicaciones,
                         app' = [app EXCEPT ![a] = arrancada(exe', respaldo')]
                  PROVE  \A x \in Aplicaciones : app'[x].viva =>
                            \/ app[x].viva /\ app'[x].imagen = app[x].imagen
                            \/ app'[x].imagen = "exe" /\ exe \in Versiones
                <5>1. arrancada(exe', respaldo').imagen = "exe"
                    BY <4>1, Arrancada
                <5>. QED
                    BY <3>2, <4>1, <5>1 DEF Tipos, TypeOK
            <4>2. \A x \in Aplicaciones : app'[x].viva =>
                      \/ app[x].viva /\ app'[x].imagen = app[x].imagen
                      \/ app'[x].imagen = "exe" /\ exe \in Versiones
                BY <2>2, <4>1
            <4>. QED
                BY <2>2, <3>1, <3>2, <4>2, ImagenQuieta
        <3>3. CASE exe' = Falta /\ ~enMarcha("exe") /\ ~escribiendo
            <4>1. app' = app
                BY <2>2, <3>3, Extremos
            <4>2. ~escribiendo'
                BY <3>1, <3>3 DEF escribiendo
            <4>. QED
                BY <2>2, <3>3, <4>1, <4>2 DEF InvImagen, enMarcha, vivas, escribiendo
        <3>. QED
            BY <2>2, <3>2, <3>3
    <2>3. \/ /\ ~enMarcha("exe") /\ ~escribiendo
             /\ exe' = respaldo[p.backup]
             /\ respaldo' = [respaldo EXCEPT ![p.backup] = Falta]
             /\ \/ app' = movidas(p.backup, "exe")
                \/ /\ exe' \in Versiones
                   /\ \E a \in Aplicaciones :
                         app' = [movidas(p.backup, "exe") EXCEPT
                                   ![a] = arrancada(exe', respaldo')]
          \/ /\ exe' = exe \/ (exe' = Falta /\ ~enMarcha("exe") /\ ~escribiendo)
             /\ UNCHANGED respaldo
             /\ \/ app' = app
                \/ /\ exe' \in Versiones
                   /\ \E a \in Aplicaciones :
                         app' = [app EXCEPT ![a] = arrancada(exe', respaldo')]
        BY <1>10 DEF LanzarFalla, p
    <2>. QED
        BY <2>1, <2>2, <2>3
<1>. QED
    BY <1>3, <1>4, <1>5, <1>6, <1>7, <1>8, <1>9, <1>10

LEMMA ImagenPaso == Tipos /\ InvImagen /\ [Next]_vars => InvImagen'
<1> SUFFICES ASSUME Tipos, InvImagen, [Next]_vars PROVE InvImagen'
    OBVIOUS
<1>1. CASE UNCHANGED vars
    BY <1>1, ImagenQuieta DEF vars
<1>2. ASSUME NEW v \in Versiones, Publicar(v) PROVE InvImagen'
    BY <1>2, ImagenQuieta DEF Publicar
<1>. QED
    BY <1>1, <1>2, ImagenAplicacion, ImagenPeticion, ImagenAyudante DEF Next

-----------------------------------------------------------------------------
(* One helper at a time.                                                   *)

\* A step that starts no helper and copies no program for one; a request that
\* has its copy finds both files as it left them.
LEMMA SoloQuieto ==
    ASSUME InvSolo, ~solapados' => ~solapados,
           \A h \in Ayudantes : ayudante'[h].paso # "fin" => ayudante[h].paso # "fin",
           \A q \in Peticiones :
              peticion'[q].paso = "copiado" =>
                 peticion[q].paso = "copiado" /\
                 (trabajando = {} /\ ~solapados => UNCHANGED <<exe, updater>>)
    PROVE  InvSolo'
<1> SUFFICES ASSUME ~solapados'
             PROVE  /\ (\A h, k \in trabajando : h = k)'
                    /\ \A q \in Peticiones : peticion'[q].paso = "copiado" =>
                          trabajando' = {} /\ (updater' \in Versiones => exe' = updater')
    BY DEF InvSolo
<1>1. ~solapados
    OBVIOUS
<1>2. trabajando' \subseteq trabajando
    BY DEF trabajando
<1>. QED
    BY <1>1, <1>2 DEF InvSolo

\* A handler starts the first helper, from the program that it read.
LEMMA SoloPeticion ==
    ASSUME Tipos, InvSolo, NEW q \in Peticiones,
           \/ \E a \in Aplicaciones : Descargar(q, a)
           \/ EscribirNuevo(q) \/ CopiarUpdater(q) \/ LanzarUpdaterFalla(q)
           \/ \E h \in Ayudantes : LanzarUpdater(q, h)
    PROVE  InvSolo'
<1>1. ASSUME NEW x, x.paso # "copiado", peticion' = [peticion EXCEPT ![q] = x],
             UNCHANGED <<exe, updater, ayudante, solapados>>
      PROVE  InvSolo'
    <2>1. \A y \in Peticiones :
              peticion'[y].paso = "copiado" => peticion[y].paso = "copiado"
        BY <1>1 DEF Tipos, TypeOK
    <2>. QED
        BY <1>1, <2>1, SoloQuieto
<1>2. Libre.paso = "libre"
    BY DEF Libre
<1>3. CASE EscribirNuevo(q)
    <2> DEFINE x == [peticion[q] EXCEPT !.paso = "escrito"]
    <2>1. x.paso = "escrito"
        BY DEF Tipos, TypeOK, Peticion
    <2>2. \/ peticion' = [peticion EXCEPT ![q] = x]
          \/ peticion' = [peticion EXCEPT ![q] = Libre]
        BY <1>3 DEF EscribirNuevo
    <2> HIDE DEF x
    <2>. QED
        BY <1>1, <1>2, <1>3, <2>1, <2>2 DEF EscribirNuevo
<1>4. CASE CopiarUpdater(q)
    <2>1. CASE UNCHANGED updater /\ peticion' = [peticion EXCEPT ![q] = Libre]
        BY <1>1, <1>2, <1>4, <2>1 DEF CopiarUpdater
    <2>2. CASE trabajando = {} /\ updater' \in {exe, Roto}
        <3>1. updater' \in Versiones => exe' = updater'
            BY <1>4, <2>2, Extremos DEF CopiarUpdater
        <3>. QED
            BY <1>4, <2>2, <3>1 DEF CopiarUpdater, InvSolo, trabajando
    <2>. QED
        BY <1>4, <2>1, <2>2 DEF CopiarUpdater
<1>5. ASSUME NEW h \in Ayudantes, LanzarUpdater(q, h) PROVE InvSolo'
    <2>1. ASSUME ~solapados'
          PROVE  /\ \A k \in trabajando' : k = h
                 /\ \A x \in Peticiones : peticion'[x].paso # "copiado"
        <3>1. trabajando = {} /\ \A x \in Peticiones \ {q} : peticion[x].paso # "copiado"
            BY <1>5, <2>1 DEF LanzarUpdater
        <3>2. \A k \in trabajando' : k = h
            BY <1>5, <3>1 DEF LanzarUpdater, trabajando, Tipos, TypeOK
        <3>3. peticion' = [peticion EXCEPT ![q] = Libre]
            BY <1>5 DEF LanzarUpdater
        <3>. QED
            BY <1>2, <3>1, <3>2, <3>3 DEF Tipos, TypeOK
    <2>. QED
        BY <2>1 DEF InvSolo
<1>6. CASE LanzarUpdaterFalla(q)
    BY <1>1, <1>2, <1>6 DEF LanzarUpdaterFalla
<1>7. ASSUME NEW a \in Aplicaciones, Descargar(q, a) PROVE InvSolo'
    <2> DEFINE x == [paso |-> "descargado", v |-> publicada, app |-> {a}]
    <2>1. x.paso = "descargado" /\ peticion' = [peticion EXCEPT ![q] = x]
        BY <1>7 DEF Descargar
    <2> HIDE DEF x
    <2>. QED
        BY <1>1, <1>7, <2>1 DEF Descargar
<1>. QED
    BY <1>3, <1>4, <1>5, <1>6, <1>7

\* What a helper that works does to the helpers.
LEMMA PasoDeAyudante ==
    ASSUME Tipos, NEW h \in Ayudantes,
           \/ Renombrar(h) \/ RenombrarFalla(h)
           \/ Copiar(h) \/ CopiarFin(h) \/ CopiarFalla(h)
           \/ \E a \in Aplicaciones : Lanzar(h, a)
           \/ Listo(h) \/ LanzarFalla(h) \/ Matar(h)
    PROVE  /\ ayudante[h].paso # "fin"
           /\ \A k \in Ayudantes \ {h} : ayudante'[k] = ayudante[k]
           /\ UNCHANGED <<solapados, peticion, updater>>
<1>1. ASSUME terminar(h) PROVE \A k \in Ayudantes \ {h} : ayudante'[k] = ayudante[k]
    BY <1>1 DEF terminar, Tipos, TypeOK
<1>2. CASE Renombrar(h) \/ Copiar(h) \/ CopiarFin(h)
    BY <1>2 DEF Renombrar, Copiar, CopiarFin, Tipos, TypeOK
<1>3. CASE RenombrarFalla(h)
    BY <1>1, <1>3 DEF RenombrarFalla, Tipos, TypeOK
<1>4. CASE CopiarFalla(h) \/ Listo(h) \/ LanzarFalla(h)
    BY <1>1, <1>4 DEF CopiarFalla, Listo, LanzarFalla
<1>5. ASSUME NEW a \in Aplicaciones, Lanzar(h, a)
      PROVE  /\ ayudante[h].paso # "fin"
             /\ \A k \in Ayudantes \ {h} : ayudante'[k] = ayudante[k]
             /\ UNCHANGED <<solapados, peticion, updater>>
    BY <1>5 DEF Lanzar, Tipos, TypeOK
<1>6. CASE Matar(h)
    BY <1>1, <1>6 DEF Matar, trabajando
<1>. QED
    BY <1>2, <1>3, <1>4, <1>5, <1>6

LEMMA SoloPaso == Tipos /\ InvSolo /\ [Next]_vars => InvSolo'
<1> SUFFICES ASSUME Tipos, InvSolo, [Next]_vars PROVE InvSolo'
    OBVIOUS
<1>1. CASE UNCHANGED vars
    BY <1>1, SoloQuieto DEF vars
<1>2. ASSUME NEW a \in Aplicaciones, Abrir(a) \/ LimpiarBackup(a) PROVE InvSolo'
    <2>1. ~solapados' => ~solapados
        BY <1>2 DEF Abrir, LimpiarBackup
    <2>2. UNCHANGED <<exe, updater, ayudante, peticion>>
        BY <1>2 DEF Abrir, LimpiarBackup
    <2>. QED
        BY <2>1, <2>2, SoloQuieto
<1>3. ASSUME NEW a \in Aplicaciones, Salir(a) PROVE InvSolo'
    <2>1. \A q \in Peticiones :
              peticion'[q].paso = "copiado" => peticion[q].paso = "copiado"
        BY <1>3 DEF Salir, Libre
    <2>. QED
        BY <1>3, <2>1, SoloQuieto DEF Salir
<1>4. ASSUME NEW h \in Ayudantes,
             \/ Renombrar(h) \/ RenombrarFalla(h)
             \/ Copiar(h) \/ CopiarFin(h) \/ CopiarFalla(h)
             \/ \E a \in Aplicaciones : Lanzar(h, a)
             \/ Listo(h) \/ LanzarFalla(h) \/ Matar(h)
      PROVE  InvSolo'
    <2>1. /\ ayudante[h].paso # "fin"
          /\ \A k \in Ayudantes \ {h} : ayudante'[k] = ayudante[k]
          /\ UNCHANGED <<solapados, peticion, updater>>
        BY <1>4, PasoDeAyudante
    <2>2. trabajando # {}
        BY <2>1 DEF trabajando
    <2>. QED
        BY <2>1, <2>2, SoloQuieto
<1>5. ASSUME NEW v \in Versiones, Publicar(v) PROVE InvSolo'
    BY <1>5, SoloQuieto DEF Publicar
<1>. QED
    BY <1>1, <1>2, <1>3, <1>4, <1>5, SoloPeticion DEF Next

-----------------------------------------------------------------------------
(* The phases of a replacement.                                            *)

\* A step of a program or of a handler: no helper moves, the file of the
\* program stays, a copy stays, and nobody starts while a helper works.
LEMMA FasesQuietas ==
    ASSUME Tipos, InvFases, ~solapados' => ~solapados,
           UNCHANGED <<ayudante, exe, sinVuelta>>,
           ~solapados' => (enMarcha("exe")' => enMarcha("exe") \/ trabajando = {}),
           \A b \in Respaldos : respaldo'[b] \in {respaldo[b], Falta},
           hayCopia => hayCopia' \/ (exe \in Versiones /\ enMarcha("exe"))
    PROVE  InvFases'
<1> SUFFICES ASSUME ~solapados' PROVE InvFases'
    BY DEF InvFases
<1>1. ~solapados
    OBVIOUS
<1>2. trabajando' = trabajando
    BY DEF trabajando
<1>3. ASSUME NEW h \in Ayudantes
      PROVE  /\ ayudante'[h].paso \in FaseEntera => exe' \in Versiones
             /\ ayudante'[h].paso \in FaseCopia =>
                   /\ ~enMarcha("exe")'
                   /\ hayCopia'
                   /\ respaldo'[ayudante'[h].backup] \in Versiones \cup {Falta}
    <2>1. ayudante[h].paso \in FaseEntera => exe' \in Versiones
        BY <1>1 DEF InvFases
    <2>2. ASSUME ayudante[h].paso \in FaseCopia
          PROVE  /\ ~enMarcha("exe")'
                 /\ hayCopia'
                 /\ respaldo'[ayudante[h].backup] \in Versiones \cup {Falta}
        <3>1. /\ ~enMarcha("exe")
              /\ hayCopia
              /\ respaldo[ayudante[h].backup] \in Versiones \cup {Falta}
            BY <1>1, <2>2 DEF InvFases
        <3>2. trabajando # {}
            BY <2>2 DEF trabajando, FaseCopia
        <3>3. ayudante[h].backup \in Respaldos
            BY DEF Tipos, TypeOK, Ayudante
        <3>. QED
            BY <3>1, <3>2, <3>3
    <2>. QED
        BY <2>1, <2>2
<1>4. trabajando' = {} =>
          /\ exe' \in Versiones \/ hayCopia'
          /\ ~sinVuelta' => exe' \in Versiones
    BY <1>1, <1>2 DEF InvFases
<1>. QED
    BY <1>3, <1>4 DEF InvFases

\* A step of the helper that works, which goes to x.
LEMMA FasesDelAyudante ==
    ASSUME Tipos, InvSolo, InvFases, NEW h \in Ayudantes, NEW x \in Ayudante,
           ayudante[h].paso # "fin", ayudante' = [ayudante EXCEPT ![h] = x],
           UNCHANGED solapados,
           ~solapados =>
              /\ x.paso \in FaseEntera => exe' \in Versiones
              /\ x.paso \in FaseCopia =>
                    /\ ~enMarcha("exe")'
                    /\ hayCopia'
                    /\ respaldo'[x.backup] \in Versiones \cup {Falta}
              /\ x.paso = "fin" =>
                    /\ exe' \in Versiones \/ hayCopia'
                    /\ ~sinVuelta' => exe' \in Versiones
    PROVE  InvFases'
<1> SUFFICES ASSUME ~solapados PROVE InvFases'
    BY DEF InvFases
<1>1. ayudante'[h] = x
    BY DEF Tipos, TypeOK
<1>2. \A k \in Ayudantes \ {h} : ayudante'[k].paso = "fin"
    <2>1. \A k \in Ayudantes \ {h} : ayudante[k].paso = "fin"
        BY DEF InvSolo, trabajando
    <2>. QED
        BY <2>1 DEF Tipos, TypeOK
<1>3. \A k \in Ayudantes :
          /\ ayudante'[k].paso \in FaseEntera => exe' \in Versiones
          /\ ayudante'[k].paso \in FaseCopia =>
                /\ ~enMarcha("exe")'
                /\ hayCopia'
                /\ respaldo'[ayudante'[k].backup] \in Versiones \cup {Falta}
    BY <1>1, <1>2 DEF FaseEntera, FaseCopia
<1>4. trabajando' = {} =>
          /\ exe' \in Versiones \/ hayCopia'
          /\ ~sinVuelta' => exe' \in Versiones
    <2>1. trabajando' = {} => x.paso = "fin"
        BY <1>1 DEF trabajando
    <2>. QED
        BY <2>1
<1>. QED
    BY <1>3, <1>4 DEF InvFases

\* At the start no helper works.
LEMMA FasesInicial == Init => InvFases
BY DEF Init, InvFases, NoAyudante, FaseEntera, FaseCopia

\* Whoever removes the copies runs from a file that it does not remove.
LEMMA QuienLimpia ==
    ASSUME Tipos, InvImagen, NEW a \in Aplicaciones, LimpiarBackup(a)
    PROVE  hayCopia' \/ (exe \in Versiones /\ enMarcha("exe"))
<1>1. app[a].viva /\ enMarcha(app[a].imagen)
    BY DEF LimpiarBackup, enMarcha, vivas
<1>2. CASE app[a].imagen = "exe"
    BY <1>1, <1>2 DEF InvImagen
<1>3. CASE app[a].imagen \in Respaldos
    <2>1. respaldo[app[a].imagen] \in Versiones
        BY <1>1, <1>3 DEF InvImagen
    <2>2. respaldo'[app[a].imagen] = respaldo[app[a].imagen]
        BY <1>1, <1>3 DEF LimpiarBackup
    <2>. QED
        BY <1>3, <2>1, <2>2 DEF hayCopia
<1>. QED
    BY <1>2, <1>3 DEF Tipos, TypeOK, App

\* A step of a program keeps the phase of the helper.
LEMMA FasesAplicacion ==
    ASSUME Tipos, InvImagen, InvFases, NEW a \in Aplicaciones,
           Abrir(a) \/ LimpiarBackup(a) \/ Salir(a)
    PROVE  InvFases'
<1>1. CASE Abrir(a)
    <2>1. UNCHANGED <<ayudante, exe, sinVuelta, respaldo>>
        BY <1>1 DEF Abrir
    <2>2. ~solapados' => ~solapados /\ trabajando = {}
        BY <1>1 DEF Abrir
    <2>3. hayCopia => hayCopia'
        BY <2>1 DEF hayCopia
    <2>. QED
        BY <2>1, <2>2, <2>3, FasesQuietas
<1>2. CASE LimpiarBackup(a)
    <2>1. UNCHANGED <<ayudante, exe, sinVuelta, solapados>>
        BY <1>2 DEF LimpiarBackup
    <2>2. enMarcha("exe")' => enMarcha("exe")
        BY <1>2 DEF LimpiarBackup, enMarcha, vivas, Tipos, TypeOK, App
    <2>3. \A b \in Respaldos : respaldo'[b] \in {respaldo[b], Falta}
        BY <1>2 DEF LimpiarBackup
    <2>4. hayCopia' \/ (exe \in Versiones /\ enMarcha("exe"))
        BY <1>2, QuienLimpia
    <2>. QED
        BY <2>1, <2>2, <2>3, <2>4, FasesQuietas
<1>3. CASE Salir(a)
    <2>1. UNCHANGED <<ayudante, exe, sinVuelta, respaldo, solapados>>
        BY <1>3 DEF Salir
    <2>2. enMarcha("exe")' => enMarcha("exe")
        BY <1>3 DEF Salir, NoApp, enMarcha, vivas, Tipos, TypeOK
    <2>3. hayCopia => hayCopia'
        BY <2>1 DEF hayCopia
    <2>. QED
        BY <2>1, <2>2, <2>3, FasesQuietas
<1>. QED
    BY <1>1, <1>2, <1>3

\* A step of a handler leaves a helper that has just started.
LEMMA FasesPeticion ==
    ASSUME Tipos, InvSolo, InvFases, NEW q \in Peticiones,
           \/ \E a \in Aplicaciones : Descargar(q, a)
           \/ EscribirNuevo(q) \/ CopiarUpdater(q) \/ LanzarUpdaterFalla(q)
           \/ \E h \in Ayudantes : LanzarUpdater(q, h)
    PROVE  InvFases'
<1>1. UNCHANGED <<exe, sinVuelta, respaldo, app>>
    BY DEF Descargar, EscribirNuevo, CopiarUpdater, LanzarUpdaterFalla, LanzarUpdater
<1>2. CASE UNCHANGED <<ayudante, solapados>>
    <2>1. (enMarcha("exe")' => enMarcha("exe")) /\ (hayCopia => hayCopia')
        BY <1>1 DEF hayCopia, enMarcha, vivas
    <2>. QED
        BY <1>1, <1>2, <2>1, FasesQuietas
<1>3. ASSUME NEW h \in Ayudantes, LanzarUpdater(q, h) PROVE InvFases'
    <2>1. ASSUME ~solapados' PROVE exe' \in Versiones
        <3>1. ~solapados /\ peticion[q].paso = "copiado" /\ updater \in Versiones
            BY <1>3, <2>1 DEF LanzarUpdater
        <3>. QED
            BY <1>1, <3>1 DEF InvSolo
    <2>2. ASSUME ~solapados', NEW k \in Ayudantes
          PROVE  ayudante'[k].paso \in {"fin", "renombrar"}
        <3>1. trabajando = {}
            BY <1>3, <2>2 DEF LanzarUpdater
        <3>. QED
            BY <1>3, <3>1 DEF LanzarUpdater, trabajando, NoAyudante, Tipos, TypeOK
    <2>. QED
        BY <2>1, <2>2 DEF InvFases, FaseCopia
<1>. QED
    BY <1>2, <1>3 DEF Descargar, EscribirNuevo, CopiarUpdater, LanzarUpdaterFalla

\* The end of an attempt that could not replace the program: it is put back
\* from its copy, or it is known that it was not.
LEMMA FasesVuelta ==
    ASSUME Tipos, InvSolo, InvFases, NEW h \in Ayudantes, terminar(h),
           ayudante[h].paso \in FaseCopia, UNCHANGED solapados,
           \/ /\ respaldo[ayudante[h].backup] # Falta
              /\ exe' = respaldo[ayudante[h].backup]
           \/ sinVuelta' = TRUE /\ UNCHANGED respaldo
    PROVE  InvFases'
<1>1. NoAyudante \in Ayudante /\ NoAyudante.paso = "fin"
    BY ReintentosAssumption DEF NoAyudante, Ayudante, Respaldos
<1>2. ayudante[h].paso # "fin"
    BY DEF FaseCopia
<1>3. ASSUME ~solapados
      PROVE  /\ exe' \in Versiones \/ hayCopia'
             /\ ~sinVuelta' => exe' \in Versiones
    BY <1>3 DEF InvFases, hayCopia
<1>4. ayudante' = [ayudante EXCEPT ![h] = NoAyudante]
    BY DEF terminar
<1>. QED
    BY <1>1, <1>2, <1>3, <1>4, FasesDelAyudante DEF FaseEntera, FaseCopia

\* Each step of the helper ends in the phase of the next one.
LEMMA FasesAyudante ==
    ASSUME Tipos, InvSolo, InvFases, NEW h \in Ayudantes,
           \/ Renombrar(h) \/ RenombrarFalla(h)
           \/ Copiar(h) \/ CopiarFin(h) \/ CopiarFalla(h)
           \/ \E a \in Aplicaciones : Lanzar(h, a)
           \/ Listo(h) \/ LanzarFalla(h) \/ Matar(h)
    PROVE  InvFases'
<1> DEFINE p == ayudante[h]
           va(s) == [p EXCEPT !.paso = s]
<1>1. p \in Ayudante /\ p.backup \in Respaldos
    BY DEF Tipos, TypeOK, Ayudante
<1>2. \A s \in {"copiar", "copiando", "lanzar", "listo"} :
          va(s) \in Ayudante /\ va(s).paso = s /\ va(s).backup = p.backup
    BY <1>1 DEF Ayudante
<1>3. NoAyudante \in Ayudante /\ NoAyudante.paso = "fin"
    BY ReintentosAssumption DEF NoAyudante, Ayudante, Respaldos
<1>4. p.paso # "fin" /\ UNCHANGED solapados
    BY PasoDeAyudante
<1>5. ASSUME ~solapados
      PROVE  /\ p.paso \in FaseEntera => exe \in Versiones
             /\ p.paso \in FaseCopia =>
                   /\ ~enMarcha("exe")
                   /\ hayCopia
                   /\ respaldo[p.backup] \in Versiones \cup {Falta}
    BY <1>5 DEF InvFases
<1> HIDE DEF p
<1>6. CASE Renombrar(h)
    <2> DEFINE x == va("copiar")
    <2>1. /\ p.paso = "renombrar"
          /\ respaldo' = [respaldo EXCEPT ![p.backup] = exe]
          /\ app' = movidas("exe", p.backup)
          /\ ayudante' = [ayudante EXCEPT ![h] = x]
        BY <1>6 DEF Renombrar, p
    <2>2. ~enMarcha("exe")'
        <3>1. ASSUME NEW b \in Respaldos, NEW y \in Aplicaciones
              PROVE  ~(movidas("exe", b)[y].viva /\ movidas("exe", b)[y].imagen = "exe")
            BY DEF movidas, Respaldos, Tipos, TypeOK, App
        <3>. QED
            BY <1>1, <2>1, <3>1 DEF enMarcha, vivas
    <2>3. ASSUME ~solapados PROVE hayCopia' /\ respaldo'[p.backup] \in Versiones
        <3>1. exe \in Versiones
            BY <1>5, <2>1, <2>3 DEF FaseEntera
        <3>2. respaldo'[p.backup] = exe
            BY <1>1, <2>1 DEF Tipos, TypeOK
        <3>. QED
            BY <1>1, <3>1, <3>2 DEF hayCopia
    <2>4. x \in Ayudante /\ x.paso = "copiar" /\ x.backup = p.backup
        BY <1>2
    <2> HIDE DEF x
    <2>. QED
        BY <1>4, <2>1, <2>2, <2>3, <2>4, FasesDelAyudante DEF FaseEntera, FaseCopia, p
<1>7. CASE RenombrarFalla(h)
    <2>1. p.paso = "renombrar" /\ UNCHANGED <<exe, sinVuelta>>
        BY <1>7 DEF RenombrarFalla, p
    <2>2. ~solapados => exe' \in Versiones
        BY <1>5, <2>1 DEF FaseEntera
    <2>3. PICK x \in Ayudante : /\ ayudante' = [ayudante EXCEPT ![h] = x]
                                /\ x.paso \in {"renombrar", "fin"}
        <3>1. CASE terminar(h)
            BY <1>3, <3>1 DEF terminar
        <3>2. CASE ~terminar(h)
            <4> DEFINE b == IF p.i = Cambio THEN "unico" ELSE p.backup
                       x == [p EXCEPT !.i = @ + 1, !.backup = b]
            <4>1. p.i + 1 < Reintentos /\ ayudante' = [ayudante EXCEPT ![h] = x]
                BY <1>7, <3>2 DEF RenombrarFalla, p
            <4>2. p.i + 1 \in 0 .. Reintentos - 1
                <5>1. p.i \in Nat
                    BY <1>1 DEF Ayudante
                <5>. QED
                    BY <5>1, <4>1, ReintentosAssumption
            <4>3. b \in Respaldos
                BY <1>1 DEF Respaldos
            <4> HIDE DEF b
            <4>4. x \in Ayudante /\ x.paso = "renombrar"
                BY <1>1, <2>1, <4>2, <4>3 DEF Ayudante
            <4>. QED
                BY <4>1, <4>4
        <3>. QED
            BY <3>1, <3>2
    <2>. QED
        BY <1>4, <2>2, <2>3, FasesDelAyudante DEF FaseEntera, FaseCopia, p
<1>8. CASE Copiar(h) \/ CopiarFin(h)
    <2>1. p.paso \in FaseCopia /\ UNCHANGED <<app, respaldo, sinVuelta>>
        BY <1>8 DEF Copiar, CopiarFin, p, FaseCopia
    <2>2. PICK s \in {"copiando", "lanzar"} : ayudante' = [ayudante EXCEPT ![h] = va(s)]
        BY <1>8 DEF Copiar, CopiarFin, p
    <2> DEFINE x == va(s)
    <2>3. x \in Ayudante /\ x.paso = s /\ x.backup = p.backup
        BY <1>2
    <2>4. ayudante' = [ayudante EXCEPT ![h] = x]
        BY <2>2
    <2> HIDE DEF x
    <2>5. ~solapados => /\ ~enMarcha("exe")'
                        /\ hayCopia'
                        /\ respaldo'[x.backup] \in Versiones \cup {Falta}
        BY <1>5, <2>1, <2>3 DEF enMarcha, vivas, hayCopia
    <2>. QED
        BY <1>4, <2>3, <2>4, <2>5, FasesDelAyudante DEF FaseEntera, FaseCopia, p
<1>9. CASE CopiarFalla(h) \/ LanzarFalla(h)
    <2>1. terminar(h) /\ p.paso \in FaseCopia
        BY <1>9 DEF CopiarFalla, LanzarFalla, p, FaseCopia
    <2>2. \/ respaldo[p.backup] # Falta /\ exe' = respaldo[p.backup]
          \/ sinVuelta' = TRUE /\ UNCHANGED respaldo
        BY <1>9 DEF CopiarFalla, LanzarFalla, p
    <2>. QED
        BY <1>4, <2>1, <2>2, FasesVuelta DEF p
<1>10. ASSUME NEW a \in Aplicaciones, Lanzar(h, a) PROVE InvFases'
    <2> DEFINE x == va("listo")
    <2>1. exe' \in Versiones /\ ayudante' = [ayudante EXCEPT ![h] = x]
        BY <1>10 DEF Lanzar, p
    <2>2. x \in Ayudante /\ x.paso = "listo"
        BY <1>2
    <2> HIDE DEF x
    <2>. QED
        BY <1>4, <2>1, <2>2, FasesDelAyudante DEF FaseEntera, FaseCopia, p
<1>11. CASE Listo(h) \/ Matar(h)
    <2>1. /\ ayudante' = [ayudante EXCEPT ![h] = NoAyudante]
          /\ UNCHANGED <<exe, respaldo>>
          /\ p.paso = "listo" \/ sinVuelta' = TRUE
        BY <1>11 DEF Listo, Matar, terminar, p
    <2>2. ASSUME ~solapados
          PROVE  /\ exe' \in Versiones \/ hayCopia'
                 /\ ~sinVuelta' => exe' \in Versiones
        <3>1. p.paso \in FaseEntera \cup FaseCopia
            BY <1>1, <1>4 DEF Ayudante, FaseEntera, FaseCopia
        <3>2. exe' \in Versiones \/ hayCopia'
            BY <1>5, <2>1, <2>2, <3>1 DEF hayCopia
        <3>3. ~sinVuelta' => exe' \in Versiones
            BY <1>5, <2>1, <2>2 DEF FaseEntera
        <3>. QED
            BY <3>2, <3>3
    <2>. QED
        BY <1>3, <1>4, <2>1, <2>2, FasesDelAyudante DEF FaseEntera, FaseCopia, p
<1>. QED
    BY <1>6, <1>7, <1>8, <1>9, <1>10, <1>11

LEMMA FasesPaso == Tipos /\ InvImagen /\ InvSolo /\ InvFases /\ [Next]_vars => InvFases'
<1> SUFFICES ASSUME Tipos, InvImagen, InvSolo, InvFases, [Next]_vars PROVE InvFases'
    OBVIOUS
<1>1. ASSUME UNCHANGED <<ayudante, exe, sinVuelta, respaldo, app, solapados>>
      PROVE  InvFases'
    <2>1. (enMarcha("exe")' => enMarcha("exe")) /\ (hayCopia => hayCopia')
        BY <1>1 DEF hayCopia, enMarcha, vivas
    <2>. QED
        BY <1>1, <2>1, FasesQuietas
<1>2. CASE UNCHANGED vars
    BY <1>1, <1>2 DEF vars
<1>3. ASSUME NEW v \in Versiones, Publicar(v) PROVE InvFases'
    BY <1>1, <1>3 DEF Publicar
<1>. QED
    BY <1>2, <1>3, FasesAplicacion, FasesPeticion, FasesAyudante DEF Next

-----------------------------------------------------------------------------
(* The record of a failure, when the data are where processes start.       *)

\* At the start no attempt has failed.
LEMMA FalloInicial == Init => InvFallo
BY DEF Init, InvFallo

\* The helper, the program and the handlers write one record.
LEMMA FalloRegistrado ==
    ASSUME Portable, NEW d \in {"datos", deArranque}, NEW v, NEW paso,
           registro \in [{"datos", "arranque"} -> Registro], registrar(d, v, paso)
    PROVE  InvFallo'
BY DEF registrar, InvFallo, deArranque, Fallos

\* What is forgotten is the record of a release that is in place already.
LEMMA FalloOlvidado ==
    ASSUME Portable, Tipos, InvFallo, NEW v \in Versiones, olvidar(v)
    PROVE  InvFallo'
<1>1. CASE fallo = SinRegistro
    BY <1>1 DEF olvidar, InvFallo
<1>2. CASE fallo # SinRegistro
    <2>1. registro[deArranque] = fallo /\ fallo.paso # "listo"
        BY <1>2 DEF InvFallo, Fallos
    <2>2. CASE v >= fallo.v
        BY <2>2 DEF olvidar, InvFallo
    <2>3. CASE ~(v >= fallo.v)
        BY <2>1, <2>3 DEF olvidar, InvFallo
    <2>. QED
        BY <2>2, <2>3
<1>. QED
    BY <1>1, <1>2

LEMMA FalloPaso == Portable /\ Tipos /\ InvFallo /\ [Next]_vars => InvFallo'
<1> SUFFICES ASSUME Portable, Tipos, InvFallo, [Next]_vars PROVE InvFallo'
    OBVIOUS
<1>1. registro \in [{"datos", "arranque"} -> Registro]
    BY DEF Tipos, TypeOK
<1>2. ASSUME UNCHANGED <<registro, fallo>> PROVE InvFallo'
    BY <1>2 DEF InvFallo
<1>3. CASE UNCHANGED vars
    BY <1>2, <1>3 DEF vars
<1>4. ASSUME NEW a \in Aplicaciones, Abrir(a) \/ LimpiarBackup(a) \/ Salir(a)
      PROVE  InvFallo'
    BY <1>2, <1>4, FalloOlvidado DEF Abrir, LimpiarBackup, Salir
<1>5. ASSUME NEW q \in Peticiones,
             \/ \E a \in Aplicaciones : Descargar(q, a)
             \/ EscribirNuevo(q) \/ CopiarUpdater(q) \/ LanzarUpdaterFalla(q)
             \/ \E h \in Ayudantes : LanzarUpdater(q, h)
      PROVE  InvFallo'
    BY <1>1, <1>2, <1>5, FalloRegistrado DEF Descargar, EscribirNuevo, CopiarUpdater,
       LanzarUpdaterFalla, LanzarUpdater
<1>6. ASSUME NEW h \in Ayudantes, NEW a \in Aplicaciones, Lanzar(h, a) PROVE InvFallo'
    BY <1>6, FalloOlvidado DEF Lanzar
<1>7. ASSUME NEW h \in Ayudantes, Renombrar(h) \/ Copiar(h) \/ CopiarFin(h)
      PROVE  InvFallo'
    BY <1>2, <1>7 DEF Renombrar, Copiar, CopiarFin
<1>8. ASSUME NEW h \in Ayudantes,
             RenombrarFalla(h) \/ CopiarFalla(h) \/ Listo(h) \/ LanzarFalla(h)
      PROVE  InvFallo'
    BY <1>1, <1>2, <1>8, FalloRegistrado DEF RenombrarFalla, CopiarFalla, Listo,
       LanzarFalla
<1>9. ASSUME NEW h \in Ayudantes, Matar(h) PROVE InvFallo'
    BY <1>9 DEF Matar, InvFallo
<1>10. ASSUME NEW v \in Versiones, Publicar(v) PROVE InvFallo'
    BY <1>2, <1>10 DEF Publicar
<1>. QED
    BY <1>3, <1>4, <1>5, <1>6, <1>7, <1>8, <1>9, <1>10 DEF Next

-----------------------------------------------------------------------------
(* The results about the updater.                                          *)

LEMMA Inductivo == IInv /\ [Next]_vars => IInv'
BY TiposPaso, ImagenPaso, SoloPaso, FasesPaso DEF IInv, Tipos

LEMMA InvarianteInicial == Init => IInv
<1> SUFFICES ASSUME Init PROVE IInv
    OBVIOUS
<1>1. InvSolo
    BY DEF Init, InvSolo, trabajando, NoAyudante, Libre
<1>. QED
    BY <1>1, TiposIniciales, ImagenInicial, FasesInicial DEF IInv, Tipos

\* The inductive invariant holds of every reachable state.
THEOREM Invariante == Spec => []IInv
BY InvarianteInicial, Inductivo, PTL DEF Spec

\* Every variable keeps its type.
THEOREM TipoCorrecto == Spec => []TypeOK
<1>1. IInv => TypeOK
    BY DEF IInv
<1>. QED
    BY <1>1, Invariante, PTL

\* Whatever step of the replacement fails and wherever the helper is killed, a
\* whole program is left under its name or in a copy, and under its name when
\* the helper ends and did not give up, unless helpers overlapped.
THEOREM ProgramaRecuperable == Spec => []HayEjecutable
<1>1. IInv => HayEjecutable
    <2> SUFFICES ASSUME IInv, ~solapados
                 PROVE  /\ exe \in Versiones \/ \E b \in Respaldos : respaldo[b] \in Versiones
                        /\ trabajando = {} /\ ~sinVuelta => exe \in Versiones
        BY DEF HayEjecutable
    <2>1. CASE trabajando = {}
        BY <2>1 DEF IInv, InvFases, hayCopia
    <2>2. CASE trabajando # {}
        <3>1. PICK h \in Ayudantes : ayudante[h].paso # "fin"
            BY <2>2 DEF trabajando
        <3>2. ayudante[h].paso \in FaseEntera \cup FaseCopia
            BY <3>1 DEF IInv, TypeOK, Ayudante, FaseEntera, FaseCopia
        <3>. QED
            BY <2>2, <3>2 DEF IInv, InvFases, hayCopia
    <2>. QED
        BY <2>1, <2>2
<1>. QED
    BY <1>1, Invariante, PTL

\* No process runs from a file that is missing, or that is being written.
THEOREM ImagenEntera ==
    Spec => []( /\ enMarcha("exe") => exe \in Versiones /\ ~escribiendo
                /\ \A b \in Respaldos : enMarcha(b) => respaldo[b] \in Versiones )
<1>1. IInv => /\ enMarcha("exe") => exe \in Versiones /\ ~escribiendo
              /\ \A b \in Respaldos : enMarcha(b) => respaldo[b] \in Versiones
    BY Extremos DEF IInv, InvImagen
<1>. QED
    BY <1>1, Invariante, PTL

\* With the data beside the program, the version before that starts after an
\* attempt failed shows the step that did.
THEOREM PanelMuestraElFallo == ASSUME Portable PROVE Spec => PanelDelFallo
<1>1. Init => InvFallo
    BY FalloInicial
<1>2. IInv /\ InvFallo /\ [Next]_vars => InvFallo'
    BY FalloPaso DEF IInv, Tipos
<1>3. InvFallo' => \A a \in Aplicaciones :
          ~app[a].viva /\ app'[a].viva /\ fallida(app[a].v)' => panel(a)' = fallo'
    BY DEF InvFallo, deArranque, fallida, panel, Fallos
<1>4. IInv /\ InvFallo /\ [Next]_vars =>
          [\A a \in Aplicaciones :
              ~app[a].viva /\ app'[a].viva /\ fallida(app[a].v)' => panel(a)' = fallo']_vars
    BY <1>2, <1>3
<1>. QED
    BY <1>1, <1>2, <1>4, Invariante, PTL DEF Spec, PanelDelFallo

-----------------------------------------------------------------------------
(* The file manager: the inductive invariant.                              *)

\* A request past the registry works on a connection that was registered, and
\* so does a closing; a registered connection has a client.
InvCon ==
    /\ registrada # Nadie => cliente[registrada] # "nulo"
    /\ \A s \in Gestores : gestor[s].paso \notin {"libre", "mu"} =>
          gestor[s].con \in Con /\ cliente[gestor[s].con] # "nulo"
    /\ \A d \in Hilos : hilo[d].paso \in {"sftpMu", "usa"} =>
          d \in Cierres /\ hilo[d].con \in Con

\* Whoever opens a channel holds the lock of the connection, which has none.
InvCanal ==
    \A s \in Gestores : gestor[s].paso = "abriendo" =>
        /\ sftpMu[gestor[s].con] = s
        /\ canal[gestor[s].con] = "nulo"

\* The document is still what a window had read, between its check and its
\* rename, unless somebody overtook it.
InvDocumento ==
    \A s \in Gestores : gestor[s].paso = "escribe" /\ ~gestor[s].ajeno =>
        documento = gestor[s].revision

\* A window that saves has something to save.
InvNuevo ==
    \A s \in Gestores :
        gestor[s].paso = "escribe" => gestor[s].nuevo # Nadie

IInvArchivos ==
    /\ ArchivosTypeOK
    /\ InvCon
    /\ InvCanal
    /\ InvDocumento
    /\ InvNuevo
    /\ SinTemporales

-----------------------------------------------------------------------------
LEMMA TiposGestor ==
    ASSUME NEW g \in Gestor
    PROVE  /\ terminado(g) \in Gestor
           /\ terminado(g).paso = "libre"
           /\ terminado(g).ajeno = FALSE
           /\ \A x \in Textos : [terminado(g) EXCEPT !.revision = x] \in Gestor
           /\ \A x : [terminado(g) EXCEPT !.revision = x].paso = "libre"
           /\ \A p \in Pasos : [g EXCEPT !.paso = p] \in Gestor
BY DEF Gestor, terminado, Pasos

LEMMA ArchivosIniciales == ArchivosInit => IInvArchivos
<1> SUFFICES ASSUME ArchivosInit PROVE IInvArchivos
    OBVIOUS
<1>1. ArchivosTypeOK
    BY DEF ArchivosInit, ArchivosTypeOK, GestorLibre, Gestor, Pasos
<1>. QED
    BY <1>1 DEF ArchivosInit, IInvArchivos, InvCon, InvCanal, InvDocumento,
       InvNuevo, SinTemporales, GestorLibre

LEMMA PasoConectar ==
    ASSUME IInvArchivos, NEW c \in Con, Conectar(c)
    PROVE  IInvArchivos'
<1>1. ArchivosTypeOK'
    BY DEF Conectar, IInvArchivos, ArchivosTypeOK, locks, remoto
<1>. QED
    BY <1>1 DEF Conectar, IInvArchivos, ArchivosTypeOK, InvCon, InvCanal,
       InvDocumento, InvNuevo, SinTemporales, locks, remoto

LEMMA PasoLlamar ==
    ASSUME IInvArchivos, NEW e \in Hilos, Llamar(e) \/ Atender(e)
    PROVE  IInvArchivos'
<1>1. ArchivosTypeOK'
    BY DEF Llamar, Atender, IInvArchivos, ArchivosTypeOK, locks, remoto, Pasos
<1>. QED
    BY <1>1 DEF Llamar, Atender, IInvArchivos, ArchivosTypeOK, InvCon, InvCanal,
       InvDocumento, InvNuevo, SinTemporales, locks, remoto

LEMMA PasoCerrar ==
    ASSUME IInvArchivos, NEW d \in Cierres,
           CerrarEmpezar(d) \/ CerrarCanal(d) \/ CerrarCliente(d)
    PROVE  IInvArchivos'
<1> USE DEF Hilos
<1>1. CASE CerrarEmpezar(d)
    <2>1. ArchivosTypeOK'
        BY <1>1 DEF CerrarEmpezar, IInvArchivos, ArchivosTypeOK, remoto, Pasos
    <2>. QED
        BY <1>1, <2>1 DEF CerrarEmpezar, IInvArchivos, ArchivosTypeOK, InvCon,
           InvCanal, InvDocumento, InvNuevo, SinTemporales, remoto
<1>2. CASE CerrarCanal(d)
    <2>1. ArchivosTypeOK'
        BY <1>2 DEF CerrarCanal, IInvArchivos, ArchivosTypeOK, locks, remoto, Pasos
    <2>. QED
        BY <1>2, <2>1 DEF CerrarCanal, IInvArchivos, ArchivosTypeOK, InvCon,
           InvCanal, InvDocumento, InvNuevo, SinTemporales, locks, remoto
<1>3. CASE CerrarCliente(d)
    <2>1. ArchivosTypeOK'
        BY <1>3 DEF CerrarCliente, IInvArchivos, ArchivosTypeOK, remoto, Pasos
    <2>. QED
        BY <1>3, <2>1 DEF CerrarCliente, IInvArchivos, ArchivosTypeOK, InvCon,
           InvCanal, InvDocumento, InvNuevo, SinTemporales, remoto
<1>. QED
    BY <1>1, <1>2, <1>3

\* A request that only moves the handler of one window, to a step that is
\* neither the opening of a channel nor a save.
LEMMA PasoGestor ==
    ASSUME IInvArchivos, NEW s \in Gestores, NEW g \in Gestor,
           gestor' = [gestor EXCEPT ![s] = g],
           g.paso \notin {"abriendo", "escribe"},
           g.paso \notin {"libre", "mu"} =>
              g.con \in Con /\ cliente[g.con] # "nulo",
           gestor[s].paso # "escribe",
           UNCHANGED <<locks, registrada, cliente, canal, hilo, remoto>>
    PROVE  IInvArchivos'
<1>1. ArchivosTypeOK'
    BY DEF IInvArchivos, ArchivosTypeOK, locks, remoto
<1>2. \A r \in Gestores : gestor'[r] = IF r = s THEN g ELSE gestor[r]
    BY DEF IInvArchivos, ArchivosTypeOK
<1>. QED
    BY <1>1, <1>2 DEF IInvArchivos, InvCon, InvCanal, InvDocumento, InvNuevo,
       SinTemporales, locks, remoto

LEMMA PasoPedir ==
    ASSUME IInvArchivos, NEW s \in Gestores, NEW x \in Textos \cup {Nadie}, Pedir(s, x)
    PROVE  IInvArchivos'
<1> DEFINE g == [gestor[s] EXCEPT !.paso = "mu", !.nuevo = x]
<1>1. gestor' = [gestor EXCEPT ![s] = g] /\ gestor[s].paso = "libre"
    BY DEF Pedir
<1>2. g \in Gestor /\ g.paso = "mu"
    BY DEF IInvArchivos, ArchivosTypeOK, Gestor, Pasos
<1> HIDE DEF g
<1>. QED
    BY <1>1, <1>2, PasoGestor DEF Pedir

LEMMA PasoBuscar ==
    ASSUME IInvArchivos, NEW s \in Gestores, Buscar(s)
    PROVE  IInvArchivos'
<1>1. gestor[s] \in Gestor
    BY DEF IInvArchivos, ArchivosTypeOK
<1>2. CASE registrada = Nadie
    <2>1. gestor' = [gestor EXCEPT ![s] = terminado(gestor[s])]
        BY <1>2 DEF Buscar, responder
    <2>. QED
        BY <1>1, <2>1, TiposGestor, PasoGestor DEF Buscar
<1>3. CASE registrada # Nadie
    <2> DEFINE g == [gestor[s] EXCEPT !.paso = "sftpMu", !.con = registrada]
    <2>1. gestor' = [gestor EXCEPT ![s] = g]
        BY <1>3 DEF Buscar
    <2>2. g \in Gestor /\ g.paso = "sftpMu" /\ g.con = registrada
        BY <1>1, <1>3 DEF IInvArchivos, ArchivosTypeOK, Gestor, Pasos
    <2>3. registrada \in Con /\ cliente[registrada] # "nulo"
        BY <1>3 DEF IInvArchivos, ArchivosTypeOK, InvCon
    <2> HIDE DEF g
    <2>. QED
        BY <2>1, <2>2, <2>3, PasoGestor DEF Buscar
<1>. QED
    BY <1>2, <1>3

LEMMA PasoLeer ==
    ASSUME IInvArchivos, NEW s \in Gestores, Leer(s)
    PROVE  IInvArchivos'
<1>1. gestor[s] \in Gestor /\ documento \in Textos
    BY DEF IInvArchivos, ArchivosTypeOK
<1>2. PICK g \in Gestor : gestor' = [gestor EXCEPT ![s] = g] /\ g.paso = "libre"
    <2>1. CASE responder(s)
        BY <1>1, <2>1, TiposGestor DEF responder
    <2>2. CASE gestor' = [gestor EXCEPT ![s] =
                            [terminado(@) EXCEPT !.revision = documento]]
        <3> DEFINE g == [terminado(gestor[s]) EXCEPT !.revision = documento]
        <3>1. g \in Gestor /\ g.paso = "libre"
            BY <1>1, TiposGestor
        <3>2. gestor' = [gestor EXCEPT ![s] = g]
            BY <2>2
        <3> HIDE DEF g
        <3>. QED
            BY <3>1, <3>2
    <2>. QED
        BY <2>1, <2>2 DEF Leer
<1>. QED
    BY <1>2, PasoGestor DEF Leer

LEMMA PasoTomarCanal ==
    ASSUME IInvArchivos, NEW s \in Gestores, TomarCanal(s)
    PROVE  IInvArchivos'
<1> DEFINE c == gestor[s].con
<1>1. gestor[s] \in Gestor /\ c \in Con /\ cliente[c] # "nulo"
    BY DEF TomarCanal, IInvArchivos, ArchivosTypeOK, InvCon
<1>2. CASE canal[c] = "abierto"
    <2> DEFINE g == [gestor[s] EXCEPT !.paso = "usa"]
    <2>1. gestor' = [gestor EXCEPT ![s] = g]
        BY <1>2 DEF TomarCanal, pasar
    <2>2. g \in Gestor /\ g.paso = "usa" /\ g.con = c
        BY <1>1 DEF Gestor, Pasos
    <2> HIDE DEF g
    <2>. QED
        BY <1>1, <1>2, <2>1, <2>2, PasoGestor DEF TomarCanal, locks
<1>3. CASE canal[c] # "abierto"
    <2> DEFINE g == [gestor[s] EXCEPT !.paso = "abriendo"]
    <2>1. gestor' = [gestor EXCEPT ![s] = g] /\ sftpMu' = [sftpMu EXCEPT ![c] = s]
        BY <1>3 DEF TomarCanal, pasar
    <2>2. g \in Gestor /\ g.paso = "abriendo" /\ g.con = c
        BY <1>1 DEF Gestor, Pasos
    <2> HIDE DEF g
    <2>3. ArchivosTypeOK'
        BY <1>1, <2>1, <2>2 DEF TomarCanal, IInvArchivos, ArchivosTypeOK, remoto
    <2>4. \A r \in Gestores : gestor'[r] = IF r = s THEN g ELSE gestor[r]
        BY <2>1 DEF IInvArchivos, ArchivosTypeOK
    <2>5. sftpMu[c] = Nadie /\ s # Nadie /\ canal[c] = "nulo"
        BY <1>1, <1>3, NadieAssumption DEF TomarCanal, IInvArchivos, ArchivosTypeOK
    <2>6. \A r \in Gestores : gestor[r].paso = "abriendo" => gestor[r].con # c
        BY <2>5, NadieAssumption DEF IInvArchivos, InvCanal
    <2>7. InvCanal'
        BY <1>1, <2>1, <2>2, <2>4, <2>5, <2>6
        DEF TomarCanal, IInvArchivos, ArchivosTypeOK, InvCanal, InvCon
    <2>. QED
        BY <1>1, <2>2, <2>3, <2>4, <2>7 DEF TomarCanal, IInvArchivos,
           ArchivosTypeOK, InvCon, InvDocumento, InvNuevo, SinTemporales, remoto
<1>. QED
    BY <1>2, <1>3

\* The answer of the server and the failure on a closed client: the lock is
\* released by its holder, the only one at work on the channel.
LEMMA PasoAbrir ==
    ASSUME IInvArchivos, NEW s \in Gestores, Responder(s) \/ AbrirFalla(s)
    PROVE  IInvArchivos'
<1> DEFINE c == gestor[s].con
<1>1. gestor[s] \in Gestor /\ gestor[s].paso = "abriendo" /\ c \in Con
      /\ cliente[c] # "nulo"
    BY DEF Responder, AbrirFalla, IInvArchivos, ArchivosTypeOK, InvCon
<1>2. PICK g \in Gestor :
          /\ gestor' = [gestor EXCEPT ![s] = g]
          /\ g.paso = "libre" \/ (g.paso = "usa" /\ g.con = c)
    <2> DEFINE g == [gestor[s] EXCEPT !.paso = "usa"]
    <2>1. g \in Gestor /\ g.paso = "usa" /\ g.con = c
        BY <1>1 DEF Gestor, Pasos
    <2>2. terminado(gestor[s]) \in Gestor /\ terminado(gestor[s]).paso = "libre"
        BY <1>1, TiposGestor
    <2>3. \/ gestor' = [gestor EXCEPT ![s] = g]
          \/ gestor' = [gestor EXCEPT ![s] = terminado(gestor[s])]
        BY DEF Responder, AbrirFalla, pasar, responder
    <2> HIDE DEF g
    <2>. QED
        BY <2>1, <2>2, <2>3
<1>3. /\ canal' = canal \/ canal' = [canal EXCEPT ![c] = "abierto"]
      /\ sftpMu' = [sftpMu EXCEPT ![c] = Nadie]
      /\ UNCHANGED <<mu, registrada, cliente, hilo, remoto>>
    BY DEF Responder, AbrirFalla
<1>4. ArchivosTypeOK'
    BY <1>1, <1>2, <1>3 DEF IInvArchivos, ArchivosTypeOK, remoto
<1>5. \A r \in Gestores : gestor'[r] = IF r = s THEN g ELSE gestor[r]
    BY <1>2 DEF IInvArchivos, ArchivosTypeOK
<1>6. \A r \in Gestores :
         r # s /\ gestor[r].paso = "abriendo" => gestor[r].con # c
    BY <1>1 DEF IInvArchivos, InvCanal
<1>7. InvCanal'
    BY <1>1, <1>2, <1>3, <1>5, <1>6 DEF IInvArchivos, ArchivosTypeOK, InvCanal,
       InvCon
<1>. QED
    BY <1>1, <1>2, <1>3, <1>4, <1>5, <1>7
    DEF IInvArchivos, InvCon, InvDocumento, InvNuevo, SinTemporales, remoto

LEMMA PasoComprobar ==
    ASSUME IInvArchivos, NEW s \in Gestores, Comprobar(s)
    PROVE  IInvArchivos'
<1>1. gestor[s] \in Gestor /\ gestor[s].paso = "usa" /\ gestor[s].nuevo # Nadie
      /\ gestor[s].con \in Con /\ cliente[gestor[s].con] # "nulo"
    BY DEF Comprobar, IInvArchivos, ArchivosTypeOK, InvCon
<1>2. CASE /\ gestor' = [gestor EXCEPT ![s] = terminado(gestor[s])]
           /\ UNCHANGED temporales
    BY <1>1, <1>2, TiposGestor, PasoGestor DEF Comprobar, remoto
<1>3. CASE /\ documento = gestor[s].revision
           /\ gestor' = [gestor EXCEPT ![s].paso = "escribe"]
           /\ temporales' = temporales \cup {<<s, gestor[s].con>>}
    <2> DEFINE g == [gestor[s] EXCEPT !.paso = "escribe"]
    <2>1. /\ g \in Gestor /\ g.paso = "escribe" /\ g.con = gestor[s].con
          /\ g.nuevo # Nadie /\ g.revision = documento
        BY <1>1, <1>3 DEF Gestor, Pasos
    <2>2. gestor' = [gestor EXCEPT ![s] = g]
        BY <1>3
    <2> HIDE DEF g
    <2>3. ArchivosTypeOK'
        BY <1>1, <1>3, <2>1, <2>2 DEF Comprobar, IInvArchivos, ArchivosTypeOK, locks
    <2>4. \A r \in Gestores : gestor'[r] = IF r = s THEN g ELSE gestor[r]
        BY <2>2 DEF IInvArchivos, ArchivosTypeOK
    <2>5. SinTemporales'
        BY <1>1, <1>3, <2>1, <2>4 DEF Comprobar, IInvArchivos, SinTemporales
    <2>. QED
        BY <1>1, <1>3, <2>1, <2>3, <2>4, <2>5 DEF Comprobar, IInvArchivos, InvCon,
           InvCanal, InvDocumento, InvNuevo, locks
<1>. QED
    BY <1>2, <1>3 DEF Comprobar, responder, pasar, temporal

\* Whoever is overtaken keeps everything but its illusion.
LEMMA Adelantados ==
    ASSUME ArchivosTypeOK, NEW s
    PROVE  /\ adelantar(s) \in [Gestores -> Gestor]
           /\ \A r \in Gestores :
                 /\ adelantar(s)[r].paso = gestor[r].paso
                 /\ adelantar(s)[r].con = gestor[r].con
                 /\ adelantar(s)[r].nuevo = gestor[r].nuevo
                 /\ adelantar(s)[r].revision = gestor[r].revision
                 /\ r # s /\ gestor[r].paso = "escribe"
                       => adelantar(s)[r].ajeno
<1> SUFFICES ASSUME NEW r \in Gestores
             PROVE  /\ adelantar(s)[r] \in Gestor
                    /\ adelantar(s)[r].paso = gestor[r].paso
                    /\ adelantar(s)[r].con = gestor[r].con
                    /\ adelantar(s)[r].nuevo = gestor[r].nuevo
                    /\ adelantar(s)[r].revision = gestor[r].revision
                    /\ r # s /\ gestor[r].paso = "escribe"
                          => adelantar(s)[r].ajeno
    BY DEF adelantar
<1>1. gestor[r] \in Gestor
    BY DEF ArchivosTypeOK
<1>. QED
    BY <1>1 DEF adelantar, Gestor

LEMMA PasoRenombrarTemporal ==
    ASSUME IInvArchivos, NEW s \in Gestores, RenombrarTemporal(s)
    PROVE  IInvArchivos'
<1> DEFINE g == [terminado(gestor[s]) EXCEPT !.revision = gestor[s].nuevo]
<1>1. gestor[s] \in Gestor /\ gestor[s].nuevo \in Textos
    BY DEF RenombrarTemporal, IInvArchivos, ArchivosTypeOK, InvNuevo, Gestor
<1>2. g \in Gestor /\ g.paso = "libre"
    BY <1>1, TiposGestor
<1>3. gestor' = [adelantar(s) EXCEPT ![s] = g]
    <2>1. adelantar(s)[s] = gestor[s]
        BY DEF adelantar
    <2>2. gestor' = [adelantar(s) EXCEPT ![s] =
              [terminado(adelantar(s)[s]) EXCEPT !.revision = gestor[s].nuevo]]
        BY DEF RenombrarTemporal
    <2>. QED
        BY <2>1, <2>2
<1> HIDE DEF g
<1>4. /\ adelantar(s) \in [Gestores -> Gestor]
      /\ \A r \in Gestores :
            /\ adelantar(s)[r].paso = gestor[r].paso
            /\ adelantar(s)[r].con = gestor[r].con
            /\ adelantar(s)[r].nuevo = gestor[r].nuevo
            /\ r # s /\ gestor[r].paso = "escribe" => adelantar(s)[r].ajeno
    BY Adelantados DEF IInvArchivos
<1>5. ArchivosTypeOK'
    BY <1>1, <1>2, <1>3, <1>4 DEF RenombrarTemporal, IInvArchivos, ArchivosTypeOK,
       locks
<1>6. \A r \in Gestores : gestor'[r] = IF r = s THEN g ELSE adelantar(s)[r]
    BY <1>3, <1>4
<1>7. \A r \in Gestores :
         /\ r # s => /\ gestor'[r].paso = gestor[r].paso
                     /\ gestor'[r].con = gestor[r].con
                     /\ gestor'[r].nuevo = gestor[r].nuevo
                     /\ gestor[r].paso = "escribe" => gestor'[r].ajeno
         /\ r = s => gestor'[r].paso = "libre"
    BY <1>2, <1>4, <1>6
<1> HIDE DEF g
<1>8. (InvCon /\ InvCanal /\ InvNuevo)'
    BY <1>7 DEF RenombrarTemporal, IInvArchivos, InvCon, InvCanal, InvNuevo, locks
<1>9. (InvDocumento /\ SinTemporales)'
    BY <1>7 DEF RenombrarTemporal, IInvArchivos, ArchivosTypeOK, InvDocumento,
       SinTemporales, temporal, locks
<1>. QED
    BY <1>5, <1>8, <1>9 DEF IInvArchivos

LEMMA PasoEscribirFalla ==
    ASSUME IInvArchivos, NEW s \in Gestores, EscribirFalla(s)
    PROVE  IInvArchivos'
<1> DEFINE g == terminado(gestor[s])
<1>1. gestor[s] \in Gestor /\ gestor[s].con \in Con
      /\ cliente[gestor[s].con] \in {"vivo", "cerrado"}
    BY DEF EscribirFalla, IInvArchivos, ArchivosTypeOK, InvCon
<1>2. g \in Gestor /\ g.paso = "libre" /\ gestor' = [gestor EXCEPT ![s] = g]
    BY <1>1, TiposGestor DEF EscribirFalla, responder
<1> HIDE DEF g
<1>3. ArchivosTypeOK'
    BY <1>2 DEF EscribirFalla, IInvArchivos, ArchivosTypeOK, locks
<1>4. \A r \in Gestores : gestor'[r] = IF r = s THEN g ELSE gestor[r]
    BY <1>2 DEF IInvArchivos, ArchivosTypeOK
<1>. QED
    BY <1>1, <1>2, <1>3, <1>4 DEF EscribirFalla, vivo, temporal, IInvArchivos, ArchivosTypeOK,
       InvCon, InvCanal, InvDocumento, InvNuevo, SinTemporales, locks

LEMMA PasoEscribirOtro ==
    ASSUME IInvArchivos, NEW x \in Textos, EscribirOtro(x)
    PROVE  IInvArchivos'
<1>1. Nadie \notin Gestores
    BY NadieAssumption
<1>2. ArchivosTypeOK'
    BY Adelantados DEF EscribirOtro, IInvArchivos, ArchivosTypeOK, locks
<1>. QED
    BY <1>1, <1>2, Adelantados DEF EscribirOtro, IInvArchivos, ArchivosTypeOK,
       InvCon, InvCanal, InvDocumento, InvNuevo, SinTemporales, locks

LEMMA ArchivosInductivo == IInvArchivos /\ [ArchivosNext]_archivosVars => IInvArchivos'
<1> SUFFICES ASSUME IInvArchivos, [ArchivosNext]_archivosVars PROVE IInvArchivos'
    OBVIOUS
<1>1. CASE UNCHANGED archivosVars
    BY <1>1 DEF archivosVars, locks, remoto, IInvArchivos, ArchivosTypeOK, InvCon,
       InvCanal, InvDocumento, InvNuevo, SinTemporales
<1>2. CASE ArchivosNext
    BY <1>2, PasoConectar, PasoLlamar, PasoCerrar, PasoPedir, PasoBuscar,
       PasoTomarCanal, PasoAbrir, PasoLeer, PasoComprobar, PasoRenombrarTemporal,
       PasoEscribirFalla, PasoEscribirOtro DEF ArchivosNext
<1>. QED
    BY <1>1, <1>2

-----------------------------------------------------------------------------
(* The results about the file manager.                                     *)

\* The inductive invariant holds of every reachable state.
THEOREM ArchivosInvariante == ArchivosSpec => []IInvArchivos
BY ArchivosIniciales, ArchivosInductivo, PTL DEF ArchivosSpec

\* Every variable keeps its type.
THEOREM ArchivosTipoCorrecto == ArchivosSpec => []ArchivosTypeOK
<1>1. IInvArchivos => ArchivosTypeOK
    BY DEF IInvArchivos
<1>. QED
    BY <1>1, ArchivosInvariante, PTL

\* sftpMu does what clienteSFTP takes it for: however many windows ask, one
\* channel at most is being opened on a connection, and none while it has one.
THEOREM CanalUnico == ArchivosSpec => []UnSoloCanal
<1>1. IInvArchivos => UnSoloCanal
    <2> SUFFICES ASSUME IInvArchivos, NEW c \in Con
                 PROVE  LET abriendo == {s \in Gestores :
                                           /\ gestor[s].paso = "abriendo"
                                           /\ gestor[s].con = c}
                        IN  /\ Cardinality(abriendo) <= 1
                            /\ canal[c] = "abierto" => abriendo = {}
        BY DEF UnSoloCanal
    <2> DEFINE abriendo == {s \in Gestores : /\ gestor[s].paso = "abriendo"
                                             /\ gestor[s].con = c}
    <2>1. \A s \in abriendo : sftpMu[c] = s /\ canal[c] = "nulo"
        BY DEF IInvArchivos, InvCanal
    <2>2. abriendo = {} \/ abriendo = {sftpMu[c]}
        BY <2>1
    <2>3. Cardinality(abriendo) <= 1
        <3> HIDE DEF abriendo
        <3>1. CASE abriendo = {}
            BY <3>1, FS_EmptySet
        <3>2. CASE abriendo = {sftpMu[c]}
            BY <3>2, FS_Singleton
        <3>. QED
            BY <2>2, <3>1, <3>2
    <2>. QED
        BY <2>1, <2>3
<1>. QED
    BY <1>1, ArchivosInvariante, PTL

\* A temporary file on the server is that of a save still under way, or of one
\* whose own connection was closed: a save that fails leaves none otherwise.
THEOREM TemporalesLimpios == ArchivosSpec => []SinTemporales
<1>1. IInvArchivos => SinTemporales
    BY DEF IInvArchivos
<1>. QED
    BY <1>1, ArchivosInvariante, PTL

\* A save that nobody overtook replaces what its window had read.
THEOREM GuardaLoLeido == ArchivosSpec => SoloLoLeido
<1>1. IInvArchivos /\ [ArchivosNext]_archivosVars =>
        [\A s \in Gestores : RenombrarTemporal(s) /\ ~gestor[s].ajeno
              => documento = gestor[s].revision]_archivosVars
    BY DEF IInvArchivos, InvDocumento, RenombrarTemporal
<1>. QED
    BY <1>1, ArchivosInvariante, PTL DEF ArchivosSpec, SoloLoLeido

=============================================================================
