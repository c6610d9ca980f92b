---------------------------- MODULE Actualizador ----------------------------
(***************************************************************************)
(* The updater of Windows (conectar-gateway/actualizador.go): a handler    *)
(* downloads a release, copies the running program to gateway-updater.exe  *)
(* and starts it; that helper renames the program away, copies the release *)
(* in its place and starts it, while the old program goes on for 900 ms.   *)
(*                                                                         *)
(* Windows renames the file of a running program but neither removes nor   *)
(* replaces it, and does none of the three to a file that is being         *)
(* written.  Any operation may fail besides: an antivirus, a full disk.    *)
(***************************************************************************)
EXTENDS Naturals, FiniteSets, FiniteSetsExt

CONSTANTS
    Versiones,     \* releases, numbered as compararVersiones orders them
    Aplicaciones,  \* processes of the program
    Ayudantes,     \* processes of gateway-updater.exe
    Peticiones,    \* handlers of "instalar"
    Portable,      \* the data live beside the program, where processes start
    Reintentos,    \* attempts to rename the program (120)
    Cambio         \* the attempt that gives up the name ".old" (20)

ASSUME VersionesAssumption == IsFiniteSet(Versiones) /\ Versiones # {} /\ Versiones \subseteq Nat \ {0}
ASSUME PortableAssumption == Portable \in BOOLEAN
ASSUME ReintentosAssumption == Reintentos \in Nat /\ Cambio \in 0 .. Reintentos - 1

VARIABLES
    publicada,   \* the latest release
    exe,         \* the content of the program's file
    respaldo,    \* that of its copies ".old" and ".old-<time>"
    nuevo,       \* that of updates/TunnelForge-<version>.exe
    updater,     \* that of updates/gateway-updater.exe
    registro,    \* ultimo-intento.json of the data and of the start directory
    app,         \* processes of the program
    ayudante,    \* helpers
    peticion,    \* handlers
    fallo,       \* history: how the last attempt failed, until its version runs
    solapados,   \* history: the user opened the program while a helper ran, or two
                 \* handlers had a helper ready or running at once
    sinVuelta    \* history: a helper was killed, or could not put the program back

vars == <<publicada, exe, respaldo, nuevo, updater, registro, app, ayudante,
          peticion, fallo, solapados, sinVuelta>>

\* A file is missing, holds a whole version, or part of one.
Falta == 0
Roto == Max(Versiones) + 1
Contenido == Versiones \cup {Falta, Roto}
Respaldos == {"old", "unico"}

Fallos == {"iniciar-updater", "renombrar-exe-actual", "escribir-exe-nuevo",
           "lanzar-exe-nuevo"}
SinRegistro == [v |-> 0, paso |-> ""]
Registro == {SinRegistro} \cup
            [v : Versiones, paso : Fallos \cup {"updater-lanzado", "listo"}]

\* imagen is the path its file has now, limpiar the copies it will remove.
NoApp == [viva |-> FALSE, v |-> 0, imagen |-> "exe", limpiar |-> {}]
App == [viva : BOOLEAN, v : Versiones \cup {0}, imagen : Respaldos \cup {"exe"},
        limpiar : SUBSET Respaldos]
NoAyudante == [paso |-> "fin", v |-> 0, i |-> 0, backup |-> "old"]
Ayudante == [paso : {"fin", "renombrar", "copiar", "copiando", "lanzar", "listo"},
             v : Versiones \cup {0}, i : 0 .. Reintentos - 1, backup : Respaldos]
Libre == [paso |-> "libre", v |-> 0, app |-> {}]
Peticion == [paso : {"libre", "descargado", "escrito", "copiado"},
             v : Versiones \cup {0}, app : SUBSET Aplicaciones]

vivas == {a \in Aplicaciones : app[a].viva}
trabajando == {h \in Ayudantes : ayudante[h].paso # "fin"}
enMarcha(ruta) == \E a \in vivas : app[a].imagen = ruta
escribiendo == \E h \in Ayudantes : ayudante[h].paso = "copiando"

\* rutaIntentoUpdate: the helper, and the program when it starts, run before
\* baseDir has a value, so they mean the directory they were started in.
deArranque == IF Portable THEN "datos" ELSE "arranque"

Init ==
    /\ publicada = Min(Versiones)
    /\ exe \in Versiones
    /\ respaldo = [b \in Respaldos |-> Falta]
    /\ nuevo = [v \in Versiones |-> Falta]
    /\ updater = Falta
    /\ registro = [d \in {"datos", "arranque"} |-> SinRegistro]
    /\ app = [a \in Aplicaciones |-> NoApp]
    /\ ayudante = [h \in Ayudantes |-> NoAyudante]
    /\ peticion = [q \in Peticiones |-> Libre]
    /\ fallo = SinRegistro
    /\ solapados = FALSE
    /\ sinVuelta = FALSE

\* registrarIntentoUpdate; a write that fails leaves an empty file.
registrar(donde, v, paso) ==
    \/ /\ registro' = [registro EXCEPT ![donde] = [v |-> v, paso |-> paso]]
       /\ fallo' = IF paso \in Fallos THEN [v |-> v, paso |-> paso] ELSE SinRegistro
    \/ /\ registro' = [registro EXCEPT ![donde] = SinRegistro]
       /\ fallo' = SinRegistro

-----------------------------------------------------------------------------
(* The program.                                                            *)

\* Mutant: the record goes at any start.
olvidarSiempre(v) ==
    /\ registro' = [registro EXCEPT ![deArranque] = SinRegistro]
    /\ fallo' = IF v >= fallo.v THEN SinRegistro ELSE fallo

\* limpiarBackupActualizacion, at the start: the record of an attempt that
\* succeeded, or that got this version in, goes; so do the copies, 4 s later.
arrancada(v, r) == [viva |-> TRUE, v |-> v, imagen |-> "exe",
                    limpiar |-> {b \in Respaldos : r[b] # Falta}]
olvidar(v) ==
    LET r == registro[deArranque] IN
    /\ registro' = IF r.paso = "listo" \/ v >= r.v
                   THEN [registro EXCEPT ![deArranque] = SinRegistro]
                   ELSE registro
    /\ fallo' = IF v >= fallo.v THEN SinRegistro ELSE fallo

Abrir(a) ==
    /\ ~app[a].viva
    /\ exe \in Versiones /\ ~escribiendo
    /\ app' = [app EXCEPT ![a] = arrancada(exe, respaldo)]
    /\ olvidar(exe)
    /\ solapados' = (solapados \/ trabajando # {})
    /\ UNCHANGED <<publicada, exe, respaldo, nuevo, updater, ayudante, peticion,
                   sinVuelta>>

LimpiarBackup(a) ==
    /\ app[a].viva
    /\ app[a].limpiar # {}
    /\ app' = [app EXCEPT ![a].limpiar = {}]
    /\ \E quedan \in SUBSET app[a].limpiar :
          /\ \A b \in app[a].limpiar : enMarcha(b) => b \in quedan
          /\ respaldo' = [b \in Respaldos |->
                            IF b \in app[a].limpiar \ quedan THEN Falta ELSE respaldo[b]]
    /\ UNCHANGED <<publicada, exe, nuevo, updater, registro, ayudante, peticion,
                   fallo, solapados, sinVuelta>>

\* The user closes it, it crashes, or 900 ms passed since it started a helper.
Salir(a) ==
    /\ app[a].viva
    /\ app' = [app EXCEPT ![a] = NoApp]
    /\ peticion' = [q \in Peticiones |->
                      IF a \in peticion[q].app THEN Libre ELSE peticion[q]]
    /\ UNCHANGED <<publicada, exe, respaldo, nuevo, updater, registro, ayudante,
                   fallo, solapados, sinVuelta>>

-----------------------------------------------------------------------------
(* prepararEInstalarActualizacion.                                         *)

\* The release is newer than the program, and its files are what the signed
\* manifest says.
Descargar(q, a) ==
    /\ peticion[q].paso = "libre"
    /\ app[a].viva
    /\ publicada > app[a].v
    /\ peticion' = [peticion EXCEPT ![q] = [paso |-> "descargado", v |-> publicada,
                                            app |-> {a}]]
    /\ UNCHANGED <<publicada, exe, respaldo, nuevo, updater, registro, app, ayudante,
                   fallo, solapados, sinVuelta>>

EscribirNuevo(q) ==
    LET p == peticion[q] IN
    /\ p.paso = "descargado"
    /\ \/ /\ nuevo' = [nuevo EXCEPT ![p.v] = p.v]
          /\ peticion' = [peticion EXCEPT ![q].paso = "escrito"]
       \/ /\ nuevo' = [nuevo EXCEPT ![p.v] = Roto]
          /\ peticion' = [peticion EXCEPT ![q] = Libre]
    /\ UNCHANGED <<publicada, exe, respaldo, updater, registro, app, ayudante,
                   fallo, solapados, sinVuelta>>

\* The file under the name of the program, whatever it is by now; a helper
\* that runs keeps the destination.
CopiarUpdater(q) ==
    /\ peticion[q].paso = "escrito"
    /\ \/ /\ exe # Falta /\ trabajando = {}
          /\ \/ /\ updater' = exe
                /\ peticion' = [peticion EXCEPT ![q].paso = "copiado"]
             \/ /\ updater' = Roto
                /\ peticion' = [peticion EXCEPT ![q] = Libre]
       \/ /\ peticion' = [peticion EXCEPT ![q] = Libre]
          /\ UNCHANGED updater
    /\ UNCHANGED <<publicada, exe, respaldo, nuevo, registro, app, ayudante,
                   fallo, solapados, sinVuelta>>

LanzarUpdater(q, h) ==
    LET p == peticion[q] IN
    /\ p.paso = "copiado"
    /\ updater \in Versiones
    /\ ayudante[h] = NoAyudante
    /\ registrar("datos", p.v, "updater-lanzado")
    /\ ayudante' = [ayudante EXCEPT ![h] = [NoAyudante EXCEPT !.paso = "renombrar", !.v = p.v]]
    /\ solapados' = (solapados \/ trabajando # {}
                      \/ \E x \in Peticiones \ {q} : peticion[x].paso = "copiado")
    /\ peticion' = [peticion EXCEPT ![q] = Libre]
    /\ UNCHANGED <<publicada, exe, respaldo, nuevo, updater, app, sinVuelta>>

LanzarUpdaterFalla(q) ==
    LET p == peticion[q] IN
    /\ p.paso = "copiado"
    /\ registrar("datos", p.v, "iniciar-updater")
    /\ peticion' = [peticion EXCEPT ![q] = Libre]
    /\ UNCHANGED <<publicada, exe, respaldo, nuevo, updater, app, ayudante,
                   solapados, sinVuelta>>

-----------------------------------------------------------------------------
(* manejarModoActualizador: the helper.                                    *)

\* The processes that run from one path run from the other.
movidas(de, a) == [x \in Aplicaciones |->
    IF app[x].viva /\ app[x].imagen = de THEN [app[x] EXCEPT !.imagen = a] ELSE app[x]]

terminar(h) == ayudante' = [ayudante EXCEPT ![h] = NoAyudante]

Renombrar(h) ==
    LET p == ayudante[h] IN
    /\ p.paso = "renombrar"
    /\ exe # Falta /\ ~escribiendo
    /\ ~enMarcha(p.backup)
    /\ respaldo' = [respaldo EXCEPT ![p.backup] = exe]
    /\ exe' = Falta
    /\ app' = movidas("exe", p.backup)
    /\ ayudante' = [ayudante EXCEPT ![h].paso = "copiar"]
    /\ UNCHANGED <<publicada, nuevo, updater, registro, peticion, fallo, solapados,
                   sinVuelta>>

\* Mutant: one attempt more than the counter allows.
RenombrarFallaDeMas(h) ==
    LET p == ayudante[h] IN
    /\ p.paso = "renombrar"
    /\ IF p.i < Reintentos
       THEN ayudante' = [ayudante EXCEPT ![h].i = @ + 1] /\ UNCHANGED <<registro, fallo>>
       ELSE terminar(h) /\ registrar(deArranque, p.v, "renombrar-exe-actual")
    /\ UNCHANGED <<publicada, exe, respaldo, nuevo, updater, app, peticion, solapados,
                   sinVuelta>>

\* It tries again, under another name from Cambio on, and removes what is there.
RenombrarFalla(h) ==
    LET p == ayudante[h]
        b == IF p.i = Cambio THEN "unico" ELSE p.backup IN
    /\ p.paso = "renombrar"
    /\ \/ UNCHANGED respaldo
       \/ ~enMarcha(b) /\ respaldo' = [respaldo EXCEPT ![b] = Falta]
    /\ IF p.i + 1 < Reintentos
       THEN /\ ayudante' = [ayudante EXCEPT ![h].i = @ + 1, ![h].backup = b]
            /\ UNCHANGED <<registro, fallo>>
       ELSE /\ terminar(h)
            /\ registrar(deArranque, p.v, "renombrar-exe-actual")
    /\ UNCHANGED <<publicada, exe, nuevo, updater, app, peticion, solapados, sinVuelta>>

Copiar(h) ==
    LET p == ayudante[h] IN
    /\ p.paso = "copiar"
    /\ nuevo[p.v] # Falta
    /\ ~escribiendo /\ ~enMarcha("exe")
    /\ exe' = Roto
    /\ ayudante' = [ayudante EXCEPT ![h].paso = "copiando"]
    /\ UNCHANGED <<publicada, respaldo, nuevo, updater, registro, app, peticion,
                   fallo, solapados, sinVuelta>>

\* All that the new file has by then is copied.
CopiarFin(h) ==
    LET p == ayudante[h] IN
    /\ p.paso = "copiando"
    /\ exe' = IF nuevo[p.v] = Falta THEN Roto ELSE nuevo[p.v]
    /\ ayudante' = [ayudante EXCEPT ![h].paso = "lanzar"]
    /\ UNCHANGED <<publicada, respaldo, nuevo, updater, registro, app, peticion,
                   fallo, solapados, sinVuelta>>

\* Mutant: the program is not put back.
CopiarFallaSinVolver(h) ==
    /\ ayudante[h].paso \in {"copiar", "copiando"}
    /\ registrar(deArranque, ayudante[h].v, "escribir-exe-nuevo")
    /\ terminar(h)
    /\ UNCHANGED <<publicada, exe, respaldo, nuevo, updater, app, peticion,
                   solapados, sinVuelta>>

\* The program is put back, over what the copy left.
CopiarFalla(h) ==
    LET p == ayudante[h] IN
    /\ p.paso \in {"copiar", "copiando"}
    /\ registrar(deArranque, p.v, "escribir-exe-nuevo")
    /\ terminar(h)
    /\ \/ /\ respaldo[p.backup] # Falta /\ ~enMarcha("exe")
          /\ p.paso = "copiando" \/ ~escribiendo
          /\ exe' = respaldo[p.backup]
          /\ respaldo' = [respaldo EXCEPT ![p.backup] = Falta]
          /\ app' = movidas(p.backup, "exe")
          /\ UNCHANGED sinVuelta
       \/ /\ sinVuelta' = TRUE
          /\ UNCHANGED <<exe, respaldo, app>>
    /\ UNCHANGED <<publicada, nuevo, updater, peticion, solapados>>

Lanzar(h, a) ==
    LET p == ayudante[h] IN
    /\ p.paso = "lanzar"
    /\ exe \in Versiones /\ ~escribiendo
    /\ ~app[a].viva
    /\ app' = [app EXCEPT ![a] = arrancada(exe, respaldo)]
    /\ olvidar(exe)
    /\ ayudante' = [ayudante EXCEPT ![h].paso = "listo"]
    /\ UNCHANGED <<publicada, exe, respaldo, nuevo, updater, peticion, solapados,
                   sinVuelta>>

Listo(h) ==
    LET p == ayudante[h] IN
    /\ p.paso = "listo"
    /\ nuevo' \in {nuevo, [nuevo EXCEPT ![p.v] = Falta]}
    /\ registrar(deArranque, p.v, "listo")
    /\ terminar(h)
    /\ UNCHANGED <<publicada, exe, respaldo, updater, app, peticion, solapados, sinVuelta>>

\* The new one does not start: it is removed, and the old one is put back and
\* started, each of which may fail.
LanzarFalla(h) ==
    LET p == ayudante[h]
        b == p.backup
        abiertas(apps) == {apps} \cup
            {[apps EXCEPT ![a] = arrancada(exe', respaldo')] : a \in Aplicaciones \ vivas}
        arrancar(apps) == IF exe' \in Versiones THEN abiertas(apps) ELSE {apps} IN
    /\ p.paso = "lanzar"
    /\ terminar(h)
    /\ \/ /\ respaldo[b] # Falta /\ ~enMarcha("exe") /\ ~escribiendo
          /\ exe' = respaldo[b]
          /\ respaldo' = [respaldo EXCEPT ![b] = Falta]
          /\ app' \in arrancar(movidas(b, "exe"))
          /\ UNCHANGED sinVuelta
       \/ /\ exe' \in {exe} \cup (IF enMarcha("exe") \/ escribiendo THEN {} ELSE {Falta})
          /\ UNCHANGED respaldo
          /\ app' \in arrancar(app)
          /\ sinVuelta' = TRUE
    /\ registrar(deArranque, p.v, "lanzar-exe-nuevo")
    /\ UNCHANGED <<publicada, nuevo, updater, peticion, solapados>>

-----------------------------------------------------------------------------
(* The rest of the world.                                                  *)

\* The helper is killed, or the computer goes off.
Matar(h) ==
    /\ h \in trabajando
    /\ terminar(h)
    /\ sinVuelta' = TRUE
    /\ fallo' = SinRegistro
    /\ UNCHANGED <<publicada, exe, respaldo, nuevo, updater, registro, app, peticion,
                   solapados>>

Publicar(v) ==
    /\ v > publicada
    /\ publicada' = v
    /\ UNCHANGED <<exe, respaldo, nuevo, updater, registro, app, ayudante, peticion,
                   fallo, solapados, sinVuelta>>

-----------------------------------------------------------------------------
Next ==
    \/ \E a \in Aplicaciones : Abrir(a) \/ LimpiarBackup(a) \/ Salir(a)
    \/ \E q \in Peticiones :
          \/ \E a \in Aplicaciones : Descargar(q, a)
          \/ EscribirNuevo(q) \/ CopiarUpdater(q) \/ LanzarUpdaterFalla(q)
          \/ \E h \in Ayudantes : LanzarUpdater(q, h)
    \/ \E h \in Ayudantes :
          \/ Renombrar(h) \/ RenombrarFalla(h)
          \/ Copiar(h) \/ CopiarFin(h) \/ CopiarFalla(h)
          \/ \E a \in Aplicaciones : Lanzar(h, a)
          \/ Listo(h) \/ LanzarFalla(h) \/ Matar(h)
    \/ \E v \in Versiones : Publicar(v)

Spec == Init /\ [][Next]_vars

-----------------------------------------------------------------------------
\* Types; no program runs from a file that is not whole.
TypeOK ==
    /\ publicada \in Versiones
    /\ exe \in Contenido
    /\ respaldo \in [Respaldos -> Contenido]
    /\ nuevo \in [Versiones -> Contenido]
    /\ updater \in Contenido
    /\ registro \in [{"datos", "arranque"} -> Registro]
    /\ app \in [Aplicaciones -> App]
    /\ ayudante \in [Ayudantes -> Ayudante]
    /\ peticion \in [Peticiones -> Peticion]
    /\ fallo \in Registro
    /\ solapados \in BOOLEAN
    /\ sinVuelta \in BOOLEAN

\* Whatever fails and wherever the helper is killed, a whole program is left
\* under its name or in a copy; and it has its name again when the helper ends,
\* unless it was killed or could not put the program back.
HayEjecutable ==
    ~solapados =>
    /\ exe \in Versiones \/ \E b \in Respaldos : respaldo[b] \in Versiones
    /\ trabajando = {} /\ ~sinVuelta => exe \in Versiones

\* CHANGELOG.md:3-6: the version before, when it starts after an update that
\* failed, shows in the panel Updates the step that did.
panel(a) ==
    LET r == registro["datos"] IN
    IF r.paso # "listo" /\ app[a].v < r.v THEN r ELSE SinRegistro
fallida(v) == fallo # SinRegistro /\ trabajando = {} /\ v < fallo.v
PanelDelFallo ==
    [][\A a \in Aplicaciones :
          ~app[a].viva /\ app'[a].viva /\ fallida(app[a].v)' => panel(a)' = fallo']_vars
=============================================================================
