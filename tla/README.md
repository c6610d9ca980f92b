# TunnelForge in TLA+

TunnelForge (`src/conectar-gateway`) is a desktop program in Go that keeps SSH
connections to a few servers, serves their tunnels on `localhost`, and operates
the servers through them: files, SSH hardening, monitoring, WireGuard. Its
interface is a web page that talks to a local HTTP API. This directory holds
TLA+ models of the parts whose correctness depends on the order of things, the
TLC instances that check them, and the theorems TLAPS proves about them. The
definitions keep the names of the source; `PROJECT.json` gives the lines each
of them stands for.

    tlc -workers 2 -config Conexiones_seguridad.cfg MCConexiones
    tlapm ConexionesProofs.tla

## 1. The system

Each HTTP request is a goroutine. There is one global lock, `mu` (`main.go`), for
the registry of connections and everything a connection owns, and a few private
ones: `sftpMu` in each connection, the map of port changes, the LAN server, `wgMu`
for the profiles of WireGuard. The handlers that talk to a server do it without
`mu`, so a request is a series of steps with anything in between.

| component | state | operations | what is hard | modelled in |
|---|---|---|---|---|
| SSH connections and local ports (`main.go`) | `conexiones`, `conectando`, `servidorLocalhost`, listeners, SSH clients | connect, disconnect, choose who answers on localhost, poll, watch a client | the dial is unlocked; a watcher of an old connection wakes late; ports move between connections and other programs hold them | `Conexiones`, `PuertosLocales` |
| two-phase change of the SSH port (`ssh_keys.go`) | `cambiosPuertoSSH`, `sshd_config`, its backup, the firewall, a systemd timer, temporary keys, the profile | Probar, Aplicar, Cancelar, the timer | every remote command may fail; the link or the program may die between two; the timer races Aplicar; a mistake locks the user out | `PuertoSSH` |
| file manager and editor (`archivos.go`) | the lazy SFTP channel, its lock, the document, temporary files | open the channel, read, save, close the connection | two locks, one inside the other, one held while a server answers; saves of two windows | `Archivos` |
| profiles and host keys (`main.go`) | `conexiones.json`, the fingerprint of each profile | save, edit, delete, reorder, first-use trust | edits during a dial; rewriting the file in place | `Perfiles` |
| tunnels of a profile, settings (`main.go`) | part of the profile | validate and save | normalisation of names, ports, routes | not modelled |
| local secret (`main.go`) | `secreto.bin` | create, cipher, decipher | created without a lock | not modelled |
| keys of a profile (`claves.go`, `ssh_keys.go`) | `authorized_keys`, the files of `keys/`, the profile | create, install, test, save, roll back | partial failure at any step, two handlers on one file | `Perfiles` |
| hardening (`claves.go`) | `sshd_config`, its two backups | harden, accept passwords again, test from outside, roll back | a test that fails after the reload; the same file changed by the port change; a script that goes on when its handler is gone | `Servidor` |
| monitoring (`monitoring.go`) | `monitoring.enc`, tunnel units and `prometheus.yml` on the monitor | configure, prepare, apply a selection of targets | configuration read and written around minutes of remote work without a lock; any command fails, and some errors are ignored | `Monitorizacion` |
| WireGuard (`wireguard_client.go`) | `wireguard.json`, a file per tunnel, services or interfaces | save, import, connect, disconnect, delete, restore, connect at the start | profile deleted, edited or replaced under a tunnel; two requests on one; tunnels outlive the program | `WireGuard` |
| web interface on the LAN (`web_local.go`) | listener, code, sessions, attempts | start, stop, regenerate, log in and out | a login while the code changes or the server stops; the end of a server while the next one starts; counting wrong codes in two critical sections | `WebLocal` |
| updater (`actualizador.go`) | the program's file and its copies, the helper, the record of the attempt | install, replace, restore, clean up, show | two processes of the program and a helper on the same files; failures and deaths between renames | `Actualizador` |
| backup (`copia.go`) | the profiles, the files of `keys/` | export, import merging or replacing | an import under handlers at work | `Perfiles` (import) |
| history (`historial.go`) | bounded list | append | the bound | not modelled |
| firewall of the server (`firewall.go`) | `cambiosFirewall`; the rules of the server, now and after a reload | open and close a port: backup, change, check, make permanent, roll back | the protected port moves meanwhile; failures half-way; three firewalls that go back differently | `Servidor` |
| RouterOS (`routeros*.go`) | none | REST requests | nothing kept between requests | not modelled |
| terminal, remote tools, traffic, bridge | byte streams, counters | copy, add | I/O; nothing decides on them | not modelled |
| window, second instance, interface (`main.ts`) | presentation | | only a source of requests: it polls `/api/estado` every 3 s | not modelled |
| WireGuard service host (C) | | | wrapper of a library | not modelled |

What makes each of them correct, and where it could go wrong, is the list
`hazards` of `PROJECT.json`, each at its line with the properties that watch it.

How they interact: the registry is what the others start from (a file manager,
a terminal or a port change asks it for the client of a server, and keeps that
client after `mu` is released); closing a connection stops its SFTP channel,
under `mu`; the port change writes the profile that the next connection reads;
its timer and its Cancelar restore an `sshd_config` that hardening writes too.
Monitoring takes the address of a server from its profile when it makes the tunnel,
and never again. The updater ends the program, and with it every handler.

## 2. The modules

### Conexiones

`mu` is taken once per handler for everything that matters, so a critical
section is an action. `/api/conectar` is four: `Reservar` (name checked and put
in `conectando`), `MarcarOk` or `MarcarFalla` (the unlocked part of `conectar`, up
to the Conexion object), `Registrar` (back under `mu`), `Salir` (the deferred
delete). `Con` is the set of pointers: the watcher compares pointers, so a
connection is not its server. `client` states are `nulo` (no object), `vivo`, and
`caido` (the transport ended, whoever ended it).

`reasignarPuertos` is `reasignarPuertosLocked` whole: choose the destination,
compute `deseos` (an owner per wanted port), release the ports that change owner,
open what is wanted and free. Two things in it are a choice of the run time:
the oldest connection comes from a scan of a Go map, so a tie (same instant,
names that differ only in case) goes to any of the tied; and `net.Listen` fails
when another program (`ajenos`) holds the port. Every caller of it is an action:
registration, watcher, disconnection, selection, polling.

`PuertosLocales` is what the README of the program promises of
`localhost:port`, without handlers, watchers, clocks or listeners. `Conexiones`
implements it under the mapping `Promesa`, which the run `conexiones_vivacidad` checks
and `ConexionesProofs` proves.

Left out: the bytes, the accept loop of a listener, and MikroTik's other
features; a MikroTik connection is one without tunnels, which skips the reassignment.

### PuertoSSH

One server, whose `srv` is what a remote shell sees: the ports `sshd_config`
names (`cfg`), those sshd listens on (`activo`), those the firewall lets in, the
backup, the temporary keys and the timer of each test. A handler (`tarea`) goes
through the steps of the code; a remote command is one action, `orden`, which
does its work or fails, with every partial effect the script can have in
`fallos`. Commands whose errors the code ignores (the deferred ones, and the
cleaning at the end of Aplicar and Cancelar) are the `guion` of the handler: a
sequence, run one by one, so that the fall of the link or the timer can come
between any two. `copia` is the copy of the entry a handler works on after it
released the lock of the map, as in the code.

The environment: the link falls (`CaerEnlace`) and the handlers at work get no
new client; the program dies (`Morir`) and the map with it; a port is blocked
on the way (`Bloquear`); the timer fires (`GuardiaDispara`); the user connects
again through the port of the profile (`Conectar`).

Every ignored command may fail too (`ordenFalla`). A restoration fails at the copy, at
`sshd -t` or at the reload (`restaurarFalla`): sshd goes on as it was, with the file
whole, restored or cut (`cortes`: what `cat "$TMP" > "$CFG"` or `cp` leave on a full
disk). The list goes on all the same: Aplicar stops the timer and deletes the stage of
a server it did not restore. Only Cancelar looks at the error, and leaves both. Three
variables of history record what nobody is told: `perdidas`, the tests whose way back
was lost (such a restoration, or a backup made of a file without the port of the
profile), `olvidadas`, the keys whose removal failed, and `errores`, how many of these
failures there were. `PerfilAlcanzable`, `PerfilRecuperable` and `ClavesDeFlujo`
excuse exactly those; `PerfilRecuperable` says nothing either while a test waits that
never got a timer (`desatendida`), without systemd or because systemd-run failed:
Probar answers so (`rollbackGuard`), and only the user can go back.

Assumed: `ssh.socket`, where there is one, changes with `sshd_config`; the user does
not edit the profile during a change; a port is not blocked in the microseconds
between the final connection and the save; removing a key takes or leaves its line (a
full disk that cuts the rest of `authorized_keys` is in `Perfiles`).

### Servidor

`PuertoSSH` looks at one flow with its failures. `Servidor` looks at one server under
the three flows of the program that change who gets in: hardening (`tarea`), the
firewall (`corte`) and the change of port (`cambio`, in the large: its commands succeed,
its tests from outside may fail). What they share is `sshd`, the file of sshd (`cfg`),
what sshd runs with (`viva`) and the two backups of hardening; `fw`, the ports the
firewall lets in now (`viva`) and after a reload (`fija`); and the profile's port. The
firewall has a lock, the change of port another, hardening none.

| flow | code | steps |
|---|---|---|
| hardening | `manejarAsegurarSSH`, `manejarPermitirPasswordSSH` | `Asegurar` or `Permitir`; the script: `Respaldar`, `Escribir`, `Comprobar`, `Recargar`; from outside: `ProbarLlave`, `ProbarCerrada` or `ProbarAbierta`; `Deshacer` |
| firewall | `aplicarFirewall` | `Tomar`, `RespaldarFw`, `Cambiar`, `ComprobarSSH`, `Permanente` (firewalld), `Responder`; `Inverso`, `DeshacerFw` |
| port | the three handlers of `ssh_keys.go` | `ProbarAbrir`, `ProbarConfig`, `ProbarConexion`; `AplicarConfig`, `AplicarFinal`; `Cancelar`; `Restaurar`, `Limpiar` |

An exit of a script or an error of a command is a second disjunct of its action. The
script of hardening runs on the server, so it goes on when the link falls (`cli`),
and then nobody tests what it leaves. Of the contents of `sshd_config` only two
things count: the block the program put in it (`modo`) and its ports. A server
(`entorno`) is its firewall and the modes in which the key and the password get in,
which the program cannot know beforehand: that is why it tests.

`TodoONada` is the promise of `claves.go` and `firewall.go`: made whole and tested, or not
at all. It excuses handlers that another flow crossed (`cruzados`), for the backups are of
whole files: going back then takes the other's change away. `viejo` says that a
crossed change of the firewall went back or was made permanent.

Left out: UDP ports, MikroTik, a server without a firewall; a server of the WISP
installer, the only kind with nftables whose SSH port the program changes; a rule of
nftables that is not the program's; detection of the firewall, which only reads.

### Archivos

The same connections seen from the file manager, with the locks as variables.
`clienteSFTP` releases `mu` before it takes `sftpMu`, and keeps `sftpMu` while the
server answers `sftp.NewClient`; `detenerConexionLocked` takes `sftpMu` with `mu` held
and closes the client only afterwards. The editor compares the revision
(`Comprobar`), writes a temporary file and renames it (`RenombrarTemporal`), three
remote calls with anything in between. A document is its content: its revision is a
hash of it. The specification is `ArchivosSpec`, and so on: the names it would share
with `Actualizador` have a prefix, for `ReemplazosProofs` extends both.

### Perfiles

What the program keeps on disk, against handlers that work for seconds on a
copy of it. `perfiles` is `conexiones.json`, `disco` the private keys, `autorizadas`
and `gwtmp` the `authorized_keys` of each server and the file of fixed name it is
rewritten through. Each handler copies a profile under `mu`, talks to a server
with no lock, loads the store again, changes its profile and saves:

| `op` | handler | steps |
|---|---|---|
| `conectar` | `/api/conectar` until it registers | `Conectar`, `Marcar`, `GuardarHuella`, `Registrar` |
| `crear` | `manejarCrearInstalarKey` | `Crear`, `CrearMarcar`, then the shared steps |
| `crearKey` | `manejarToolCrearKey` | `CrearKey`, `Sesion`, then the shared steps |
| `usarKey` | `manejarToolUsarKey` | `UsarKey`, `Sesion`, then the shared steps |

The shared steps are `Instalar` (the line in `authorized_keys`), `Escribir` (the
file), `Probar` (a second connection), `Guardar`, and for the tools that fail the
rollback, `Filtrar` and `Mover`: the `grep` and the `mv` of one remote command, two
steps because other sessions write the same file. Where the handlers differ, an
operator says so by `op`: `manejarCrearInstalarKey` has no rollback, takes the server
of the request and creates the profile when there is none; the tools want a
verified fingerprint and a connection, and refuse when the profile is gone.

A key the program creates is the number of its request, which is also the
comment of its line; `Propia` is the key the user had. A fingerprint is the server
with the number of times it was installed. Paths are the kinds of names the
code makes: named after the profile (`Fija`), after the moment (`Fechada`), from a
backup (`Restaurada`), of the user (`Local`). A moment is a second of the clock
(`ssh_keys.go:169`), and two requests may have the same: a request names its file
after its own number or after that of any request before it (`destinos`), and both
are in `compartidas` from then on. Commands whose errors are ignored do what they do
on a full disk: `Instalar` answers that it added a line it did not, for the answer
comes from a `printf` after it, and `Filtrar` leaves a copy with any part of the
lines, which `Mover` installs (`recortados`), or no copy at all.

The user edits, deletes and imports at any moment (`Editar`, `Borrar`, `Importar`).
The world: links fall (`CaerSesion`, `CaerCliente`; a command that already runs on
the server goes on), disks fill, a server is installed again, the program dies, and the
rewriting in place of the store leaves it empty (`PerderAlmacen`, `Morir`). `pedido`,
`guardadas`, `sueltas`, `perturbados`, `recortados` and `compartidas` are history, only
read by the properties.

Assumed (`PaquetesAnterioresAssumption`): an imported backup is older than the keys
the program makes in the model, so it names no file of theirs. What it brings
are keys the user had.

Left out: saved passwords, tunnels and favourites of a profile (a validation
that fails is a choice), keys that the user deletes from the disk, and a backup made
after a key and imported later.

### WireGuard

The profiles (`perfiles`), the configuration file each tunnel was given (`fichero`)
and the tunnels of the system (`tunel`): a service that does not exist, is stopped or
runs on Windows, and may be deleted while it runs (`marcado`: `sc stop` failed, which
nobody looks at, and `sc delete` did not); an interface on Linux, which is never stopped. `sistema` is chosen
in `Init`. `wgMu` is held to load and save the profiles and released before anything
else, so a handler is a copy of its profile (`Leer`) and then steps:

| `op` | handler | steps |
|---|---|---|
| `conectar` | `manejarWGConnect`, each turn of `wireguardAutoConnect` | `Mirar`, `Escribir`, `Subir`; on Linux `Quick`; on Windows `Reemplazar`, `Crear`, `Arrancar`, `Esperar` |
| `desconectar` | `manejarWGDisconnect` | `MirarDesconectar`, `Bajar`, `Limpiar` |
| `eliminar` | `manejarWGDelete` | `MirarEliminar`, `Borrar` |

The goroutine of `wireguardAutoConnect` copies the profiles once (`AutoLeer`) and
connects them one after the other (`AutoSiguiente`), each with its copy from the
start; `arranque` is what is left of it. Between `Subir` and the steps of the service
there is a prompt for administrator permission, which may be refused and may last
minutes. What has the permission is another process (`Elevados`): it goes on when the
program dies (`viva`), only that nobody cleans up after it.

A preshared key is modelled by the public key of the peer it was given for, and the
hooks of a profile by a text and whether they are allowed. `Table`, `DNS` and the host
of an `Endpoint` are written as they are: `tabla` is the lines they add to the file
when they have a line break in them, which a form and a backup may have and a `.conf`
may not. The user saves a form
(`Guardar`), imports a `.conf` or a backup at any moment. The world: a tunnel falls,
a disk is full, the program dies, the computer restarts (on Windows the automatic
services come up with the file they find). `autorizados`, `cruzados` and `huerfanos`
are history: the lines the user saved as allowed, the profiles two handlers worked on
at once, the profiles that an import or a lost file took from under a tunnel;
`sinRevisar`, the lines that came in the free text of a backup, is history too.

Assumed: the engine is installed; no two profiles have the same interface name (ten
characters of a random identifier); a last look at a service and the command that
follows it are one step; identifiers are not used again, except by a backup. A
process with permission left by a dead program occupies the handler that started it.

Left out: generating keys, the status, revealing and exporting keys, routes,
and the installation of the engine.

### Monitorizacion

Three places that should agree, and nothing that locks them: `cfg` is the
configuration in `monitoring.enc`, `unidades` the port of each tunnel unit on the
monitor, `prometheus` what its `prometheus.yml` scrapes. A handler loads the
configuration and works on its copy (`peticion[q].cfg`), one remote command or one
save at a time:

| handler | steps |
|---|---|
| `manejarMonitoringConfig` | `ConfigLeer`, `ConfigGuardar` |
| `manejarMonitoringPreparar` | `PrepararLeer`, `PrepararConfigurar`, `PrepararGuardar` |
| `manejarMonitoringTargets` | `TargetsLeer`; `QuitarTunel` and `QuitarGuardar` for each name that goes; then for each that stays, in alphabetical order, the three loads of its profile (`PonerMirar`; `PonerLinux` or `PonerMikrotik`; `PonerDatos`), which may find three kinds, and `PonerExistente`, `PonerMonitor`, or `PonerPuerto`, `PonerTunel`, `PonerGuardar`, and `PonerRegenerar`; `Terminar` |

`Fallar` ends a handler at any step, as any remote command may. What the code does
about a failure is nothing: it answers with the error and leaves what it did. Two
histories say what this means. `pendiente`: the monitors whose file of Prometheus
waits for the next regeneration (one may be left behind while another server is
chosen and regenerated). `desviado`: something the code never mends happened, that is, a
tunnel was made or removed and not saved, the error of a removal or of a save was
ignored, a copy was saved over what another handler had saved, a
target that was saved changed its kind, or one was removed as a router with the
tunnel it had got because its profile changed between the second load and the third. The properties say what holds until then.

Left out: the queries that only read, the log of progress, the restoration of the
configuration from a backup. Two names that give one unit (`safeUnit`) are
taken apart. Weak points met on the way, all of them outside the properties:
`systemctl enable --now` does not restart a unit that was left running, so a name
added again keeps the old port while the new one is saved (`monitoring.go:646`);
`Preparado` survives a change of the monitor (795); a profile whose kind changes
keeps its tunnel, or becomes a Linux target with port 0 (671, 695). One is inside
`TunelesDeLaConfig`: a range may have the port of the agent (783), which is handed
out when nothing listens on it (596); the monitor that becomes a target later is
then written down with the port of a tunnel, and Prometheus scrapes one for both.

### WebLocal

`webLocalManager` has one lock, and each of its critical sections is an action. What
happens outside them: the goroutine of each `http.Server` (`serve`), which clears the
state when its server ends, if it still is the one in force; the second half of a
`Stop` (`Cerrar`: the shutdown and the close of the listener, after the lock was
released); and a login, which copies the code under the lock (`LoginLeer`), reads its
body with no lock, and stores its answer under it (`LoginMal`, `LoginBien`). A
`Servidores` is an `http.Server` object, as `Con` is a connection; a port is free or not
as the listeners say. Codes are random and not used twice, so a copy is either up
to date (`alDia`) or not. `Desbloquear` is the minute of the block; sessions expire
and close in `Olvidar`.

Regenerating the code says that it closes every session (`main.ts:1293`). It does; but a
login that had copied the old code, and was right, stores its session afterwards.
`SesionesDelCodigo` says exactly this: the sessions with an old code are of logins
that were in flight.

### Actualizador

`exe` is what the file of the program holds (a version, part of one, nothing),
`respaldo` its copies, `nuevo` the downloaded releases and `updater` the helper's
file. There are three kinds of processes. Handlers of "instalar" (`Descargar`,
`EscribirNuevo`, `CopiarUpdater`, `LanzarUpdater`); helpers (`Renombrar` and its
retries, `Copiar`, `CopiarFin`, `Lanzar`, `Listo`, and the three failures with their
ways back); and the program itself, which may run several times (`Abrir`, `Salir`),
and 4 s after its start removes the copies it saw then (`LimpiarBackup`). An `app`
knows the path its file has now, for Windows renames the file of a running program
and refuses to remove or replace it: `enMarcha` and `escribiendo` are those rules.
Any operation on a file may fail besides, and a helper may be killed (`Matar`).

The record of the attempt exists twice: `rutaIntentoUpdate` depends on `baseDir`, which
has no value yet when the helper, or the start of the program, uses it. `deArranque`
is the directory they mean, the one the program was started in; it is that of the data
only in portable mode, when the program is started from its own directory
(`Portable`).

Excused by name: `solapados`, the user opened the program while a helper was at work (its
`LimpiarBackup` may then remove the copy that the helper needs) or two handlers had
helpers ready at once; `sinVuelta`, a helper was killed, or Windows did not let it put
the program back. Left out: the signature and the digest (a test that passes), the
preferences, Linux (which refuses to install), and the port of the interface: a
program that starts during the 900 ms its predecessor has left finds port 8787
taken, and opens its window on a backend that is about to end.

## 3. The runs

| run | instance | shows |
|---|---|---|
| `conexiones_seguridad` | 2 servers whose names tie, 2 ports, 3 Conexion objects, 2 handlers | the registry, the selection, the listeners and the clients agree at every step; a live connection only goes because the user asked |
| `conexiones_vivacidad` | 2 servers, 1 port, 2 handlers | `PuertosLocales` is implemented: the selection is valid and handing a port over never leaves it unserved; a dead connection leaves the registry; a port that was taken is served again |
| `puerto_ssh_seguridad` | 2 ports, 2 tests, 2 handlers, servers with and without systemd and firewall, one fault or failed command | changes are exclusive, the way back to the server is kept but where it is lost unnoticed, keys and backups live as long as they should |
| `puerto_ssh_temporizador` | 1 handler, no fault | violated: see findings |
| `archivos_responde` | 2 windows, 1 closing, 1 other handler, 2 contents | one channel at a time, no save over what its window had not read; the API goes on if the server answers |
| `perfiles_claves` | 1 profile, 2 servers, 2 handlers, 2 keys (of one second or of two), 1 backup, 1 edit, 1 fault | the store keeps the last word of the user, a fingerprint is firm, a key that was saved works, a tool that gives up leaves nothing behind |
| `wireguard_tuneles` | 1 profile, 2 handlers and the automatic connection, 2 faults, 1 edit or import, both systems | only allowed hooks, and what the free text of a backup adds, reach a file or a tunnel; a tunnel that is up has a profile and the file it came up with; preshared keys stay with their peers |
| `web_local` | 2 servers, 2 ports, 2 ways to stop, 3 logins of one address, 2 sessions, blocked after 2 wrong codes | no session outlives its code, guesses are bounded, every open port has an owner, and the state shown ends by being the real one |
| `monitorizacion` | 3 servers (2 may be the monitor, one may become a router), 2 ports (one is that of the agent), 2 handlers | tunnels, configuration and Prometheus agree, whatever fails and whoever overlaps, until something the code never mends |
| `servidor_cambios` | 3 ports, 1 handler of hardening, 2 of the firewall, 1 change of port at a time, 4 servers, 1 fault | the SSH port stays open whatever is closed while it moves; a change of sshd or of the firewall is made whole or not at all |
| `actualizador` | 2 versions, 2 processes of the program, 2 handlers, 2 helpers, portable | a whole program is always left, and the panel shows the step that failed |
| `actualizador_rastro` | 2 versions, 2 processes, 1 handler, 1 helper, not portable | violated: see findings |

Eight more configurations are kept for instances that ask less or take longer, to be
run by hand: `Conexiones_relevo` (three servers on one port, with `RelevoSinCorte`,
`EstadoEstable` and `LocalhostValido`, all three true), and seven that end in a
counterexample of a weak point described below (`Archivos_callado`,
`PuertoSSH_archivo`, `PuertoSSH_restaurado`, `Perfiles_key`, `WireGuard_psk`,
`Monitorizacion_respuesta`, `Servidor_nft`). Two more properties, `ReservaExclusiva` of
`Conexiones` and `SinTemporales` of `Archivos`, are proved for every instance and no
longer run.

Why these bounds are enough for the cases that matter. Three Conexion objects are
one more than the servers, so a connection can die while its successor is already
registered and a third is being dialled. Two ports let the owner of one and of
another differ. Three servers on one port (`Conexiones_relevo`) are the fewest in
which a port passes to the older of two others. Two handlers are a race, and two
tests make a second one start after the first. `MaxReloj` (1) lets connections be
earlier, later or simultaneous; `MaxAverias` (1) allows one fault at any point,
which is what the rollbacks of the code are meant to survive: the properties that
exclude faults altogether say `averias = 0`. In `PuertoSSH` the bound is on faults and
failed commands together: what they do to each other (a link that falls after a
restoration that failed) is in the proofs, which have no bound. Two ports are enough
there for two tests to go one way and back, and a third only adds one that nobody asks
for. In `Perfiles` all interference is on
one profile: handlers of different profiles only meet in the store, which they
change one entry at a time. Two servers let a profile change host under a handler,
and two keys let one handler roll back while another installs. `WireGuard` has one
profile for the same reason: tunnels of different profiles share no file and no
service. Two faults let a tunnel fall, or a save fail, before or after a restart;
one edit is enough to separate a profile from the copy of a handler and from the
file of its tunnel. The keys of several peers matter only in `Guardar`, one step:
`WireGuard_psk.cfg` has two peers and the theorem any number.

In `Monitorizacion` two ports, the first of them that of the agent, and two servers besides the monitor make a port of one
be free for the other while a third use of it is remembered somewhere; two servers
that may be the monitor let the monitor change with handlers at work, and make the
second one, when it is a target too, the target without a tunnel; `UnMonitor` keeps
the run to the states in which one of the two at a time is worked on or keeps
anything (the theorem has no such bound). The states
after `desviado` are not explored (`CONSTRAINT SinDesvio`), which loses nothing: both
properties are void from then on, and `desviado` never becomes false again. In
`Actualizador` two attempts to rename (`Reintentos`; 120 in the code) take the helper
through both names of the copy, and two of each process are a race.

In `Servidor` three ports let one be the old SSH port, one the new and one another; two
handlers of the firewall show its lock. Two of hardening are
not run: they share a backup and no lock, so they cross each other and the property has
nothing to say. Two constraints keep the instance small. `SinMezcla`: while the firewall is
at work, hardening is not and has not been. Of sshd the firewall only asks whether a port
answers, a test that may fail anyway and that passes only if the firewall lets the port
in; and hardening never touches the firewall. `SinCruces`: nothing is explored
after a handler of hardening was crossed by a change of port, nor after `viejo`; `TodoONada`
says nothing more of either, and what `PuertoProtegido` needs of the tests holds
whichever ports the file names. That neither hides anything is also proved: the theorems
of `ServidorProofs` hold without them.

Deadlock is not checked in `PuertoSSH`, `Perfiles` and `WireGuard`: tests, keys,
edits and faults are finite, and when all are spent the model stops; nor in
`Actualizador`, which stops when no program is left to start, nor in `Servidor`:
nobody can do anything with a server that cannot be reached. It is checked in the
other modules.

**Fairness.** In `Conexiones`: handlers that got as far as the registry go on
(`Registrar`, `Salir`), so does the watcher of a dead client, and the interface polls
(`Estado`). None on the dial: its 12 s timeout covers the TCP connection and not
the SSH handshake, so the model lets a dial last for ever. That the watcher and the
polling go on presumes that `mu` is free in the end: a closing that waits for a silent
server keeps it (`Archivos_callado`), and `ApiNoCongelada` is the property that says
when it is. In `Archivos`: Go's
mutexes do not starve a waiter, hence strong fairness on taking one; the server
answers only in `LiveSpecResponde`. In
`WebLocal`: the goroutine of a server starts and ends, and a `Stop` closes what it took
(the shutdown has a timeout of 3 s). Nothing is assumed anywhere of the user, the
network or other programs.

### Findings

* `puerto_ssh_temporizador`: the timer of the test is stopped only after the
  final connection and the save of the profile (`ssh_keys.go:836`). If it runs out
  just then, it restores the old port of a change that was confirmed, and the
  profile names a port nobody listens on, where line 626 promises that it acts
  "si el flujo no llega a Aplicar o Cancelar". `CambioConfirmadoPermanece`.
* `actualizador_rastro`: the step at which an update failed is recorded where the
  panel does not look, unless the program is portable (`actualizador.go:387`), although
  `CHANGELOG.md:3-6` says that the panel shows it. `PanelDelFallo`.

Shown by a configuration of its own:

* `Archivos_callado`: closing a connection while its server is silent about a
  new channel blocks in `sftpMu` with `mu` held, and with it the whole API
  (`main.go:390`), which the comment of `archivos.go:50` means to avoid.
  `ApiNoCongelada`.
* `Servidor_nft`: with nftables the rollback runs `nft -f` on the saved ruleset, which adds
  those rules to the ones in force (`firewall.go:228`); the answer says that the firewall
  was restored (292), and the port that was opened stays open. `RestauraSiempre`.
* `PuertoSSH_archivo`: when the script fails after writing `sshd_config`, the
  handler answers "no se aplicó el cambio" (578) and leaves the file written.
  `ArchivoAplicado`.
* `PuertoSSH_restaurado`: the last connection of Aplicar, or its save, fails, and so
  does the restoration, whose error is ignored (`ssh_keys.go:778`, 803). Aplicar goes
  on to stop the timer and to delete the stage, and answers "se restauró el puerto"
  (785): sshd listens on the new port only, the profile names the old one, and
  nothing is left that would go back. `PuertoRestaurado`.
* `Perfiles_key`: creating a key a second time for a profile writes it over the
  file the profile uses, before the test; when the test fails the file is removed
  (`claves.go:289`), and the profile names a key that is gone. `KeyDelPerfilQueda`.
* `WireGuard_psk`: the form says of a preshared key that an empty field keeps it
  (`main.ts:1069`); saving keeps it only for a peer that did not change its
  position (`wireguard_client.go:672`), so removing one drops the keys of those
  behind it. `PskConservada`.
* `Monitorizacion_respuesta`: a selection answers "Selección aplicada y verificada."
  (`monitoring.go:929`) without regenerating Prometheus when it touched no Linux server,
  even if an earlier one failed before it did. `SeleccionVerificada`.

More weak points are in the models and excused by name in the properties: a test
reserved with a profile read before another change ended (`viejas`), one that lost the
way back unnoticed (`perdidas`), a key whose removal failed (`olvidadas`), a document
changed between the check and the rename (`ajeno`), an `authorized_keys` that two
handlers rewrote at once (`perturbados`) or a full disk cut (`recortados`), two keys
made in one second with one file between them (`compartidas`), a request that takes
nothing back or whose rollback had no link or failed (`sueltas`), a WireGuard profile two handlers worked on at once (`cruzados`: a
deletion or a disconnection that saw the tunnel down while it was being brought up
leaves it up with no profile, or with no file for `wg-quick down`), and one that
went with an import that replaces, or with a lost store, while its tunnel was there
(`huerfanos`); and those of `Monitorizacion` and `Actualizador` told with their
modules. In `WireGuard`: the free text of a
backup that is restored (`sinRevisar`): a line break in its `Table`, its `DNS` or an
`Endpoint` puts a `PostUp` in the file although the hooks of the profile are not
allowed (`wireguard_client.go:1055`, 357); and a Windows service that could not be
stopped and was deleted (`marcado`): the disconnection answers well and removes the
file of a tunnel that still runs (`wireguard_client_windows.go:232`). In `Servidor`: a
full disk truncates `sshd_config` and that exit of the
script does not put it back (`claves.go:535`, 786); two flows that cross
(`cruzados`, `viejo`); a rollback that fails and is told as done.

## 4. The proofs

`ConexionesProofs` proves, for any servers, ports, handlers and clock, that `Spec`
keeps the type invariant, `LocalhostValido` and every other safety property of
`conexiones_seguridad`, and `ReservaExclusiva` (`TipoCorrecto`, `ConexionUnica`,
`SeleccionValida`, `PuertosBienServidos`, `SinFugas`, `CierrePedido`); and what
`localhost` gets: `PuertoDeUno`, `SinCorte`, `SondeoEstable` and the refinement,
`Implementa`. The only assumptions are those the module declares of its constants,
but for `SondeoEstable`.

None of the properties is inductive. The invariant `IInv` adds:

* `InvPeticiones`: while a handler dials, the registry has nothing under its name;
  the object it dialled is allocated, is of that server and has no watcher yet.
  Without it `Registrar` could overwrite a connection.
* `InvRegistro`: what the registry holds under a name is a connection to that
  server (so no two names hold the same object), and it has a watcher. This
  turns the rule about owners, which is on names, into one on objects.
* `InvVigia`: a watched connection is allocated and belongs to a server.
* `InvMikrotik`: a RouterOS connection has no tunnels; this is why `Registrar`
  may skip the reassignment for it.

`PuertosDelPropietario` is re-established by `reasignarPuertos` from any listeners
that belong to registered connections: releasing leaves each one only ports it is
wished for, opening adds only those. One lemma states that, and each action
cites it.

A second invariant, `InvEscuchas`, says that a local port has one holder: never two
connections, nor a connection and another program. With it a reassignment leaves
every wanted port that no other program holds listened on, by its owner. `SinCorte`
(`RelevoSinCorte`) is the case of a port that was listened on, which therefore no
other program holds. `SondeoEstable` (`EstadoEstable`) needs the owner to be the
same before and after: its hypothesis `SinEmpates` is that two names differ in more
than case, and with a tie the code really may move a port. `Implementa` goes through
the actions one by one under the mapping `Promesa`: a registration, a disconnection
and a selection are steps of `PuertosLocales`, a poll opens ports, and the rest is
stutter. What makes it a proof about `CHOOSE` (who answers on a port) is again that
the holder is unique.

`PuertoSSHProofs` proves the type invariant and `CambioExclusivo` (`UnSoloCambio`)
with any number of handlers, tests and faults. The map `cambiosPuertoSSH` is only
locked to read or write an entry, so exclusion is a matter of tokens: `InvToken`,
no two handlers at work have the same one, and it was used; `InvOcupa`, whoever
owns the server has the token of the entry; `InvEspera`, nobody works for a stage
that waits, so taking it cannot make a second. The end of Aplicar and Cancelar
deletes the entry whatever its token; that this is its own needs `InvForma`: a
list of ignored commands gives the server back once, and ends with its last
command. One lemma (`PasoTarea`) covers every step that only moves a handler.

The way back to the server is a second invariant on top of the first, and gives the
other properties of the run, `ClavesDeFlujo`, `PerfilAlcanzable` and
`PerfilRecuperable` (`ClavesRetiradas`, `PerfilSiempreAlcanzable`,
`PerfilSiempreRecuperable`):

* `InvCopia`: a handler at work holds a copy of the entry as it is, and before the
  stage is published its test has no timer. The lists of ignored commands are in an
  order: what undoes comes before what gives the server back.
* `InvClaves`: until something falls, a key of a test that is on the server is
  needed, or is removed by what is left of the list, or is one whose removal failed.
* `InvPerfil`: until a timer fires or a way back is lost (`perdidas`), the port of the
  profile is in sshd and open (`Bien`), or the stage that waits has the backup that
  brings it back (`Normal`), or a test cut short by a fault has it, and the timer it
  was published with, if any (`Cortado`). `aMedias` ties the profile to the entry
  until somebody is about to delete it. A restoration that fails in the list of Probar
  does no harm, since sshd still has both ports; one in that of Aplicar is what
  `perdidas` records.

Commands of a handler that does not own the server only touch its keys (`SinDueno`),
which is why several tests in flight do not spoil it. `PerfilSoloComprobado` proves
a property no run checks, `PerfilComprobado`: until a timer fires the profile moves
only to a port where SSH answers.

`ReemplazosProofs` is about the two components that replace a file in several steps,
any of which may fail: the program in `Actualizador`, a remote document in `Archivos`.
They share no state. A temporary file is removed over the connection of its own save,
which is why the ones that stay are those whose connection fell.

For `Archivos` it proves the type invariant, `UnSoloCanal`, `SinTemporales` and
`SoloLoLeido`, with any connections, windows and closings. `InvCanal` ties a request that opens a channel to the lock it holds;
`InvDocumento` says that between its check and its rename a save that nobody
overtook still sees what its window had read.

For `Actualizador` it proves every property of its passing run (`TipoCorrecto`,
`ProgramaRecuperable`, `PanelMuestraElFallo`) and `ImagenEntera`, with any processes,
helpers, requests and attempts and any finite set of releases. The invariant adds:

* `InvVersion`: whoever is at work has a release in hand. An `app` takes its own from
  the file it starts from, so this needs the next one.
* `InvImagen`: one file at most is being written, and what a process runs from, under
  the name of the program or as a copy, is whole. It holds also when helpers overlap:
  Windows refuses to remove or overwrite the file of a running program, and that is
  enough. `ImagenEntera` is this.
* `InvSolo`: one helper works at most, and a handler that has the helper's file ready
  finds both files as it left them.
* `InvFases`: up to the rename and from the launch on (`FaseEntera`) the program is
  whole. In between (`FaseCopia`) nobody runs under its name, some copy is whole, and the
  one that the helper would put back is whole or gone. `HayEjecutable` follows.

`InvSolo` and `InvFases` are claimed until helpers overlap (`solapados`). What makes
them inductive is who removes copies: `QuienLimpia` says that a program that removes
them, 4 s after its start, runs from a file that it does not remove, so in `FaseCopia`,
when nobody runs under the name of the program, a copy stays. The first release is a
minimum, and what a file that is not whole holds (`Roto`) is above a maximum; that a
finite set of numbers has both is proved first (`MinimoNatural`, `Acotado`,
`Extremos`). Assumed of the constants: releases are positive numbers, finitely many
and at least one (`VersionesAssumption`), and the attempts of a helper are a bounded
number (`ReintentosAssumption`).

`PanelMuestraElFallo` has a hypothesis, `Portable`: the data are beside the program, so
that everybody writes one record (`InvFallo`: it says how the last attempt failed).
Without it the property is false, which is the finding of `actualizador_rastro`.

`PerfilesProofs` proves the type invariant, `UltimaPalabra` and `HuellaFirme`. The
invariant adds what a handler knows at each step (`InvTareas`: from the test of a
key on it has a copy of a profile, a server, a key and a path) and that each new
installation of a server is a fault (`InvCuentas`, which bounds the fingerprints).
The two places where a handler writes a profile, the fingerprint and the key,
have a lemma each: only that profile changes, its host only if the request says
so, its fingerprint only if it had none. `HuellaFirme` follows from them, for no other
step moves a handler and the store at once.

`KeyCreadaSirve` and `SinResiduos` (`KeyUtil`, `NadaOlvidado`) are about the keys,
and rest on a second invariant, `IInv2`. A token belongs to one handler, and to none
once it is saved (`InvTokens`); the lines of `authorized_keys` that carry it, or the
copy that is about to replace the file, are on that handler's server only, and it
knows that it added them (`InvLineas`); between the `grep` and the `mv` of a
rollback that copy is the file without its line, unless two handlers cross there
(`InvMover`), or a full disk cut it; a key in the making is in its own line and, as
long as no request of the same second has its name, in its own file, and in no file
named after a profile (`InvObra`), and stays in both when a profile gets it (`InvHechas`); a file named
after a moment is only in the hands of the request of that moment or of one that
shares it (`InvRutas`). The last two
use `PaquetesAnterioresAssumption`.

`WireGuardProofs` proves every property of `wireguard_tuneles`, with any number of
profiles, handlers, forms, backups and faults. `InvDatos` is the type invariant
with smaller types: the profiles and files that keep keys with their peers, whose
active hooks are allowed and whose free text came from the user or from a backup; `HooksAutorizados` and `PskDeSuPeer` follow from it. The
others need to know who else is at work: `InvSolo`, a profile that is not
marked has one handler and nothing pending from the start; `InvQuieto`, that handler
saw the tunnel down before it touches the file, and still sees it so, or has deleted
its service; `InvSinPerfil`,
nothing can bring up the tunnel of a profile that is gone, neither a handler nor a
restart, for its service finds no file. Two lemmas carry the steps: `PasoHilo`, a
handler only answers for its own profile, and `PasoAlmacen`, a change of the
profiles marks those it takes from under a tunnel.

`ServidorProofs` proves every property of `servidor_cambios` (`TipoCorrecto`,
`PuertoSSHProtegido`, `CambiosEnteros`) with any ports, handlers, servers and
faults, and without the two constraints of the run: several handlers of hardening at
once, with the firewall and the port changing meanwhile. From the constants it needs
that a handler is not of both kinds (`HilosAssumption`) and that `Ninguno` is
nothing else. The invariant adds:

* `InvCandado`: who is at work on the firewall has the lock, so nobody else is;
* `InvCambio`: the port that is tried, or that will be closed, is not the profile's;
* `InvEnlace`: until the first fault every handler keeps its client, so that no way back
  is skipped;
* `InvReposo`: when no change of the firewall is half-way, what is in force is what a
  reload would bring and the profile's port is in it; while one is half-way, its backup
  has the port;
* `InvCorte`, `InvTarea`: what the rules, and sshd with its backup, are at each step of a
  handler nobody crossed. The ends of a handler are read from them.

The history `cruzados` is what makes them inductive: a step of one flow either leaves
alone what another's record speaks of, or marks that handler, about which nothing is then
claimed. One lemma per flow says so (`PasoHilo`, `Avanza` and `Suelta`, `Cruza`), and each
action cites one.

`WebLocalProofs` proves every safety property of `web_local` (`TipoCorrecto`,
`SesionesCerradas`, `FallosContados`, `EscuchaTieneDueno`) with any number of
servers, ports, logins and addresses, and any limit of wrong codes. `InvSesiones`: a
copy of the code in force is one of a running server, so no session is opened for a
code that was closed with its server. `InvFallos`: an address that is not blocked
has had no more wrong codes than it is charged with, although they are compared in
one critical section and charged in another; `FallosAcotados` allows one more for
each login under way, and the proof counts them (`FS_Subset` and the other facts of
finite sets). `InvDueno`: a goroutine returns only with its listener closed, and
nobody has in hand the server in force.

`MonitorizacionProofs` proves every property of `monitorizacion` (`TipoCorrecto`,
`TunelesSiempre`, `PrometheusSiempre`) for any servers, monitors, ranges,
selections and handlers, without the constraints of the run. Its invariant has two halves.
Whatever goes wrong, `InvPeticiones`: there is no Linux target without a monitor,
and a handler reaches a tunnel with a monitor, a name and a port in hand. Until
something goes wrong for good (`~desviado`), `Derecho`:

* `InvCopias`: a copy over which nobody saved is the configuration but for the
  change its handler is about to save, and the port it holds is of no other target;
  and when nobody else is half-way through that name, its tunnels are already as
  they will be saved (`Obra`).
* `InvTuneles`: the Linux targets have ports, no two the same but for that of the
  agent, which a tunnel may share with the monitor (`deUno`), and the tunnels of the names nobody is half-way through have
  them.
* `InvPrometheus`: the Prometheus of each server, monitor or not, scrapes what it
  should, unless some handler owes it a regeneration or left it pending.

The second needs the first for handlers that overlap on one name: the one that saves
last saved with a copy that was still good, or `desviado` holds. One lemma per kind
of step (`DerechoSeguir`, `DerechoTunel`, `DerechoGuardar`, `PrometheusPaso`) says
what is left to show, and each action cites one. The proof of `PrometheusAlDia` is
what made `pendiente` a set: with one mark for all, regenerating the file of a new
monitor would clear the debt of the one the user had gone back to.

Only model-checked: liveness, out of the prover's reach (`CaidaDetectada`,
`PuertoReabierto`, `ApiNoCongelada`, `EstadoReal`). Every other property of a passing
run is proved. The properties of the runs that expect a violation are false, and so
are not for proving.

## 5. What is left

1. Pure operators: `validarTuneles`, the order of servers, the routes of
   WireGuard, each against a reference definition; the unlocked creation of the
   secret.
2. The second instance of the program and its session file (`main.go:1202`), together
   with `Actualizador`.
