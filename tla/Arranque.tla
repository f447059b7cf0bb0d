------------------------------ MODULE Arranque ------------------------------
(***************************************************************************)
(* From power-up to running tasks, and back.                               *)
(*                                                                         *)
(* setup() (main.cpp) reads the configuration, resets it when it is that   *)
(* of another version, arms the watchdog, mounts the file system, enters   *)
(* the WiFi or opens its own access point, starts the web server and only  *)
(* then the CAN driver and the tasks.  Four of its ways out save something *)
(* and restart.  From webserver.begin() on it shares `configuracion' with  *)
(* the web handlers, and then with the parser and the reset button too.    *)
(*                                                                         *)
(* A save that setup() makes while nobody else runs is one step: a power   *)
(* cut between its put and its commit is one before both.  The clock has   *)
(* seconds; a shorter delay is rounded up to one.                          *)
(***************************************************************************)
EXTENDS Naturals, Persistencia

CONSTANT Formateo   \* seconds SPIFFS.begin(true) takes when it has to format

ASSUME FormateoEsNatural == Formateo \in Nat

Actores == {"setup", "web", "otro", "reset"}

\* Who feeds the watchdog, and the longest it takes when it does not hang:
\* delayMuestreo, the wait for the queue, fourteen frames of 250 ms, loop().
Alimentadores == {"peticion", "parseo", "envio", "loop"}
Periodo == [peticion |-> 3, parseo |-> 2, envio |-> 4, loop |-> 1]

\* Mutant: the divider is the 80 of the comment, for ticks of 1 us.
MutanteSegundosPerro == 30000000 \div (80000000 \div 80)

\* timerBegin with divider 240 on a clock of 80 MHz gives ticks of 3 us.
SegundosPerro == 30000000 \div (80000000 \div 240)

SegundosBusqueda == 21   \* 200 ms and a hundred times 200 ms

VARIABLES
  pc,         \* where each actor is
  falta,      \* seconds left of the delay setup() is in
  driver,     \* the TWAI driver was installed and started in this run
  perro,      \* seconds on the timer of the watchdog
  colgados,   \* feeders that do not feed it, for a while or for good
  desde       \* Auxiliary: seconds of setup() since the last outside event

vars == <<cfgVars, pc, falta, driver, perro, colgados, desde>>

\* The members setup() reads and writes.  `red' stands for ssid1 and pass1:
\* none, those a user submitted, or the new SSID with the old password.
Config == [version : {"esta", "otra"}, wifiConfigured : BOOLEAN,
           red : {"sin", "mezcla", "enviada"}, dispositivoCAN : BOOLEAN]

Apagados == [setup |-> "eeprom", web |-> "espera", otro |-> "espera", reset |-> "sondea"]

\* A chip that never ran this version.
Init ==
  /\ flash \in {c \in Config : c.version = "otra" /\ c.red = "sin"}
  /\ cfg = flash /\ buf = flash /\ abierta = TRUE
  /\ pc = Apagados /\ falta = 0 /\ driver = FALSE
  /\ perro = 0 /\ colgados = {} /\ desde = 0

Tareas == pc["setup"] = "tareas"
\* The delay before a restart counts too, also where the watchdog is not armed yet.
Armado == pc["setup"] \in {"restart", "spiffs", "wifi", "busca", "web", "can", "put", "commit", "tareas"}

\* Mutant: the web server is started before the WiFi.
MutanteSirve == pc["setup"] \in {"wifi", "busca", "web", "can", "put", "commit", "tareas"}
Sirve == pc["setup"] \in {"can", "put", "commit", "tareas"}

Paso(t, de, a) == pc[t] = de /\ pc' = [pc EXCEPT ![t] = a]

----------------------------------------------------------------------------
(* setup() *)

\* A step of setup() that is followed by a delay of n seconds.
PasoSetup(de, a, n) == falta = 0 /\ Paso("setup", de, a) /\ falta' = n

Salva(c) == cfg' = c /\ buf' = c /\ flash' = c /\ UNCHANGED abierta

FallaEEPROM ==
  /\ PasoSetup("eeprom", "restart", 1)
  /\ desde' = 0
  /\ UNCHANGED <<cfgVars, driver, perro, colgados>>

LeeConfiguracion ==
  /\ PasoSetup("eeprom", "version", 0)
  /\ configuracionLeerEEPROM
  /\ UNCHANGED <<driver, perro, colgados, desde>>

\* configuracionInicial saves by itself, still with the version it found.
OtraVersion ==
  /\ PasoSetup("version", "ponVersion", 0)
  /\ cfg.version # "esta"
  /\ Salva([cfg EXCEPT !.wifiConfigured = FALSE, !.dispositivoCAN = FALSE])
  /\ UNCHANGED <<driver, perro, colgados, desde>>

PonVersion ==
  /\ PasoSetup("ponVersion", "restart", 3)
  /\ Salva([cfg EXCEPT !.version = "esta"])
  /\ UNCHANGED <<driver, perro, colgados, desde>>

MismaVersion ==
  /\ PasoSetup("version", "arma", 1)
  /\ cfg.version = "esta"
  /\ UNCHANGED <<cfgVars, driver, perro, colgados, desde>>

\* The watchdog is armed and the file system is mounted, or formatted first.
ArmaPerro ==
  /\ \E n \in {0, Formateo} : PasoSetup("arma", "spiffs", n)
  /\ perro' = 0
  /\ UNCHANGED <<cfgVars, driver, colgados, desde>>

FallaSPIFFS ==
  /\ PasoSetup("spiffs", "restart", 3)
  /\ desde' = 0
  /\ UNCHANGED <<cfgVars, driver, perro, colgados>>

MontaSPIFFS ==
  /\ PasoSetup("spiffs", "wifi", 0)
  /\ UNCHANGED <<cfgVars, driver, perro, colgados, desde>>

wifiModeAp ==
  /\ PasoSetup("wifi", "web", 1)
  /\ ~cfg.wifiConfigured
  /\ Salva([cfg EXCEPT !.wifiConfigured = FALSE])
  /\ UNCHANGED <<driver, perro, colgados, desde>>

wifiModeStation ==
  /\ PasoSetup("wifi", "busca", SegundosBusqueda)
  /\ cfg.wifiConfigured
  /\ UNCHANGED <<cfgVars, driver, perro, colgados, desde>>

\* At any poll, when the credentials are those of a network in reach.
EncuentraRed ==
  /\ Paso("setup", "busca", "web") /\ falta' = 0
  /\ cfg.red = "enviada"
  /\ Salva([cfg EXCEPT !.wifiConfigured = TRUE])
  /\ UNCHANGED <<driver, perro, colgados, desde>>

\* Mutant: the loss of the network is not saved.
MutanteSinSalvar ==
  /\ PasoSetup("busca", "restart", 3)
  /\ cfg' = [cfg EXCEPT !.wifiConfigured = FALSE]
  /\ abierta' = FALSE
  /\ UNCHANGED <<buf, flash, driver, perro, colgados, desde>>

\* Mutant: the search is given up at the first poll without the network.
MutanteSinEsperar ==
  /\ Paso("setup", "busca", "restart") /\ falta' = 3
  /\ cfg' = [cfg EXCEPT !.wifiConfigured = FALSE]
  /\ buf' = cfg' /\ flash' = cfg' /\ abierta' = FALSE
  /\ UNCHANGED <<driver, perro, colgados, desde>>

PierdeRed ==
  /\ PasoSetup("busca", "restart", 3)
  /\ cfg' = [cfg EXCEPT !.wifiConfigured = FALSE]
  /\ buf' = cfg' /\ flash' = cfg' /\ abierta' = FALSE
  /\ UNCHANGED <<driver, perro, colgados, desde>>

IniciaWeb ==
  /\ PasoSetup("web", "can", 1)
  /\ UNCHANGED <<cfgVars, driver, perro, colgados, desde>>

\* Mutant: a driver that fails leaves the flag as it was read from flash.
MutanteSetupCanbus ==
  /\ PasoSetup("can", "put", 0)
  /\ driver' \in BOOLEAN
  /\ cfg' = [cfg EXCEPT !.dispositivoCAN = @ \/ driver']
  /\ UNCHANGED <<buf, flash, abierta, perro, colgados, desde>>

setupCanbus ==
  /\ PasoSetup("can", "put", 0)
  /\ driver' \in BOOLEAN
  /\ cfg' = [cfg EXCEPT !.dispositivoCAN = driver']
  /\ UNCHANGED <<buf, flash, abierta, perro, colgados, desde>>

\* Its save, among those of the web handlers, and setupTareasYColas.
PutCanbus ==
  /\ PasoSetup("put", "commit", 0)
  /\ Put
  /\ UNCHANGED <<driver, perro, colgados, desde>>

setupTareasYColas ==
  /\ PasoSetup("commit", "tareas", 0)
  /\ Commit
  /\ desde' = 0
  /\ UNCHANGED <<driver, perro, colgados>>

Setup ==
  \/ FallaEEPROM \/ LeeConfiguracion \/ OtraVersion \/ PonVersion \/ MismaVersion
  \/ ArmaPerro \/ FallaSPIFFS \/ MontaSPIFFS \/ wifiModeAp \/ wifiModeStation
  \/ EncuentraRed \/ PierdeRed \/ IniciaWeb \/ setupCanbus \/ PutCanbus
  \/ setupTareasYColas
----------------------------------------------------------------------------
(* Who else writes the configuration. *)

fueraVars == <<falta, driver, perro, colgados>>

\* The page of the WiFi copies the two texts and sets the flag.
SalvarSsid ==
  /\ Sirve /\ Paso("web", "espera", "pass")
  /\ cfg' = [cfg EXCEPT !.red = "mezcla"]
  /\ UNCHANGED <<buf, flash, abierta>>

SalvarPass ==
  /\ Paso("web", "pass", "conf")
  /\ cfg' = [cfg EXCEPT !.red = "enviada"]
  /\ UNCHANGED <<buf, flash, abierta>>

SalvarConf ==
  /\ Paso("web", "conf", "put")
  /\ cfg' = [cfg EXCEPT !.wifiConfigured = TRUE]
  /\ UNCHANGED <<buf, flash, abierta>>

PutWeb == Paso("web", "put", "commit") /\ Put

CommitWeb == Paso("web", "commit", "end") /\ Commit

EndWeb == Paso("web", "end", "restart") /\ CierraEEPROM

Web ==
  /\ SalvarSsid \/ SalvarPass \/ SalvarConf \/ PutWeb \/ CommitWeb \/ EndWeb
  /\ desde' = 0
  /\ UNCHANGED fueraVars

\* Another page, or the parser when a permission changed, saves the struct and
\* leaves these members alone.
Otro ==
  /\ \/ Sirve /\ Paso("otro", "espera", "put") /\ UNCHANGED cfgVars
     \/ Paso("otro", "put", "commit") /\ Put
     \/ Paso("otro", "commit", "espera") /\ Commit
  /\ UNCHANGED <<fueraVars, desde>>

\* The button: configuracionInicial, with its save, and the restart.
Reset ==
  /\ \/ /\ Tareas /\ Paso("reset", "sondea", "can")
        /\ cfg' = [cfg EXCEPT !.wifiConfigured = FALSE]
        /\ UNCHANGED <<buf, flash, abierta>>
     \/ /\ Paso("reset", "can", "put")
        /\ cfg' = [cfg EXCEPT !.dispositivoCAN = FALSE]
        /\ UNCHANGED <<buf, flash, abierta>>
     \/ Paso("reset", "put", "commit") /\ Put
     \/ Paso("reset", "commit", "restart") /\ Commit
  /\ UNCHANGED <<fueraVars, desde>>

----------------------------------------------------------------------------
(* The watchdog, the restarts and time. *)

Alimenta ==
  /\ Tareas /\ colgados # Alimentadores
  /\ perro' = 0
  /\ UNCHANGED <<cfgVars, pc, falta, driver, colgados, desde>>

Cuelga ==
  /\ Tareas /\ perro < SegundosPerro
  /\ \E t \in Alimentadores \ colgados : colgados' = colgados \cup {t}
  /\ UNCHANGED <<cfgVars, pc, falta, driver, perro, desde>>

Sigue ==
  /\ perro < SegundosPerro
  /\ \E t \in colgados : colgados' = colgados \ {t}
  /\ UNCHANGED <<cfgVars, pc, falta, driver, perro, desde>>

\* What RAM holds is not read before LeeConfiguracion.
Apaga ==
  /\ pc' = Apagados /\ falta' = 0 /\ driver' = FALSE
  /\ perro' = 0 /\ colgados' = {}
  /\ UNCHANGED cfgVars

\* ESP.restart() of setup(), of the page of the WiFi or of the button.
Restart ==
  /\ \/ pc["setup"] = "restart" /\ falta = 0
     \/ pc["web"] = "restart" \/ pc["reset"] = "restart"
  /\ Apaga
  /\ UNCHANGED desde

Muerde == Armado /\ perro = SegundosPerro /\ Apaga /\ UNCHANGED desde

CorteDeLuz == Apaga /\ desde' = 0

Segundo ==
  /\ falta > 0 \/ Tareas
  /\ perro < SegundosPerro
  /\ Tareas => \A t \in Alimentadores \ colgados : perro < Periodo[t]
  /\ falta' = IF falta > 0 THEN falta - 1 ELSE 0
  /\ perro' = IF Armado THEN perro + 1 ELSE perro
  /\ desde' = IF Tareas THEN desde ELSE desde + 1
  /\ UNCHANGED <<cfgVars, pc, driver, colgados>>

Next == \/ Setup \/ Web \/ Otro \/ Reset
        \/ Alimenta \/ Cuelga \/ Sigue \/ Restart \/ Muerde \/ CorteDeLuz \/ Segundo

Spec == Init /\ [][Next]_vars
----------------------------------------------------------------------------
(* Properties. *)

EtapasSetup == {"eeprom", "version", "ponVersion", "arma", "spiffs", "wifi", "busca", "web",
                "can", "put", "commit", "tareas", "restart"}
EtapasWeb == {"espera", "pass", "conf", "put", "commit", "end", "restart"}
EtapasOtro == {"espera", "put", "commit"}
EtapasReset == {"sondea", "can", "put", "commit", "restart"}
Etapas == EtapasSetup \cup EtapasWeb \cup EtapasReset

TipoPc ==
  /\ pc \in [Actores -> Etapas]
  /\ pc["setup"] \in EtapasSetup /\ pc["web"] \in EtapasWeb
  /\ pc["otro"] \in EtapasOtro /\ pc["reset"] \in EtapasReset

TipoCopias ==
  /\ cfg \in Config /\ buf \in Config /\ flash \in Config
  /\ abierta \in BOOLEAN /\ driver \in BOOLEAN

TipoReloj ==
  /\ falta \in Nat /\ desde \in Nat /\ perro \in 0 .. SegundosPerro
  /\ colgados \subseteq Alimentadores

TypeOK == TipoPc /\ TipoCopias /\ TipoReloj

\* The longest way after the event (at worst the delay after a failed mount):
\* a search in vain, its restart, and the access point.
LimiteArranque == 3 + (1 + Formateo + SegundosBusqueda + 3) + (1 + Formateo + 1 + 1)

\* Whatever flash holds and whether the network is there or not, the tasks
\* run a bounded time after the last outside event (a power cut, a user of
\* the web pages, a memory that fails): no way out of setup() that restarts
\* leads back to itself (main.cpp:228, 302).
ArranqueAcotado == desde <= LimiteArranque

\* The watchdog never cuts a boot, however long the format and the search of
\* the network take, and later bites only when all its four feeders hang.
PerroSinFalsos ==
  (Armado /\ perro = SegundosPerro) => (Tareas /\ colgados = Alimentadores)

\* The tasks see the flag of the driver of this run, not the one that was read
\* from flash, although handlers save the struct around setupCanbus.
CanSegunDriver ==
  (Tareas /\ pc["reset"] = "sondea") => cfg.dispositivoCAN = driver

\* When the page of the WiFi restarts, the next boot finds its network,
\* whatever setup(), the parser and the other pages saved meanwhile.
RedGuardada ==
  (pc["web"] \in {"end", "restart"} /\ pc["reset"] = "sondea")
    => flash.wifiConfigured /\ flash.red = "enviada"

\* A saved network is forgotten only by a search of 20 s in vain, by a change
\* of version or by the button; never by a power cut at a bad moment.
RedConservada ==
  [][ flash.wifiConfigured /\ ~flash'.wifiConfigured
      => \/ pc["setup"] = "busca" /\ falta = 0
         \/ flash.version = "otra"
         \/ pc["reset"] # "sondea" ]_vars
=============================================================================
