# JKbms_Emu_Pylon in TLA+

The firmware runs on an ESP32 between a JiKong battery management system (BMS)
and an inverter. It asks the BMS for its state over RS485, decides whether the
battery may be charged and discharged and with which voltage and current, and
tells the inverter over CAN in one of two Pylontech protocols. A web portal
changes the configuration while all this runs. FreeRTOS tasks on two cores share
two global structs, `configuracion` and `jk_bms_battery_info`, without a lock:
most of what can go wrong is the order in which tasks touch them.

Paths are those of the repository (`src/tareas.cpp` is the file in its `src/`).
The definitions keep the names of the code where TLA+ allows it, the others are
Spanish like the code; the comments are in English.

## 1. Inventory

| part | state | operations | talks to |
|---|---|---|---|
| configuration (`configuracion.cpp`) | struct in RAM, buffer of the EEPROM library, flash | put + commit, read at boot, initial values | every task and page, in place |
| request task (`tareas.cpp:19`) | - | asks the BMS every 3 s if the link is enabled | RS485 |
| capture task (`tareas.cpp:47`) | `bufferStream`, shared and erased after use | read, header test, checksum, queue | queue of 2 |
| parser task (`tareas.cpp:73`) | `contador`, 2 s wait | parse, low capacity, voltages, ramps, permissions; the alarm | both structs, flash |
| charge control (`tareas.cpp:518`) | `habilitarCarga`, `habilitarDescarga` | grant and withdraw by SOC, MOS state and voltage; save | flash |
| ramps (`tareas.cpp:562-652`) | tables of five rules | indices, interpolation, both limits | limits |
| CAN receiver (`tareas.cpp:290`) | - | driver to queue of 10 | queue |
| CAN sender (`tareas.cpp:183`) | - | HV: answer requests; LV: empty the queue, send six frames | both structs, driver |
| frame builders (`pylon_can.cpp`, `pylonHV_can.cpp`) | - | read the structs, scale, pack | both structs |
| web portal (`PortalWeb.cpp`) | - | one handler per page: assign member by member, save | both structs, flash |
| reset button (`tareas.cpp:116`) | counter | initial values, save, restart | `configuracion`, flash |
| boot (`main.cpp:286`) | version word, flags of WiFi and CAN | read flash, WiFi or access point, web server, CAN, tasks; four ways out that restart | flash |
| watchdog (`main.cpp:310`) | 90 s timer | fed by three tasks and `loop()` | restart |
| MQTT client (`tareas.cpp:476`) | session of the library | connect, publish, disconnect | settings, broker |
| LED, JSON, debug print | - | output | - |

What makes each part correct, and where it is hard:

- *Configuration*: what was decided or typed survives a restart at any moment,
  although any task saves the whole struct while another is half way through its
  assignments; `EEPROM.end()` of the WiFi page closes it half a second early.
- *Link*: a silent BMS is noticed in bounded time; a lost answer is no alarm; the
  alarm goes away when the line is back; the state that survives a restart is old.
- *Frames in*: what is parsed was sent, although the buffer is shared and a read
  may end in the middle of a frame.
- *Permissions*: the inverter stops in an alarm and only moves again on a
  permission evaluated since; the frame is built from three unlocked reads.
- *Limits*: the parser writes the BMS value first and the right one later.
- *Ramps*: integer arithmetic in unsigned words, tables typed by a user.
- *CAN*: requests answered and cycles repeated in bounded time, although the
  protocol changes in the middle of a turn and a queue overflows.
- *Frames out*: scales, signs, offsets and alarm bits of two protocols; the transmit
  queue of the driver, whose frames grow old while the bus is off.
- *Boot and watchdog*: no way out of `setup()` that restarts leads back to itself,
  no slow start is cut by the watchdog, and what pages save while `setup()` still
  runs is neither lost nor overwrites what `setup()` found.
- *MQTT*: the settings survive the page that writes them over each other, and the
  session ends up with them, or ends when they say so.

`PROJECT.json` lists each hazard at its line with the properties that cover it.

## 2. Modules

Each module takes the part of the two structs its question is about and splits
the code at every access to them that another task can see. Composition is
through these members: `Persistencia` is the library of put, commit and restart
that `ChargeControl`, `Arranque` and `ClienteMqtt` extend, each with its members of
the struct; the alarm whose timing `BmsLink` establishes is an unconstrained action in `PermissionFeed` (so what holds there holds for the alarm
of `BmsLink`); `TramaJk` justifies that `BmsLink` tells only frames and noise
apart; `CanBus` justifies that the sender of `PermissionFeed`, `LimitFeed` and
`CellFeed` comes back to its frame.

| module | code | state and actions |
|---|---|---|
| `Persistencia` | `configuracion.cpp`, `include/configuracion.h` | `cfg`, `buf`, `flash`, `abierta`; `Put`, `Commit`, `CierraEEPROM`, `configuracionLeerEEPROM` |
| `Configuracion` | `include/configuracion.h`, `configuracion.cpp:9-73` | extends it with the members of the charge control, their initial values and ranges |
| `ChargeControl` | `tareas.cpp:73-137, 518-559`, `PortalWeb.cpp:104-117, 449-480` | three tasks (`pcP`, `pcW`, `pcR`) over the configuration; one action per rule of `controlCargaDescarga`, per assignment of a page or of `configuracionInicial`, per put and commit; `Reinicio` at any point |
| `BmsLink` | `tareas.cpp:19-96` | timers of the request task and the parser, the answer under way, buffer, queue, `contador`, `error`; `Segundo` is the clock |
| `AlarmaSilencio` | - | what `BmsLink` promises: an alarm between two bounds of silence |
| `TramaJk` | `tareas.cpp:47-68`, `jk_bms_485.cpp:91-137` | the line, `bufer`, `leidos`, the queue; arrival of whole, broken and foreign frames, the two checks, the erase |
| `PermissionFeed` | `tareas.cpp:73-96, 149-181`, `pylon_can.cpp:151`, `pylonHV_can.cpp:317` | permissions and alarm, the frame under construction, the transmit queue of the driver, what the inverter was told; one action per read of the sender and per write of the parser, the reset and the alarm; `Entrega` is the driver |
| `LimitFeed` | `jk_bms_485.cpp:341-372`, `tareas.cpp:510-515, 602-652`, `PortalWeb.cpp:424` | the three limits, each value abstracted to where it comes from (`bms`, `rampa`, a voltage of the user, `cero`) |
| `Rampas` | `tareas.cpp:562-652` | the table, the value, the indices and the current; the two ramps of a call share `indice` |
| `CanBus` | `tareas.cpp:183-319`, `PortalWeb.cpp:148-166` | driver, queue, program counters and timers of receiver and sender, the page; `Tick` is 100 ms |
| `Telemetria` | `jk_bms_485.cpp:58-72, 183-372`, both frame files | what was measured, what was parsed, what each protocol sent; words are numbers modulo 2^16 and alarm bytes sets of bits |
| `CellFeed` | `jk_bms_485.cpp:140-181, 234-241, 445-448`, `pylonHV_can.cpp:127` | cells, summary, the frame under construction, what the inverter was told |
| `Arranque` | `main.cpp:87-127, 167-268, 286-378`, `tareas.cpp:116-137`, `PortalWeb.cpp:104-117` | one action per stage of `setup()`, its delays in `falta`; the page of the WiFi, other saves and the button against it; the watchdog `perro` and its feeders; power cuts |
| `ClienteMqtt` | `tareas.cpp:476-507`, `main.cpp:155-160`, `PortalWeb.cpp:220-246` | the page assignment by assignment, the task read by read, the session, the network |
| `MC*` | - | values of the constants for TLC |
| `*Proofs` | - | theorems about the modules they extend |

`LecturaProofs` extends the three modules of the way in, `TramaJk`, `CellFeed` and
`Telemetria`, and `ArranqueProofs` both `Arranque` and `ClienteMqtt`: a specification
that shares its proof module with another has a name of its own (`CapturaSpec`,
`CeldasSpec`, `MqttSpec`), the others are `Spec`.

`Mutante...` definitions are changed forms of an action, each the way a plausible
mistake would change it. No specification uses them: replacing the action by one
of them makes TLC find the property it is paired with in `PROJECT.json` violated,
which shows that the property depends on that line of the code.

## 3. What the runs check

Runs that pass:

| configuration | properties | what it shows |
|---|---|---|
| `ChargeControl` | `PermisoCargaDurable`, `AjustesDurables`, `PermisoSeguro`, `CargaVuelveBajoRestart` | between frames the charge permission in flash is that in RAM; limits typed by the user are saved when the page returns; an evaluation nobody disturbed leaves no permission against a limit; a charge that was withdrawn comes back only below its restart limit, restarts included |
| `BmsLink` | `DetectaSilencio`, `SinFalsaAlarma`, `Recupera`, `ImplementaAlarma` | the alarm comes in at most ten seconds of silence, needs three unanswered requests or noise, ends with its cause; refinement of `AlarmaSilencio` |
| `PermissionFeed` | `Parado`, `AtrasoAcotado`, `ConcedeTrasEvaluar`, `SilencioPara`, `SigueAlBms` | after a frame built in the alarm the inverter stays stopped while the alarm is up; before it come no more frames than the queue of the driver holds and one; later permissions are fresh, silence stops it for good, and it ends with what steady frames decide |
| `LimitFeed` | `LimitesAlDia`, `PropioNoSePierde`, `NoQuedaCrudo` | no BMS value stays where a ramp or the user's voltage belongs, in RAM or in the inverter |
| `CanBus` | `RespuestaAcotada`, `CicloAcotado`, `ElTiempoPasa` | deadlines for requests (HV) and cycles (LV) from the moment the configuration stands, full queues and lost frames included; no branch spins without letting time pass |
| `Rampas` | `EntreReglas`, `Proporcional`, `NoSube` | over unordered and equal scales, the current is between those of the rules; over ordered tables it is the proportional one, and falls where they fall |
| `Telemetria` | `LecturaLV`, `LecturaHV`, `Extremos`, `MismasAlarmas` | what the inverter decodes is what was measured, the charge voltage of 0x351 and 0x4220 included; each alarm both protocols name is raised by both, under its own bits, exactly when it was measured; with one of them the state is idle; the request to force a charge follows the emergency flag and nothing else |
| `CellFeed` | `ResumenCoherente`, `CeldasAlDia` | after a parse the summary is that of one frame; a steady battery is reported exactly |
| `TramaJk` | `SoloTramas`, `EnteraVale` | what is queued was sent whole, and what is sent whole on a quiet line passes |
| `Arranque` | `ArranqueAcotado`, `PerroSinFalsos`, `CanSegunDriver`, `RedGuardada`, `RedConservada` | the tasks run a bounded time after the last outside event; the watchdog cuts no start and bites only when all feeders hang; the flag of the CAN is that of this run's driver; the network a user gave is what the restart finds, and is forgotten only for the three reasons the code has |
| `ClienteMqtt` | `AjustesEnteros`, `ApagadoCorta`, `SesionSegunAjustes` | the settings at rest are those of one form, port included; MQTT off ends every session, that of an attempt under way too; sessions end up with the broker and topic of the settings |

Every module has a type invariant, `TypeOK` (`CapturaTypeOK`, `CeldasTypeOK` and
`MqttTypeOK` where the module shares its proofs); those of `ChargeControl` and `BmsLink`
are in their runs, for the counters that can leave their range.

`SoloTramas` has one exception, `SumaCero`, that the code really has: a truncated
frame whose sum is a multiple of 65536 passes, because the checksum is then read
from the erased part of the buffer.

One run TLC finds violated, a statement of the repository that the code does not
keep (`findings` in `PROJECT.json` quotes it): `ChargeControlDescarga`, a withdrawn
discharge is not saved (`DescargaVuelveSobreRestart`).

Other places where code and documents disagree, seen while modelling and left to the
reader, without a run:

- between two writes of the parser the current limit of the BMS itself can be sent
  (`jk_bms_485.cpp:366`), where the README promises the proportional one;
- 0x4260 carries the voltage modulo 65.536 V (`pylonHV_can.cpp:265`); `LecturaHV`
  says where it still holds;
- the watchdog bites after 90 s and not the 30 s of the comment: the divider is 240
  (`main.cpp:315-316`);
- a network that is not there within 20 s of a start is forgotten for good
  (`main.cpp:228`); `RedConservada` has it as one of its exceptions;
- the controller is never taken out of bus-off (no `twai_initiate_recovery`);
- the handler of InfluxDB writes the broker of MQTT: the address it is given, and the
  port of a parameter its form does not have (`PortalWeb.cpp:199-202`). The form is
  commented out of `data/principal.html`, the route is not (`PortalWeb.cpp:768`);
- bit 3 of the MOS word is "battery dropped state 1=normal 0=offline" in the comment
  (`jk_bms_485.cpp:331`), but the code stores it as `emergencia` (339) and requests a
  forced charge in 0x4250 with it (`pylonHV_can.cpp:182-183`), next to the idle state
  of an alarm too (byte 0x0B); `MismasAlarmas` says when the request is made;
- the settings of MQTT are only used when the session breaks, and a restart in the
  middle of a page leaves half of two brokers, or a new SSID with the old password;
- the callbacks of MQTT are registered once more every 3 s without a session
  (`tareas.cpp:489`);
- `resetModule` prints and waits in an interrupt handler (`main.cpp:87`), and
  `tareas.cpp:169` prints a number with `%s`;
- the alarm takes 10 s and not the 6 s of `tareas.cpp:90` (`DetectaSilencio` and
  `AlarmaSilencio` have the real bounds);
- a frame of permissions can straddle the end of the alarm, and after a restart
  those of flash are sent before the BMS spoke (`pylon_can.cpp:156-158`); what holds
  all the same is `Parado` and `ConcedeTrasEvaluar`;
- 0x42A carries the errors of 0x429 (`tareas.cpp:443, 454`), and 0x731 to 0x734
  measures instead of versions (`tareas.cpp:458-471`);
- LV cycles follow each other without the second of `include/pylon_can.h:4`;
- past the cycles of its life a battery has a SOH of 255 % (`jk_bms_485.cpp:187`);
- the voltage alarms of the whole battery set no bit of 0x359 (`pylon_can.cpp:23-24`,
  `include/pylon_can.h:33-34`), though 0x4250 has them;
- 0x4230 can carry a highest voltage below the lowest (`pylonHV_can.cpp:130`).

### Bounds, and why they are enough

- `ChargeControl`: five frames, two forms and a button threshold of 1 instead of
  5. Each rule compares one value with one limit; the frames and forms
  put every rule on both sides of its limit and let two rules disagree. A handler
  holds at most one form, so more forms add values and no new order of steps.
- `BmsLink`: the periods (3 s, 2 s) and the threshold (4) of the code; the counter
  turns at 6 instead of 65535, which is past the threshold like the real one, and
  silence is counted to 14 s, past every deadline. Two restarts: a restart only
  carries the saved alarm, which has two values.
- `PermissionFeed`: one restart, to any permissions, and a driver that holds one
  frame instead of five, which with the frame under construction already makes two
  frames of different ages. The proofs take any number of restarts and any queue.
- `LimitFeed`: two voltages beside zero, to tell the old from the new.
- `CanBus`: a queue of 2 instead of 10, one message in the driver, one save of the
  page, one arrival every two ticks at most; the second of rest is 3 ticks instead
  of 10, the sleep of a receiver that finds CAN off 2 instead of 3, and a frame that
  cannot be sent blocks 1 tick instead of 3. The bounds
  `CotaHV` and `CotaLV` are formulas in these constants that the run reaches
  exactly; a queue of 2 already fills, and drops. The proofs take any of these sizes.
- `Rampas`: five values of scale give strictly ordered tables, and every tie,
  repetition and disorder `getIndexLimit` has to cope with; two values of current
  give steps up, down and level. The proof takes any number.
- `Telemetria`: the boundaries of every branch and word (-40, 0, 100 degrees; the
  extremes of 15 and 16 bits; cycles around each life; each alarm alone, pairs). The
  proofs take any measures in range.
- `CellFeed`: three cells at two voltages: ties, both orders, and a cell that is
  neither extreme. The proof takes any number of both.
- `Arranque`: formatting takes 10 s; the other delays are those of the code. The
  proofs take any format of up to 65 s, the longest for which the 90 s of the
  watchdog suffice. Power cuts and users are not counted: the clock `desde` starts
  again with each.
- `ClienteMqtt`: two brokers that differ in every member, and whose ports differ in
  both bytes, so that a port half cleared is neither; restarts, saves and breaks as
  often as they like. The proofs take any brokers.
- `TramaJk`: four data words of two values and sums modulo 16. A word stands for
  two bytes; at most one word after the length is corrupted. The proofs take any
  length, values and modulus.

### Fairness

Weak fairness of a task's steps stands for the FreeRTOS scheduler, which runs
every ready task (round robin inside a priority; the tasks above it block).
`Segundo` and `Tick` are fair because time passes. What is not fair anywhere: the
user, the button, restarts, noise, and whether the BMS answers. Beyond that:

- `BmsLink` assumes that a healthy line delivers the answer to a request; `Recupera`
  is only about a line that is eventually healthy.
- `PermissionFeed` and `LimitFeed` assume that a frame offered to the driver again
  and again is delivered some time (strong fairness of `Entrega`): the bus may lose
  frames but not all of them. The sender is weakly fair, which in LV rests on a
  pause of 100 ms on the bus (`BusConHuecos` in `CanBus`): on a bus without pauses
  `tareas.cpp:254` never leaves its loop. The inverter keeps asking; under LV its
  requests are thrown away. After the reset button CAN is off until somebody
  configures it again, which `PermissionFeed` takes to happen.
- `CellFeed` assumes the same of its requests.
- `ClienteMqtt` assumes the page's and the task's steps, and that an attempt of the
  library ends one way or the other. That the session breaks again and again is a
  premise of `SesionSegunAjustes`, not fairness: a session that never breaks keeps
  the old broker.

## 4. What is proved

With TLAPS, for every value of the constants that satisfies the named `ASSUME`s:

- `ChargeControlProofs`: `TipoCorrecto`, and `CargaDurable` (`PermisoCargaDurable`).
  The invariant is not inductive: `DurableInv` says where a difference between RAM
  and flash can still come from, that is, at which points of the parser, the
  portal and the reset the permission, the buffer and flash may differ. The three
  copies agree until the charge rules run; after them they differ only with
  `hayCambio` set and the charge granted.
  `LimitesDurables` (`AjustesDurables`) follows from `AjustesInv`: outside a handler
  the three copies of the limits agree, and between its put and its commit the
  buffer already has them. `SinPermisoVedado` (`PermisoSeguro`) follows from
  `SeguroInv`, what each step of an undisturbed evaluation leaves behind: first the
  two locals, then the discharge, then the charge. `CargaVuelve`
  (`CargaVuelveBajoRestart`, an action property): only `ConcedeCarga` and a restart
  turn the permission on (`QuienConcedeCarga`), the first under its own limit, and
  the second not after a withdrawal, because by `DurableInv` flash has it.
- `BmsLinkProofs`: `TipoCorrecto`; `RelojCorrecto`, the clock invariant that ties
  `silencio` to `contador` and to the wait of the parser (below the threshold,
  silence is exactly the waits counted plus the one under way); `SilencioDetectado`
  (`DetectaSilencio`) and `AlarmaImplementada` (the refinement of
  `AlarmaSilencio`, one step per action) follow from it. They need
  `PlazosPositivos`, `ContadorCabe` and `CotaBasta`.
  `AlarmaConMotivo` (`SinFalsaAlarma`, an action property) needs a second account,
  of the request task (`TurnosInv`, `TurnosContados`): without noise a frame is in
  the queue one second after its request, and a silence is no longer than the
  turns lost, the one pending and the time since the last one. The alarm needs
  `PlazoAlarma` seconds of silence (`RelojInv`), which is more than three periods
  (`TresTurnos`; 10 s and 3 s in the code), so three turns were lost. With a
  period as long as a third of the deadline the property is false.
- `PermissionFeedProofs`: `TipoCorrecto`; `Avisos`: a frame begun in an alarm which
  is still up allows nothing, nor do the newest frames of the queue, those begun in
  it (`MarcaInv`, `ColaInv`), and what a delivered one leaves. Then `SiempreParado`
  (`Parado`) and, with `EvaluaInv`, `SoloTrasEvaluar` (`ConcedeTrasEvaluar`).
  `RetrasoAcotado` (`AtrasoAcotado`): the late frames delivered, those of the queue
  begun before the alarm and the one under construction never exceed the queue and
  one (`RetrasoInv`).
- `RampasProofs`: lemmas about the least and the greatest index, about truncated
  division and about one interpolation, then `AmperiosEntreReglas`: for every table
  with scales below 65536 and currents below 32768 (`ReglasCaben`) and every value
  below 65536 the current lies between those of two rules, so it never wraps.
  `CorrienteProporcional` (`Proporcional`, `NoSube`) rests on `Calculado`: once the
  current is written it is `Amperios` of the present value and table, for some
  earlier value of the shared `indice`. The rest is about that operator, over
  tables in order: whatever `indice` was, the indices are those of the rules around
  the value (`IndicesEntreReglas`), one interpolation is off by less than its step
  (`ErrorDeInterpolacion`) and does not rise where its rule falls
  (`InterpolacionBaja`), and two rules meet at their border (`CorrienteBaja`).
- `LimitFeedProofs`: `TipoCorrecto`; `AlDiaInv`, how far the parser has come with a
  frame nobody disturbed, gives `LimitesDelUsuario` (`LimitesAlDia`), and
  `PropioInv`, that the voltage of the BMS is in force only while the parser is on
  its way, gives `PropioSeConserva` (`PropioNoSePierde`).
- `ArranqueProofs`: `TipoCorrecto`; `CanInv` ties the flag in RAM to the driver from
  `setupCanbus` on, whoever saves (`CanDelDriver`); `Orden` and `Iguales`
  say which stages can run together and when the copies agree; with them `PaginaInv`
  gives `RedDeLaPagina` (`RedGuardada`), and `RedInv` `RedNoSePierde`
  (`RedConservada`, an action property); `Gasto` bounds the timer of the watchdog by
  what `setup()` spent since it was armed and `VigilanciaInv` says that only a hang of
  all feeders lets it run out later (`PerroJusto`); `Resta` and `CuentaInv` say that
  the time since the last event and the longest way that is left never exceed the
  limit (`LlegaATiempo`). The last two assume `Formateo <= 65`: with a longer format the
  watchdog does cut the start.
  Of `ClienteMqtt`, for any set of brokers (`BrokersAssumption`): `MqttTipoCorrecto`,
  and `AjustesEnterosSiempre` (`AjustesEnteros`). While the page is at work the struct
  is half of a form, as far as it has got (`AMedias`, one disjunct per assignment);
  `MqttInv` carries that through the put and the commit. The address may spoil the
  port because the port comes after it; the parser may save the half, because the page
  saves again; and only a restart that cuts the page is forgiven.
- `CanBusProofs`: `TipoCorrecto` (with `Esperas`: no wait is longer than the
  statement that began it asks for) and `EsperasAcotadas` (`RespuestaAcotada`,
  `CicloAcotado`), for every size of the queues, every time a frame may block and
  every pause. The invariant adds to the time that went by the longest time still to
  come, counted from the statement the sender is at: `sinCiclo + RestaLV` never
  exceeds `CotaLV` (`PlazoLV`), and for the request that is followed `edad`,
  `RestaHV` and one answer for each request ahead of it never exceed `CotaHV`
  (`PlazoHV`). Each statement lowers what is left by what it costs. `Silencio` is the
  one delicate part: the LV loop that empties the queue waits at most two ticks, one
  per message the bus can still bring before the wait is over, which needs
  `BusConHuecos`; while the receiver sleeps nothing comes out of the driver and the
  loop waits one tick at most, and a receiver that found CAN off is awake within `Sueno`
  ticks of LV being chosen (`Dormido`), so that the two ticks then begin in time. `Relojes`
  and `UnoSeguido` say when the two clocks stand and that one request is followed at a
  time. The bounds are the least: with the constants of the run TLC reaches both
  `CotaLV` and `CotaHV`.
- `LecturaProofs`, on the way from the bytes of the BMS to the words of the inverter.
  - `TramaJk`: `SoloTramasSiempre` (`SoloTramas`), `EnteraValeSiempre` (`EnteraVale`)
    and `CapturaTipos`, for every length of a frame, every data and every modulus. The
    inductive invariant, `CapturaInv`, says that what is in the line, and then in the
    buffer over nothing but zeros, came in one of the ways there are (`Llegada`):
    the erase at the end of every turn is what keeps it. What passes the two checks is
    then a question about each way. A foreign sequence fails the header
    (`OtraNoPasa`), a whole frame passes (`EnteraPasa`), an element that was read
    wrong changes the sum unless it is the filling (`AlteradaPasa`), and a frame cut
    short is compared with the zero behind it (`CortadaPasa`): the exception that
    `SumaCero` names.
  - `CellFeed`: `ResumenCoherenteSiempre` (`ResumenCoherente`) and
    `CeldasTiposSiempre`, for any number of cells and any voltages of 16 bits. The
    property only speaks of the parser at rest; `Resumen` has what it has got to at each
    of its statements. There is a first cell with the highest and with the lowest voltage
    (`MayorEs`, `MenorEs`), a sum of `N` voltages is between `N` times its bounds
    (`SumaEntre`), so the average is between them (`MediaEntre`), and the difference
    does not wrap (`RestaDe16`).
  - `Telemetria`: `LecturasFieles` (`LecturaLV`, `LecturaHV`) and
    `TramasConcuerdan` (`Extremos`, `MismasAlarmas`), for every set of measures within
    `Rangos`, what the words of the BMS can carry. The invariant is short: the struct is
    the parse of the measure (`Parseado`), and the frames are those of the struct and
    the error (`Enviado`); what the four properties need is in the lemmas about the
    words. A word of 16 bits gives back what fits in it (`VueltaDe16`), the temperature
    and the current survive the BMS's own coding (`TemperaturaLeida`,
    `CorrienteLeida`), and tenths are cut towards zero with their sign
    (`DecimasDeAmperio`). Which alarm has which bit is said once for each protocol
    (`BitsDeLV`, `BitsDeHV`), and `EstadoYPeticion` takes the byte of the state apart:
    idle with any alarm but the low capacity, and the request above it.

  The sums of the first two are recursive functions over a sequence. What is said of
  them is shown by the least counterexample: sets of numbers have a least element
  (`MenorNatural`, from the well-founded order of finite sets by inclusion), so a set
  that has 0 and the successor of each of its numbers has them all (`HastaN`); with it a
  recursive function exists (`Recursiva`) and is the one that `SumaDe` and `Suma`
  choose (`SumaDeEs`, `SumaEs`).

Only model-checked, and why: liveness, which needs fairness and ENABLED: `Recupera`,
`SilencioPara`, `SigueAlBms`, `NoQuedaCrudo`, `ElTiempoPasa`, `CeldasAlDia`,
`ApagadoCorta`, `SesionSegunAjustes`. Every other property of a passing run is a
theorem.

The proofs treat `Reinicio`, the interleavings and the sizes of the sets without a
bound.

## 5. Abstractions

- The copy of the struct that `put` makes, and the comparison of one rule, are one
  step: another task could interleave with the bytes of the copy.
- The EEPROM and TWAI libraries, the BMS, the inverter and the line are modelled
  from how the code uses them and marked external. The transmit queue of the driver
  is modelled where the age of a frame matters, in `PermissionFeed`; in the other
  modules a frame is delivered or lost at once.
- A save that `setup()` makes while nobody else runs is one step: a power cut between
  its put and its commit is one before both. In `ClienteMqtt` so are the saves of
  the parser, and `configuracionInicial` with the restart that follows it. In `BmsLink`
  `configuracionInicial` is one step too (`Inicial`), of which only the flag of the
  alarm and that of the link matter there; `ChargeControl` splits it.
- In `TramaJk` the length word is never read wrong: the one word that is comes after it.
  The code looks for the checksum at the offset that length gives
  (`jk_bms_485.cpp:101-105`), which with a wrong length could lie beyond the 512 bytes
  of the buffer; that read is not met in the model.
- A heap that cannot hold the queues or the mutex, and one that the library of MQTT
  fills, are left out.
- `xMutex` is taken by one task only and never contended, so it is left out.
- 11 and 29 bit identifiers, and the two spellings of each HV frame, are one.
- `dispositivoCAN` is true: without a CAN controller the sender only waits.
- The debug prints are left out, except for the pause after them (`TerminaLV`).
- What `PermissionFeed` finds saved after a restart is any permission and alarm:
  which save comes when is the question of `ChargeControl`.
- Reads of members of a struct happen in the order of the program text.
- The parser is one step in `Telemetria`, whose question is arithmetic; its order
  matters in `LimitFeed`, `CellFeed` and `PermissionFeed`, where it is split.
- `Rampas` computes with unbounded integers where the code uses a `long` of 32
  bits: within `ReglasCaben` (currents below 3276.8 A) the product of a difference
  of scales and one of currents is below 2^31, so it fits. A portal form can hold
  a larger current; the product could then overflow, which is left out.

## 6. Not modelled

The messages MQTT publishes (a copy of the state), its credentials and its commands
(only logged), the LED, JSON and debug printing, the pages and templates, OTA (a
library), the vendored Modbus client (never started), `crearTramaEscritura` (no
caller), the constant frames 0x35E and 0x7310-0x7340. Of the portal, the handlers
whose members no modelled task reads are one action that saves. One handler is left
out although a modelled task does read what it writes: `salvarinfluxdb`
(`PortalWeb.cpp:189-218`) assigns `ipmqtt` and `portmqtt` and saves. No page offers its
form, so a user cannot reach it from the portal; a request made some other way would
break `AjustesEnteros`, which is about the form of MQTT alone.

## 7. Plan

Done, in this order: `Configuracion` and `ChargeControl`, `BmsLink` with
`AlarmaSilencio`, `PermissionFeed`, `LimitFeed`, `CanBus`, `Rampas`, `Telemetria`,
`CellFeed`, `TramaJk`; then `Persistencia`, `Arranque`, `ClienteMqtt` and the queue of
the driver; proofs of `ChargeControl`, `BmsLink`, `PermissionFeed`, `LimitFeed`,
`Rampas` and `Arranque`; then `CanBus`, `Telemetria`, the proportional current of
`Rampas`, the false alarm of `BmsLink` and the restart of the charge; then the frames
of `TramaJk`, the summary of `CellFeed` and the settings of `ClienteMqtt`.

Next: a composition of link, evaluation and feed on one clock, for the seconds from
the last answer of the BMS to the stop of the inverter. `BmsLink` has the seconds to the
alarm and `PermissionFeed` the frames from the alarm to the stop.
