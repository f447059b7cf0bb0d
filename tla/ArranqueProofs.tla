--------------------------- MODULE ArranqueProofs ---------------------------
(***************************************************************************)
(* Theorems about the configuration: what of it survives, and what the     *)
(* start of the firmware does with it, for every Formateo; and the         *)
(* settings of MQTT, for any brokers.                                      *)
(***************************************************************************)
EXTENDS Arranque, ClienteMqtt, TLAPS

USE FormateoEsNatural

\* Who is where keeps to the values of each actor.
LEMMA PcPaso == ASSUME TypeOK, [Next]_vars PROVE TipoPc'
<1>. USE DEF TipoPc, Paso, Actores, Etapas, EtapasSetup, EtapasWeb, EtapasOtro, EtapasReset
<1>0. TipoPc
  BY DEF TypeOK
<1>1. CASE Setup
  BY <1>0, <1>1 DEF Setup, FallaEEPROM, LeeConfiguracion, OtraVersion, PonVersion,
    MismaVersion, ArmaPerro, FallaSPIFFS, MontaSPIFFS, wifiModeAp, wifiModeStation,
    EncuentraRed, PierdeRed, IniciaWeb, setupCanbus, PutCanbus, setupTareasYColas, PasoSetup
<1>2. CASE Web
  BY <1>0, <1>2 DEF Web, SalvarSsid, SalvarPass, SalvarConf, PutWeb, CommitWeb, EndWeb
<1>3. CASE Otro \/ Reset
  BY <1>0, <1>3 DEF Otro, Reset
<1>4. CASE Restart \/ Muerde \/ CorteDeLuz
  BY <1>0, <1>4 DEF Restart, Muerde, CorteDeLuz, Apaga, Apagados
<1>5. CASE Alimenta \/ Cuelga \/ Sigue \/ Segundo \/ UNCHANGED vars
  BY <1>0, <1>5 DEF Alimenta, Cuelga, Sigue, Segundo, vars
<1>. QED
  BY <1>1, <1>2, <1>3, <1>4, <1>5 DEF Next

\* The copies of the configuration keep to its members.
LEMMA CopiasPaso == ASSUME TypeOK, [Next]_vars PROVE TipoCopias'
<1>. USE DEF TipoCopias, Config, Put, Commit, cfgVars
<1>0. TipoCopias
  BY DEF TypeOK
<1>1. CASE Setup
  <2>1. CASE OtraVersion
    BY <1>0, <2>1 DEF OtraVersion, Salva
  <2>2. CASE PonVersion
    BY <1>0, <2>2 DEF PonVersion, Salva
  <2>3. CASE wifiModeAp \/ EncuentraRed
    BY <1>0, <2>3 DEF wifiModeAp, EncuentraRed, Salva
  <2>4. CASE PierdeRed
    BY <1>0, <2>4 DEF PierdeRed
  <2>5. CASE setupCanbus
    BY <1>0, <2>5 DEF setupCanbus
  <2>6. CASE FallaEEPROM \/ LeeConfiguracion \/ MismaVersion \/ ArmaPerro \/ FallaSPIFFS
             \/ MontaSPIFFS \/ wifiModeStation \/ IniciaWeb \/ PutCanbus \/ setupTareasYColas
    BY <1>0, <2>6 DEF FallaEEPROM, LeeConfiguracion, MismaVersion, ArmaPerro, FallaSPIFFS,
      MontaSPIFFS, wifiModeStation, IniciaWeb, PutCanbus, setupTareasYColas,
      configuracionLeerEEPROM
  <2>. QED
    BY <1>1, <2>1, <2>2, <2>3, <2>4, <2>5, <2>6 DEF Setup
<1>2. CASE Web
  BY <1>0, <1>2 DEF Web, SalvarSsid, SalvarPass, SalvarConf, PutWeb, CommitWeb, EndWeb,
    CierraEEPROM, fueraVars
<1>3. CASE Otro \/ Reset
  BY <1>0, <1>3 DEF Otro, Reset, fueraVars
<1>4. CASE Restart \/ Muerde \/ CorteDeLuz
  BY <1>0, <1>4 DEF Restart, Muerde, CorteDeLuz, Apaga
<1>5. CASE Alimenta \/ Cuelga \/ Sigue \/ Segundo \/ UNCHANGED vars
  BY <1>0, <1>5 DEF Alimenta, Cuelga, Sigue, Segundo, vars
<1>. QED
  BY <1>1, <1>2, <1>3, <1>4, <1>5 DEF Next

\* The divider makes the 30 s of main.cpp:315 ninety.
LEMMA Perro == SegundosPerro = 90
BY DEF SegundosPerro

\* The clocks are numbers, and that of the watchdog stops at its alarm.
LEMMA RelojPaso == ASSUME TypeOK, [Next]_vars PROVE TipoReloj'
<1>. USE Perro DEF TipoReloj
<1>0. TipoReloj
  BY DEF TypeOK
<1>1. CASE Setup
  BY <1>0, <1>1 DEF Setup, FallaEEPROM, LeeConfiguracion, OtraVersion, PonVersion,
    MismaVersion, ArmaPerro, FallaSPIFFS, MontaSPIFFS, wifiModeAp, wifiModeStation,
    EncuentraRed, PierdeRed, IniciaWeb, setupCanbus, PutCanbus, setupTareasYColas,
    PasoSetup, SegundosBusqueda
<1>2. CASE Web
  BY <1>0, <1>2 DEF Web, fueraVars
<1>3. CASE Otro \/ Reset
  BY <1>0, <1>3 DEF Otro, Reset, fueraVars
<1>4. CASE Restart \/ Muerde \/ CorteDeLuz
  BY <1>0, <1>4 DEF Restart, Muerde, CorteDeLuz, Apaga
<1>5. CASE Segundo
  BY <1>0, <1>5 DEF Segundo
<1>6. CASE Alimenta \/ Cuelga \/ Sigue \/ UNCHANGED vars
  BY <1>0, <1>6 DEF Alimenta, Cuelga, Sigue, vars
<1>. QED
  BY <1>1, <1>2, <1>3, <1>4, <1>5, <1>6 DEF Next

\* Type correctness of Arranque.
THEOREM TipoCorrecto == Spec => []TypeOK
<1>1. Init => TypeOK
  <2>. SUFFICES ASSUME Init PROVE TypeOK
    OBVIOUS
  <2>1. TipoPc
    BY DEF Init, TipoPc, Apagados, Actores, Etapas, EtapasSetup, EtapasWeb, EtapasOtro, EtapasReset
  <2>2. TipoCopias
    BY DEF Init, TipoCopias
  <2>3. TipoReloj
    BY Perro DEF Init, TipoReloj
  <2>. QED
    BY <2>1, <2>2, <2>3 DEF TypeOK
<1>2. TypeOK /\ [Next]_vars => TypeOK'
  BY PcPaso, CopiasPaso, RelojPaso DEF TypeOK
<1>. QED
  BY <1>1, <1>2, PTL DEF Spec

----------------------------------------------------------------------------
(* Who may write, and what the copies hold while nobody else does. *)

\* The others start once the web server serves, the button once the tasks
\* run, and only a way out closes the library.
Orden ==
  /\ pc["web"] # "espera" => Sirve
  /\ pc["otro"] # "espera" => Sirve
  /\ pc["reset"] # "sondea" => Tareas
  /\ abierta \/ pc["setup"] \in {"eeprom", "restart"} \/ pc["web"] = "restart"

SoloSetup == {"version", "ponVersion", "arma", "spiffs", "wifi", "busca", "web"}

\* Until then the three copies agree, and from `arma' on the version is this one.
Iguales ==
  pc["setup"] \in SoloSetup =>
    /\ cfg = flash /\ buf = flash
    /\ pc["setup"] \in {"version", "ponVersion"} \/ flash.version = "esta"
    /\ pc["setup"] = "ponVersion" => ~flash.wifiConfigured

\* The flag of the driver is only written by setupCanbus and the button.
CanInv ==
  (pc["setup"] \in {"put", "commit", "tareas"} /\ pc["reset"] = "sondea")
    => cfg.dispositivoCAN = driver

DeLaPagina(c) == c.wifiConfigured /\ c.red = "enviada"

\* How far the network of the page has come, in the struct and its copies.
PaginaInv ==
  pc["reset"] = "sondea" =>
    /\ pc["web"] = "conf" => cfg.red = "enviada"
    /\ pc["web"] \in {"put", "commit", "end", "restart"} => DeLaPagina(cfg)
    /\ pc["web"] \in {"commit", "end", "restart"} => DeLaPagina(buf)
    /\ pc["web"] \in {"end", "restart"} => DeLaPagina(flash)

\* While several tasks save, a network that flash has is in the other copies.
RedInv ==
  (Sirve /\ pc["reset"] = "sondea") =>
    /\ flash.wifiConfigured => buf.wifiConfigured
    /\ buf.wifiConfigured => cfg.wifiConfigured

GuardaInv == Orden /\ Iguales /\ CanInv /\ PaginaInv /\ RedInv

\* setup() keeps the order of the stages and what they saved.
LEMMA GuardaSetup == ASSUME TypeOK, GuardaInv, Setup PROVE GuardaInv'
<1>. USE DEF TypeOK, TipoPc, TipoCopias, Config, Actores, Paso, PasoSetup, Put, Commit, cfgVars,
       GuardaInv, Orden, Iguales, SoloSetup, CanInv, PaginaInv, RedInv, DeLaPagina, Sirve,
       Tareas, Salva
<1>1. CASE FallaEEPROM
  BY <1>1 DEF FallaEEPROM
<1>2. CASE LeeConfiguracion
  BY <1>2 DEF LeeConfiguracion, configuracionLeerEEPROM
<1>3. CASE OtraVersion
  BY <1>3 DEF OtraVersion
<1>4. CASE PonVersion
  BY <1>4 DEF PonVersion
<1>5. CASE MismaVersion
  BY <1>5 DEF MismaVersion
<1>6. CASE ArmaPerro \/ FallaSPIFFS \/ MontaSPIFFS
  BY <1>6 DEF ArmaPerro, FallaSPIFFS, MontaSPIFFS
<1>7. CASE wifiModeAp
  BY <1>7 DEF wifiModeAp
<1>8. CASE wifiModeStation
  BY <1>8 DEF wifiModeStation
<1>9. CASE EncuentraRed
  BY <1>9 DEF EncuentraRed
<1>10. CASE PierdeRed
  BY <1>10 DEF PierdeRed
<1>11. CASE IniciaWeb
  BY <1>11 DEF IniciaWeb
<1>12. CASE setupCanbus
  BY <1>12 DEF setupCanbus
<1>13. CASE PutCanbus
  BY <1>13 DEF PutCanbus
<1>14. CASE setupTareasYColas
  BY <1>14 DEF setupTareasYColas
<1>. QED
  BY <1>1, <1>2, <1>3, <1>4, <1>5, <1>6, <1>7, <1>8, <1>9, <1>10, <1>11, <1>12, <1>13, <1>14
  DEF Setup

\* So do the page of the WiFi, the other saves and the button.
LEMMA GuardaOtros == ASSUME TypeOK, GuardaInv, Web \/ Otro \/ Reset PROVE GuardaInv'
<1>. USE DEF TypeOK, TipoPc, TipoCopias, Config, Actores, Paso, Put, Commit, cfgVars, fueraVars,
       GuardaInv, Orden, Iguales, SoloSetup, CanInv, PaginaInv, RedInv, DeLaPagina, Sirve, Tareas
<1>1. CASE Web
  <2>0. UNCHANGED fueraVars
    BY <1>1 DEF Web
  <2>1. CASE SalvarSsid \/ SalvarPass
    BY <2>0, <2>1 DEF SalvarSsid, SalvarPass
  <2>2. CASE SalvarConf
    BY <2>0, <2>2 DEF SalvarConf
  <2>3. CASE PutWeb
    BY <2>0, <2>3 DEF PutWeb
  <2>4. CASE CommitWeb
    BY <2>0, <2>4 DEF CommitWeb
  <2>5. CASE EndWeb
    BY <2>0, <2>5 DEF EndWeb, CierraEEPROM
  <2>. QED
    BY <1>1, <2>1, <2>2, <2>3, <2>4, <2>5 DEF Web
<1>2. CASE Otro
  BY <1>2 DEF Otro
<1>3. CASE Reset
  BY <1>3 DEF Reset
<1>. QED
  BY <1>1, <1>2, <1>3

\* So does every step.
LEMMA GuardaPaso == ASSUME TypeOK, GuardaInv, [Next]_vars PROVE GuardaInv'
<1>1. CASE Setup
  BY <1>1, GuardaSetup
<1>2. CASE Web \/ Otro \/ Reset
  BY <1>2, GuardaOtros
<1>3. CASE Restart \/ Muerde \/ CorteDeLuz
  BY <1>3 DEF Restart, Muerde, CorteDeLuz, Apaga, Apagados, GuardaInv, Orden, Iguales, SoloSetup,
    CanInv, PaginaInv, RedInv, Sirve, Tareas
<1>4. CASE Alimenta \/ Cuelga \/ Sigue \/ Segundo \/ UNCHANGED vars
  BY <1>4 DEF Alimenta, Cuelga, Sigue, Segundo, vars, cfgVars, GuardaInv, Orden, Iguales,
    SoloSetup, CanInv, PaginaInv, RedInv, DeLaPagina, Sirve, Tareas
<1>. QED
  BY <1>1, <1>2, <1>3, <1>4 DEF Next

\* The order of the stages and what they saved hold always.
LEMMA Guarda == Spec => [](TypeOK /\ GuardaInv)
<1>1. Init => GuardaInv
  BY DEF Init, Apagados, GuardaInv, Orden, Iguales, SoloSetup, CanInv, PaginaInv, RedInv, Sirve,
    Tareas
<1>2. TypeOK /\ GuardaInv /\ [Next]_vars => GuardaInv'
  BY GuardaPaso
<1>. QED
  BY <1>1, <1>2, TipoCorrecto, PTL DEF Spec

\* The tasks see the flag of the driver of this run: setupCanbus writes it
\* after the handlers may save, and every save leaves it alone.
THEOREM CanDelDriver == Spec => []CanSegunDriver
<1>1. GuardaInv => CanSegunDriver
  BY DEF GuardaInv, CanInv, CanSegunDriver, Tareas
<1>. QED
  BY <1>1, Guarda, PTL

\* The page of the WiFi restarts with its network in flash.
THEOREM RedDeLaPagina == Spec => []RedGuardada
<1>1. GuardaInv => RedGuardada
  BY DEF GuardaInv, PaginaInv, DeLaPagina, RedGuardada
<1>. QED
  BY <1>1, Guarda, PTL

\* A network is only forgotten by a vain search, another version or the button.
THEOREM RedNoSePierde == Spec => RedConservada
<1>. DEFINE A == flash.wifiConfigured /\ ~flash'.wifiConfigured
                   => \/ pc["setup"] = "busca" /\ falta = 0
                      \/ flash.version = "otra"
                      \/ pc["reset"] # "sondea"
<1>1. ASSUME TypeOK, GuardaInv, [Next]_vars PROVE A
  <2>. SUFFICES ASSUME flash.wifiConfigured, flash'.wifiConfigured = FALSE
                PROVE \/ pc["setup"] = "busca" /\ falta = 0
                      \/ flash.version = "otra"
                      \/ pc["reset"] # "sondea"
    <3>1. TipoCopias'
      BY <1>1, CopiasPaso
    <3>. QED
      BY <3>1 DEF TipoCopias, Config
  <2>. USE <1>1 DEF TypeOK, TipoPc, TipoCopias, Config, GuardaInv, Orden, Iguales, SoloSetup,
         RedInv, Sirve, Tareas, Paso, PasoSetup, Put, Commit, cfgVars
  <2>1. CASE Setup
    <3>1. CASE OtraVersion
      BY <3>1 DEF OtraVersion, Salva
    <3>2. CASE PonVersion
      BY <3>2 DEF PonVersion, Salva
    <3>3. CASE wifiModeAp
      BY <3>3 DEF wifiModeAp, Salva
    <3>4. CASE EncuentraRed
      BY <3>4 DEF EncuentraRed, Salva
    <3>5. CASE PierdeRed
      BY <3>5 DEF PierdeRed
    <3>6. CASE setupTareasYColas
      BY <3>6 DEF setupTareasYColas
    <3>7. CASE FallaEEPROM \/ LeeConfiguracion \/ MismaVersion \/ ArmaPerro \/ FallaSPIFFS
               \/ MontaSPIFFS \/ wifiModeStation \/ IniciaWeb \/ setupCanbus \/ PutCanbus
      BY <3>7 DEF FallaEEPROM, LeeConfiguracion, MismaVersion, ArmaPerro, FallaSPIFFS, MontaSPIFFS,
        wifiModeStation, IniciaWeb, setupCanbus, PutCanbus, configuracionLeerEEPROM
    <3>. QED
      BY <2>1, <3>1, <3>2, <3>3, <3>4, <3>5, <3>6, <3>7 DEF Setup
  <2>2. CASE Web \/ Otro \/ Reset
    <3>1. flash' \in {flash, buf}
      BY <2>2 DEF Web, SalvarSsid, SalvarPass, SalvarConf, PutWeb, CommitWeb, EndWeb, CierraEEPROM,
        Otro, Reset
    <3>2. flash' = flash \/ pc["web"] # "espera" \/ pc["otro"] # "espera" \/ pc["reset"] # "sondea"
      BY <2>2 DEF Web, SalvarSsid, SalvarPass, SalvarConf, PutWeb, CommitWeb, EndWeb, CierraEEPROM,
        Otro, Reset
    <3>. QED
      BY <3>1, <3>2
  <2>3. CASE Restart \/ Muerde \/ CorteDeLuz
    BY <2>3 DEF Restart, Muerde, CorteDeLuz, Apaga
  <2>4. CASE Alimenta \/ Cuelga \/ Sigue \/ Segundo \/ UNCHANGED vars
    BY <2>4 DEF Alimenta, Cuelga, Sigue, Segundo, vars
  <2>. QED
    BY <1>1, <2>1, <2>2, <2>3, <2>4 DEF Next
<1>. QED
  BY <1>1, Guarda, PTL DEF Spec, RedConservada

----------------------------------------------------------------------------
(* The watchdog and the length of a start. *)

\* At most this is on the timer of the watchdog, with what is left of the
\* delay, where setup() is.
Gasto ==
  /\ ~Armado => perro = 0
  /\ pc["setup"] \in {"spiffs", "wifi"} => perro + falta <= Formateo
  /\ pc["setup"] = "busca" => perro + falta <= Formateo + 21
  /\ pc["setup"] = "web" => perro + falta <= Formateo + 22
  /\ pc["setup"] \in {"can", "put", "commit"} => perro + falta <= Formateo + 23
  /\ pc["setup"] = "restart" => perro + falta <= Formateo + 24

\* Once the tasks run only a hang of all the feeders lets it come to its end.
VigilanciaInv ==
  /\ Tareas => falta = 0
  /\ (Tareas /\ colgados # Alimentadores) => perro < 90
  /\ ~Armado => falta <= 3

PerroInv == Gasto /\ VigilanciaInv

\* setup() spends less than the watchdog has.
LEMMA PerroSetup == ASSUME TypeOK, PerroInv, Formateo <= 65, Setup PROVE PerroInv'
<1>. USE Perro DEF TypeOK, TipoPc, TipoReloj, Actores, Paso, PasoSetup, PerroInv, Gasto,
       VigilanciaInv, Tareas, Armado, SegundosBusqueda
<1>1. CASE FallaEEPROM
  BY <1>1 DEF FallaEEPROM
<1>2. CASE LeeConfiguracion
  BY <1>2 DEF LeeConfiguracion
<1>3. CASE OtraVersion
  BY <1>3 DEF OtraVersion
<1>4. CASE PonVersion
  BY <1>4 DEF PonVersion
<1>5. CASE MismaVersion
  BY <1>5 DEF MismaVersion
<1>6. CASE ArmaPerro
  BY <1>6 DEF ArmaPerro
<1>7. CASE FallaSPIFFS \/ MontaSPIFFS
  BY <1>7 DEF FallaSPIFFS, MontaSPIFFS
<1>8. CASE wifiModeAp
  BY <1>8 DEF wifiModeAp
<1>9. CASE wifiModeStation
  BY <1>9 DEF wifiModeStation
<1>10. CASE EncuentraRed
  BY <1>10 DEF EncuentraRed
<1>11. CASE PierdeRed
  BY <1>11 DEF PierdeRed
<1>12. CASE IniciaWeb
  BY <1>12 DEF IniciaWeb
<1>13. CASE setupCanbus \/ PutCanbus \/ setupTareasYColas
  BY <1>13 DEF setupCanbus, PutCanbus, setupTareasYColas
<1>. QED
  BY <1>1, <1>2, <1>3, <1>4, <1>5, <1>6, <1>7, <1>8, <1>9, <1>10, <1>11, <1>12, <1>13 DEF Setup

\* So does every step.
LEMMA PerroPaso ==
  ASSUME TypeOK, PerroInv, Formateo <= 65, [Next]_vars PROVE PerroInv'
<1>. USE Perro DEF TypeOK, TipoPc, TipoReloj, Actores, PerroInv, Gasto, VigilanciaInv,
       Tareas, Armado
<1>1. CASE Setup
  BY <1>1, PerroSetup
<1>2. CASE Web \/ Otro \/ Reset
  <2>1. UNCHANGED fueraVars /\ pc'["setup"] = pc["setup"]
    BY <1>2 DEF Web, SalvarSsid, SalvarPass, SalvarConf, PutWeb, CommitWeb, EndWeb, Otro, Reset,
      Paso
  <2>. QED
    BY <2>1 DEF fueraVars
<1>3. CASE Restart \/ Muerde \/ CorteDeLuz
  BY <1>3 DEF Restart, Muerde, CorteDeLuz, Apaga, Apagados
<1>4. CASE Segundo
  <2>1. CASE Tareas
    <3>1. ASSUME colgados # Alimentadores PROVE perro + 1 < 90
      <4>1. PICK t \in Alimentadores \ colgados : TRUE
        BY <3>1
      <4>2. perro < Periodo[t] /\ Periodo[t] \in 1 .. 4
        BY <1>4, <2>1, <4>1 DEF Segundo, Alimentadores, Periodo
      <4>. QED
        BY <4>2
    <3>2. UNCHANGED <<pc, colgados>> /\ perro' = perro + 1 /\ falta' = 0
      BY <1>4, <2>1 DEF Segundo
    <3>. QED
      BY <2>1, <3>1, <3>2
  <2>2. CASE ~Tareas
    BY <1>4, <2>2 DEF Segundo
  <2>. QED
    BY <2>1, <2>2
<1>5. CASE Alimenta
  BY <1>5 DEF Alimenta
<1>6. CASE Cuelga \/ Sigue
  BY <1>6 DEF Cuelga, Sigue
<1>7. CASE UNCHANGED vars
  BY <1>7 DEF vars
<1>. QED
  BY <1>1, <1>2, <1>3, <1>4, <1>5, <1>6, <1>7 DEF Next

\* What setup() spent, and who feeds the watchdog, hold always.
LEMMA Vigilancia == ASSUME Formateo <= 65 PROVE Spec => [](TypeOK /\ PerroInv)
<1>1. Init => PerroInv
  BY DEF Init, Apagados, PerroInv, Gasto, VigilanciaInv, Armado, Tareas
<1>2. TypeOK /\ PerroInv /\ [Next]_vars => PerroInv'
  BY PerroPaso
<1>. QED
  BY <1>1, <1>2, TipoCorrecto, PTL DEF Spec

\* Within them the watchdog has no reason to bite but a hang of all.
LEMMA SinFalsos == ASSUME TypeOK, PerroInv, Formateo <= 65 PROVE PerroSinFalsos
BY Perro DEF TypeOK, TipoPc, TipoReloj, EtapasSetup, PerroInv, Gasto, VigilanciaInv,
  Tareas, Armado, PerroSinFalsos

\* While a format takes at most 65 s the watchdog cuts no start, and later it
\* bites only when the three tasks and loop() all hang.
THEOREM PerroJusto == ASSUME Formateo <= 65 PROVE Spec => []PerroSinFalsos
BY Vigilancia, SinFalsos, PTL

\* The longest way to the tasks from a flash that holds c: that of another
\* version is initialised first, and a network is searched in vain.
Vuelta(c) ==
  IF c.version = "otra" THEN Formateo + 6
  ELSE IF c.wifiConfigured THEN 2 * Formateo + 28 ELSE Formateo + 3

\* What is left of it, from where setup() is.
Resta ==
  /\ pc["setup"] = "eeprom" => desde + Vuelta(flash) <= LimiteArranque
  /\ pc["setup"] = "version" => desde + falta + Vuelta(flash) <= LimiteArranque
  /\ pc["setup"] = "ponVersion" => desde + falta + Formateo + 6 <= LimiteArranque
  /\ pc["setup"] = "restart" => desde + falta + Vuelta(flash) <= LimiteArranque
  /\ pc["setup"] = "arma" =>
       desde + falta + (IF flash.wifiConfigured THEN 2 * Formateo + 27 ELSE Formateo + 2)
         <= LimiteArranque
  /\ pc["setup"] \in {"spiffs", "wifi"} =>
       desde + falta + (IF flash.wifiConfigured THEN Formateo + 27 ELSE 2) <= LimiteArranque
  /\ pc["setup"] = "busca" => desde + falta + Formateo + 6 <= LimiteArranque
  /\ pc["setup"] = "web" => desde + falta + 1 <= LimiteArranque
  /\ pc["setup"] \in {"can", "put", "commit"} => desde + falta <= LimiteArranque

\* Who interrupts setup() has just acted, and nothing is counted later.
CuentaInv ==
  /\ Tareas => desde = 0
  /\ (pc["web"] # "espera" /\ ~Tareas) => desde + falta <= 1
  /\ pc["setup"] \in {"can", "put", "commit"} => falta <= 1
  /\ pc["setup"] = "eeprom" => falta = 0

PlazoInv == Resta /\ CuentaInv

\* The bound of a start, as a formula in the length of a format.
LEMMA Limite == LimiteArranque = 2 * Formateo + 31
BY DEF LimiteArranque, SegundosBusqueda

\* What a restart has before it, from whatever flash holds.
LEMMA VueltaAcotada == ASSUME NEW c PROVE Vuelta(c) \in Nat /\ Vuelta(c) <= 2 * Formateo + 28
BY DEF Vuelta

\* A stage of setup() takes no more than is left of the longest way.
LEMMA PlazoSetup == ASSUME TypeOK, GuardaInv, PlazoInv, Setup PROVE PlazoInv'
<1>. USE Limite DEF TypeOK, TipoPc, TipoCopias, TipoReloj, Config, Actores, Paso, PasoSetup,
       GuardaInv, Orden, Iguales, SoloSetup, Sirve, Tareas, PlazoInv, Resta, CuentaInv,
       SegundosBusqueda, Salva, cfgVars, Put, Commit
<1>1. CASE FallaEEPROM \/ FallaSPIFFS
  BY <1>1, VueltaAcotada DEF FallaEEPROM, FallaSPIFFS
<1>2. CASE LeeConfiguracion
  BY <1>2 DEF LeeConfiguracion, configuracionLeerEEPROM, Vuelta
<1>3. CASE OtraVersion
  BY <1>3 DEF OtraVersion, Vuelta
<1>4. CASE PonVersion
  BY <1>4 DEF PonVersion, Vuelta
<1>5. CASE MismaVersion
  BY <1>5 DEF MismaVersion, Vuelta
<1>6. CASE ArmaPerro
  BY <1>6 DEF ArmaPerro
<1>7. CASE MontaSPIFFS
  BY <1>7 DEF MontaSPIFFS
<1>8. CASE wifiModeAp
  BY <1>8 DEF wifiModeAp
<1>9. CASE wifiModeStation
  BY <1>9 DEF wifiModeStation
<1>10. CASE EncuentraRed
  BY <1>10 DEF EncuentraRed
<1>11. CASE PierdeRed
  BY <1>11 DEF PierdeRed, Vuelta
<1>12. CASE IniciaWeb
  BY <1>12 DEF IniciaWeb
<1>13. CASE setupCanbus \/ PutCanbus \/ setupTareasYColas
  BY <1>13 DEF setupCanbus, PutCanbus, setupTareasYColas
<1>. QED
  BY <1>1, <1>2, <1>3, <1>4, <1>5, <1>6, <1>7, <1>8, <1>9, <1>10, <1>11, <1>12, <1>13 DEF Setup

\* Nor does any other step.
LEMMA PlazoPaso ==
  ASSUME TypeOK, GuardaInv, PerroInv, PlazoInv, Formateo <= 65, [Next]_vars PROVE PlazoInv'
<1>. USE Limite DEF TypeOK, TipoPc, TipoReloj, Actores, EtapasSetup, GuardaInv, Orden, Sirve,
       Tareas, PlazoInv, Resta, CuentaInv
<1>1. CASE Setup
  BY <1>1, PlazoSetup
<1>2. CASE Web
  <2>1. desde' = 0 /\ falta' = falta /\ pc'["setup"] = pc["setup"]
    BY <1>2 DEF Web, SalvarSsid, SalvarPass, SalvarConf, PutWeb, CommitWeb, EndWeb, Paso, fueraVars
  <2>2. Sirve
    BY <1>2 DEF Web, SalvarSsid, SalvarPass, SalvarConf, PutWeb, CommitWeb, EndWeb, Paso
  <2>. QED
    BY <2>1, <2>2
<1>3. CASE Otro \/ Reset
  <2>1. UNCHANGED <<falta, desde>> /\ pc'["setup"] = pc["setup"] /\ pc'["web"] = pc["web"]
    BY <1>3 DEF Otro, Reset, Paso, fueraVars
  <2>2. Sirve
    BY <1>3 DEF Otro, Reset, Paso
  <2>. QED
    BY <2>1, <2>2
<1>4. CASE Restart
  <2>1. desde + Vuelta(flash) <= LimiteArranque
    BY <1>4, VueltaAcotada DEF Restart
  <2>. QED
    BY <1>4, <2>1 DEF Restart, Apaga, Apagados, cfgVars, Vuelta
<1>5. CASE Muerde
  <2>1. Tareas
    BY <1>5, SinFalsos DEF Muerde, PerroSinFalsos
  <2>. QED
    BY <1>5, <2>1, VueltaAcotada DEF Muerde, Apaga, Apagados, cfgVars
<1>6. CASE CorteDeLuz
  BY <1>6, VueltaAcotada DEF CorteDeLuz, Apaga, Apagados
<1>7. CASE Segundo
  BY <1>7, VueltaAcotada DEF Segundo, cfgVars
<1>8. CASE Alimenta \/ Cuelga \/ Sigue \/ UNCHANGED vars
  BY <1>8 DEF Alimenta, Cuelga, Sigue, vars, cfgVars
<1>. QED
  BY <1>1, <1>2, <1>3, <1>4, <1>5, <1>6, <1>7, <1>8 DEF Next

\* While a format takes at most 65 s, the tasks run within LimiteArranque of
\* the last outside event, whatever flash held and whether the network is there.
THEOREM LlegaATiempo == ASSUME Formateo <= 65 PROVE Spec => []ArranqueAcotado
<1>1. Init => PlazoInv
  BY Limite, VueltaAcotada DEF Init, Apagados, PlazoInv, Resta, CuentaInv, Tareas
<1>2. TypeOK /\ GuardaInv /\ PerroInv /\ PlazoInv /\ [Next]_vars => PlazoInv'
  BY PlazoPaso
<1>3. TypeOK /\ PlazoInv => ArranqueAcotado
  BY Limite, VueltaAcotada DEF TypeOK, TipoPc, TipoReloj, EtapasSetup, PlazoInv, Resta, CuentaInv,
    Tareas, ArranqueAcotado
<1>. QED
  BY <1>1, <1>2, <1>3, Guarda, Vigilancia, PTL DEF Spec
----------------------------------------------------------------------------
(* The settings of MQTT, which its page assigns member by member. *)

\* The settings, as the struct holds them.
Ajustes == [comunicarMQTT : BOOLEAN, nodo : Nodos, puerto : Puertos, tema : Nat]

\* A form writes a struct of settings.
LEMMA FormularioEs ==
  ASSUME NEW f \in Formularios
  PROVE  /\ f.marcado \in BOOLEAN
         /\ f.destino.nodo \in Nodos /\ f.destino.puerto \in Puertos /\ Tema(f.destino) \in Nat
         /\ Escrito(f) \in Ajustes
<1>1. f.marcado \in BOOLEAN /\ f.destino \in Brokers
  BY DEF Formularios
<1>2. f.destino.nodo \in Nodos /\ f.destino.puerto \in Puertos /\ f.destino.nodo \in Nat
  BY <1>1, BrokersAssumption DEF Nodos, Puertos
<1> QED BY <1>1, <1>2 DEF Tema, Escrito, Ajustes

\* A port that has lost its low byte has none to lose.
LEMMA PuertoSinByte == ASSUME NEW p \in Puertos PROVE SinByteBajo(p) \in Puertos
<1>1. CASE \E d \in Brokers : p = d.puerto
  BY <1>1 DEF Puertos
<1>2. ASSUME NEW d \in Brokers, p = SinByteBajo(d.puerto) PROVE SinByteBajo(p) \in Puertos
  <2>1. d.puerto \in Nat
    BY BrokersAssumption
  <2>2. \A q \in Nat : (q - (q % 256)) - ((q - (q % 256)) % 256) = q - (q % 256)
    BY Z3
  <2>3. SinByteBajo(p) = p
    BY <1>2, <2>1, <2>2 DEF SinByteBajo
  <2> QED BY <2>3
<1> QED BY <1>1, <1>2 DEF Puertos

\* The assignments made so far left their members so, and the rest is pending.
AMedias(f) ==
  \/ pendW = <<Desmarca, Marca, PonNodo(f), PonPuerto(f), PonTema(f)>>
       /\ f.marcado
  \/ pendW = <<Desmarca, PonNodo(f), PonPuerto(f), PonTema(f)>>
       /\ ~f.marcado
  \/ pendW = <<Marca, PonNodo(f), PonPuerto(f), PonTema(f)>> /\ f.marcado
  \/ pendW = <<PonNodo(f), PonPuerto(f), PonTema(f)>> /\ (cfg.comunicarMQTT <=> f.marcado)
  \/ pendW = <<PonPuerto(f), PonTema(f)>> /\ (cfg.comunicarMQTT <=> f.marcado)
       /\ cfg.nodo = f.destino.nodo
  \/ pendW = <<PonTema(f)>> /\ (cfg.comunicarMQTT <=> f.marcado)
       /\ cfg.nodo = f.destino.nodo /\ cfg.puerto = f.destino.puerto
  \/ pendW = <<>> /\ cfg = Escrito(f)

\* What the struct, flash and the page hold.
MqttTipos ==
  /\ abierta = TRUE /\ cfg \in Ajustes /\ flash \in Ajustes /\ ultimo \in Formularios
  /\ pcW \in {"espera", "asigna", "commit"}

\* While the page is at work the struct is half written, as far as it has got;
\* then the buffer, and then flash too, hold the whole form.
MqttInv ==
  /\ MqttTipos
  /\ pcW # "asigna" => pendW = <<>>
  /\ pcW = "asigna" => AMedias(ultimo)
  /\ pcW = "commit" => cfg = Escrito(ultimo) /\ buf = cfg
  /\ pcW = "espera" /\ entero => cfg = Escrito(ultimo) /\ flash = cfg

\* What each assignment leaves in the struct.
LEMMA MarcaPuesta ==
  ASSUME NEW c \in Ajustes, NEW x \in BOOLEAN, NEW r, r = Puesto(c, "comunicarMQTT", x)
  PROVE  r \in Ajustes /\ (r.comunicarMQTT <=> x)
BY DEF Puesto, Ajustes

\* The address takes the low byte of the port with it.
LEMMA NodoPuesto ==
  ASSUME NEW c \in Ajustes, NEW x \in Nodos, NEW r, r = Puesto(c, "nodo", x)
  PROVE  r \in Ajustes /\ (r.comunicarMQTT <=> c.comunicarMQTT) /\ r.nodo = x
<1>1. SinByteBajo(c.puerto) \in Puertos
  BY PuertoSinByte DEF Ajustes
<1> QED BY <1>1 DEF Puesto, Ajustes

\* The port comes after it, and is whole again.
LEMMA PuertoPuesto ==
  ASSUME NEW c \in Ajustes, NEW x \in Puertos, NEW r, r = Puesto(c, "puerto", x)
  PROVE  /\ r \in Ajustes /\ (r.comunicarMQTT <=> c.comunicarMQTT)
         /\ r.nodo = c.nodo /\ r.puerto = x
BY DEF Puesto, Ajustes

\* The topic leaves the others alone.
LEMMA TemaPuesto ==
  ASSUME NEW c \in Ajustes, NEW x \in Nat, NEW r, r = Puesto(c, "tema", x)
  PROVE  /\ r \in Ajustes /\ (r.comunicarMQTT <=> c.comunicarMQTT)
         /\ r.nodo = c.nodo /\ r.puerto = c.puerto /\ r.tema = x
BY DEF Puesto, Ajustes

\* The two parts of an assignment of the flag.
LEMMA MarcaEs ==
  /\ Desmarca[1] = "comunicarMQTT" /\ Desmarca[2] = FALSE
  /\ Marca[1] = "comunicarMQTT" /\ Marca[2] = TRUE
BY Zenon DEF Desmarca, Marca

\* A struct with the four members of a form is the one it writes.
LEMMA EsEscrito ==
  ASSUME NEW c \in Ajustes, NEW f \in Formularios, c.comunicarMQTT <=> f.marcado,
         c.nodo = f.destino.nodo, c.puerto = f.destino.puerto, c.tema = Tema(f.destino)
  PROVE  c = Escrito(f)
<1>1. c.comunicarMQTT = f.marcado
  BY FormularioEs DEF Ajustes
<1> QED BY <1>1 DEF Ajustes, Escrito

\* Each assignment leads from one of the halves to the next.
LEMMA AsignaPaso == ASSUME MqttInv, Asigna PROVE MqttInv'
<1>1. /\ pendW # <<>> /\ pendW' = Tail(pendW)
      /\ cfg' = Puesto(cfg, Head(pendW)[1], Head(pendW)[2])
      /\ buf' = buf /\ flash' = flash /\ abierta' = abierta /\ pcW' = pcW /\ ultimo' = ultimo
      /\ entero' = entero
  BY DEF Asigna
<1>2. pcW = "asigna" /\ AMedias(ultimo) /\ ultimo \in Formularios /\ cfg \in Ajustes
  BY <1>1 DEF MqttInv, MqttTipos
<1>3. PICK f \in Formularios : f = ultimo
  BY <1>2
<1> DEFINE n == f.destino.nodo
           p == f.destino.puerto
           t == Tema(f.destino)
<1>4. n \in Nodos /\ p \in Puertos /\ t \in Nat /\ f.marcado \in BOOLEAN
  BY FormularioEs
<1>5. SUFFICES cfg' \in Ajustes /\ AMedias(f)'
  BY <1>1, <1>2, <1>3 DEF MqttInv, MqttTipos
<1>6. CASE pendW = <<Desmarca, Marca, PonNodo(f), PonPuerto(f), PonTema(f)>>
             /\ f.marcado
  <2>1. /\ Head(pendW) = Desmarca
        /\ pendW' = <<Marca, PonNodo(f), PonPuerto(f), PonTema(f)>>
    BY <1>1, <1>6
  <2>2. cfg' = Puesto(cfg, "comunicarMQTT", FALSE)
    BY <1>1, <2>1, MarcaEs, Zenon
  <2>3. cfg' \in Ajustes
    BY <1>2, <2>2, MarcaPuesta
  <2> QED BY <1>6, <2>1, <2>3 DEF AMedias
<1>7. CASE pendW = <<Desmarca, PonNodo(f), PonPuerto(f), PonTema(f)>>
             /\ ~f.marcado
  <2>1. /\ Head(pendW) = Desmarca
        /\ pendW' = <<PonNodo(f), PonPuerto(f), PonTema(f)>>
    BY <1>1, <1>7
  <2>2. cfg' = Puesto(cfg, "comunicarMQTT", FALSE)
    BY <1>1, <2>1, MarcaEs, Zenon
  <2>3. cfg' \in Ajustes /\ ~cfg'.comunicarMQTT
    BY <1>2, <2>2, MarcaPuesta
  <2> QED BY <1>7, <2>1, <2>3 DEF AMedias
<1>8. CASE pendW = <<Marca, PonNodo(f), PonPuerto(f), PonTema(f)>> /\ f.marcado
  <2>1. /\ Head(pendW) = Marca
        /\ pendW' = <<PonNodo(f), PonPuerto(f), PonTema(f)>>
    BY <1>1, <1>8
  <2>2. cfg' = Puesto(cfg, "comunicarMQTT", TRUE)
    BY <1>1, <2>1, MarcaEs, Zenon
  <2>3. cfg' \in Ajustes /\ cfg'.comunicarMQTT
    BY <1>2, <2>2, MarcaPuesta
  <2> QED BY <1>8, <2>1, <2>3 DEF AMedias
<1>9. CASE pendW = <<PonNodo(f), PonPuerto(f), PonTema(f)>> /\ (cfg.comunicarMQTT <=> f.marcado)
  <2>1. /\ Head(pendW) = PonNodo(f)
        /\ pendW' = <<PonPuerto(f), PonTema(f)>>
    BY <1>1, <1>9
  <2>2. cfg' = Puesto(cfg, "nodo", n)
    BY <1>1, <2>1 DEF PonNodo
  <2>3. cfg' \in Ajustes /\ (cfg'.comunicarMQTT <=> cfg.comunicarMQTT) /\ cfg'.nodo = n
    <3>1. PICK c \in Ajustes, x \in Nodos, r \in {cfg'} : c = cfg /\ x = n
      BY <1>2, <1>4
    <3> QED BY <2>2, <3>1, NodoPuesto
  <2> QED BY <1>9, <2>1, <2>3 DEF AMedias
<1>10. CASE pendW = <<PonPuerto(f), PonTema(f)>> /\ (cfg.comunicarMQTT <=> f.marcado)
              /\ cfg.nodo = n
  <2>1. /\ Head(pendW) = PonPuerto(f)
        /\ pendW' = <<PonTema(f)>>
    BY <1>1, <1>10
  <2>2. cfg' = Puesto(cfg, "puerto", p)
    BY <1>1, <2>1 DEF PonPuerto
  <2>3. /\ cfg' \in Ajustes /\ (cfg'.comunicarMQTT <=> cfg.comunicarMQTT)
        /\ cfg'.nodo = cfg.nodo /\ cfg'.puerto = p
    <3>1. PICK c \in Ajustes, x \in Puertos, r \in {cfg'} : c = cfg /\ x = p
      BY <1>2, <1>4
    <3> QED BY <2>2, <3>1, PuertoPuesto
  <2> QED BY <1>10, <2>1, <2>3 DEF AMedias
<1>11. CASE pendW = <<PonTema(f)>> /\ (cfg.comunicarMQTT <=> f.marcado)
              /\ cfg.nodo = n /\ cfg.puerto = p
  <2>1. Head(pendW) = PonTema(f) /\ pendW' = <<>>
    BY <1>1, <1>11
  <2>2. cfg' = Puesto(cfg, "tema", t)
    BY <1>1, <2>1 DEF PonTema
  <2>3. /\ cfg' \in Ajustes /\ (cfg'.comunicarMQTT <=> cfg.comunicarMQTT)
        /\ cfg'.nodo = cfg.nodo /\ cfg'.puerto = cfg.puerto /\ cfg'.tema = t
    <3>1. PICK c \in Ajustes, x \in Nat, r \in {cfg'} : c = cfg /\ x = t
      BY <1>2, <1>4
    <3> QED BY <2>2, <3>1, TemaPuesto
  <2>4. (cfg'.comunicarMQTT <=> f.marcado) /\ cfg'.nodo = n /\ cfg'.puerto = p
    BY <1>11, <2>3
  <2>5. PICK c \in Ajustes : c = cfg'
    BY <2>3
  <2>6. c = Escrito(f)
    BY <2>3, <2>4, <2>5, EsEscrito
  <2> QED BY <2>1, <2>3, <2>5, <2>6 DEF AMedias
<1> QED BY <1>1, <1>2, <1>3, <1>6, <1>7, <1>8, <1>9, <1>10, <1>11 DEF AMedias

\* setup() starts from settings that were saved whole.
LEMMA MqttInvInicial == MqttInit => MqttInv
<1> SUFFICES ASSUME MqttInit PROVE MqttInv
  OBVIOUS
<1>1. ultimo \in Formularios /\ Escrito(ultimo) \in Ajustes
  BY FormularioEs DEF MqttInit
<1> QED BY <1>1 DEF MqttInit, MqttInv, MqttTipos

\* Each step keeps it: the page writes what is pending, the parser saves what
\* the struct is, and a restart that cuts the page is remembered.
LEMMA MqttInvPaso == MqttInv /\ [MqttNext]_clienteVars => MqttInv'
<1> SUFFICES ASSUME MqttInv, [MqttNext]_clienteVars PROVE MqttInv'
  OBVIOUS
<1>1. CASE salvarmqtt
  <2>1. /\ pcW = "espera" /\ pcW' = "asigna" /\ ultimo' \in Formularios
        /\ pendW' = Asignaciones(ultimo')
        /\ cfg' = cfg /\ buf' = buf /\ flash' = flash /\ abierta' = abierta /\ entero' = entero
    BY <1>1 DEF salvarmqtt, cfgVars
  <2>2. PICK f \in Formularios : f = ultimo'
    BY <2>1
  <2>3. f.marcado \in BOOLEAN
    BY FormularioEs
  <2>4. AMedias(f)'
    <3>1. CASE f.marcado
      <4>1. Asignaciones(f) = <<Desmarca, Marca, PonNodo(f), PonPuerto(f), PonTema(f)>>
        BY <3>1 DEF Asignaciones
      <4> QED BY <2>1, <2>2, <3>1, <4>1 DEF AMedias
    <3>2. CASE ~f.marcado
      <4>1. Asignaciones(f) = <<Desmarca, PonNodo(f), PonPuerto(f), PonTema(f)>>
        BY <3>2 DEF Asignaciones
      <4> QED BY <2>1, <2>2, <3>2, <4>1 DEF AMedias
    <3> QED BY <3>1, <3>2
  <2> QED BY <2>1, <2>2, <2>4 DEF MqttInv, MqttTipos
<1>2. CASE Asigna
  BY <1>2, AsignaPaso
<1>3. CASE PutMqtt
  <2>1. /\ pcW = "asigna" /\ pendW = <<>> /\ pcW' = "commit" /\ pendW' = pendW
        /\ abierta => buf' = cfg
        /\ cfg' = cfg /\ flash' = flash /\ abierta' = abierta /\ ultimo' = ultimo
        /\ entero' = entero
    BY <1>3 DEF PutMqtt, Put
  <2>2. cfg = Escrito(ultimo)
    BY <2>1 DEF MqttInv, AMedias
  <2> QED BY <2>1, <2>2 DEF MqttInv, MqttTipos
<1>4. CASE CommitMqtt
  <2>1. /\ pcW = "commit" /\ pcW' = "espera" /\ pendW' = pendW
        /\ abierta => flash' = buf
        /\ cfg' = cfg /\ buf' = buf /\ abierta' = abierta /\ ultimo' = ultimo
    BY <1>4 DEF CommitMqtt, Commit
  <2> QED BY <2>1 DEF MqttInv, MqttTipos
<1>5. CASE SalvaParser
  <2>1. /\ pcW' = pcW /\ pendW' = pendW /\ buf' = cfg /\ flash' = cfg
        /\ cfg' = cfg /\ abierta' = abierta /\ ultimo' = ultimo /\ entero' = entero
    BY <1>5 DEF SalvaParser, webVars
  <2> QED BY <2>1 DEF MqttInv, MqttTipos, AMedias
<1>6. CASE Reinicio
  <2>1. PICK c \in {flash, [cfg EXCEPT !.comunicarMQTT = FALSE]} :
          flash' = c /\ cfg' = c /\ buf' = c
    BY <1>6 DEF Reinicio
  <2>2. /\ pcW' = "espera" /\ pendW' = <<>> /\ abierta' = abierta /\ ultimo' = ultimo
        /\ entero' => entero /\ pcW = "espera" /\ flash' = flash
    BY <1>6 DEF Reinicio
  <2>3. c \in Ajustes
    BY DEF MqttInv, MqttTipos, Ajustes
  <2> QED BY <2>1, <2>2, <2>3 DEF MqttInv, MqttTipos
<1>7. CASE Tarea \/ Responde \/ Cae \/ CambiaWifi \/ UNCHANGED clienteVars
  <2>1. UNCHANGED <<cfgVars, webVars>>
    BY <1>7 DEF Tarea, Pide, LeeNodo, setServer, Conecta, Desconecta, Responde, Cae, CambiaWifi,
                clienteVars
  <2>2. /\ cfg' = cfg /\ buf' = buf /\ flash' = flash /\ abierta' = abierta
        /\ pcW' = pcW /\ pendW' = pendW /\ ultimo' = ultimo /\ entero' = entero
    BY <2>1 DEF cfgVars, webVars
  <2> QED BY <2>2 DEF MqttInv, MqttTipos, AMedias
<1> QED BY <1>1, <1>2, <1>3, <1>4, <1>5, <1>6, <1>7 DEF MqttNext, PaginaMqtt

\* So it always holds.
LEMMA MqttInvSiempre == MqttSpec => []MqttInv
BY MqttInvInicial, MqttInvPaso, PTL DEF MqttSpec

\* What the tasks of the client hold.
TareaTipos ==
  /\ pcM \in {"listo", "nodo", "puerto", "connect"}
  /\ leido \in Destino /\ destino \in Destino
  /\ sesion.estado \in {"no", "intento", "hecha"}
  /\ wifi \in BOOLEAN /\ entero \in BOOLEAN

\* Each step keeps to it: every address is read from the struct.
LEMMA TareaPaso ==
  ASSUME MqttInv, MqttInv', TareaTipos, [MqttNext]_clienteVars
  PROVE  TareaTipos'
<1>1. ASSUME NEW c \in Ajustes PROVE c.nodo \in Nodos /\ c.puerto \in Puertos /\ DestinoDe(c) \in Destino
  BY DEF Ajustes, DestinoDe, Destino
<1>2. cfg.nodo \in Nodos /\ cfg.puerto \in Puertos
  BY <1>1 DEF MqttInv, MqttTipos
<1>3. CASE PaginaMqtt \/ SalvaParser
  <2>1. UNCHANGED <<mqttVars, wifi>> /\ (entero' = entero \/ entero' = TRUE)
    BY <1>3 DEF PaginaMqtt, salvarmqtt, Asigna, PutMqtt, CommitMqtt, SalvaParser, webVars
  <2>2. entero' \in BOOLEAN
    BY <2>1 DEF TareaTipos
  <2> QED BY <2>1, <2>2 DEF TareaTipos, mqttVars
<1>4. CASE Reinicio
  <2>1. /\ pcM' = "listo" /\ sesion' = SinSesion /\ leido' = DestinoDe(cfg')
        /\ destino' = DestinoDe(cfg') /\ wifi' = wifi
        /\ entero' = (entero /\ pcW = "espera" /\ flash' = flash)
    BY <1>4 DEF Reinicio, setupMqtt
  <2>2. PICK c \in Ajustes : c = cfg'
    BY DEF MqttInv, MqttTipos
  <2>3. DestinoDe(cfg') \in Destino
    BY <1>1, <2>2
  <2>4. entero' \in BOOLEAN
    BY <2>1
  <2> QED BY <2>1, <2>3, <2>4 DEF TareaTipos, SinSesion
<1>5. CASE Tarea
  <2>1. wifi' = wifi /\ entero' = entero
    BY <1>5 DEF Tarea, Pide, LeeNodo, setServer, Conecta, Desconecta, webVars
  <2>2. pcM' \in {"listo", "nodo", "puerto", "connect"}
    BY <1>5 DEF Tarea, Pide, LeeNodo, setServer, Conecta, Desconecta, Pasa
  <2>3. leido' \in Destino /\ destino' \in Destino
    BY <1>2, <1>5 DEF Tarea, Pide, LeeNodo, setServer, Conecta, Desconecta, TareaTipos, Destino
  <2>4. sesion'.estado \in {"no", "intento", "hecha"}
    BY <1>5 DEF Tarea, Pide, LeeNodo, setServer, Conecta, Desconecta, TareaTipos, SinSesion
  <2> QED BY <2>1, <2>2, <2>3, <2>4 DEF TareaTipos
<1>6. CASE Responde \/ Cae \/ CambiaWifi \/ UNCHANGED clienteVars
  <2>1. pcM' = pcM /\ leido' = leido /\ destino' = destino /\ entero' = entero
    BY <1>6 DEF Responde, Cae, CambiaWifi, clienteVars, mqttVars, webVars
  <2>2. wifi' \in BOOLEAN
    BY <1>6 DEF Responde, Cae, CambiaWifi, clienteVars, TareaTipos
  <2>3. sesion'.estado \in {"no", "intento", "hecha"}
    BY <1>6 DEF Responde, Cae, CambiaWifi, clienteVars, mqttVars, TareaTipos, SinSesion
  <2> QED BY <2>1, <2>2, <2>3 DEF TareaTipos
<1> QED BY <1>3, <1>4, <1>5, <1>6 DEF MqttNext

\* Type correctness of ClienteMqtt: an address is always that of a broker of a
\* form, or half of one and half of another, its port perhaps without the low
\* byte.
THEOREM MqttTipoCorrecto == MqttSpec => []MqttTypeOK
<1>1. ASSUME NEW c \in Ajustes PROVE DestinoDe(c) \in Destino
  BY DEF Ajustes, DestinoDe, Destino
<1>2. MqttInit => TareaTipos
  <2> SUFFICES ASSUME MqttInit PROVE TareaTipos
    OBVIOUS
  <2>1. cfg \in Ajustes
    BY FormularioEs DEF MqttInit
  <2> QED BY <1>1, <2>1 DEF MqttInit, TareaTipos, SinSesion
<1>3. MqttInv /\ TareaTipos => MqttTypeOK
  BY <1>1 DEF MqttInv, MqttTipos, TareaTipos, MqttTypeOK
<1> QED BY <1>2, <1>3, TareaPaso, MqttInvSiempre, PTL DEF MqttSpec

\* When the page is done, RAM and flash hold just the form that was submitted,
\* whatever brokers there are: the port too, although the address overwrote its
\* low byte, and whatever the parser saved in the middle.
THEOREM AjustesEnterosSiempre == MqttSpec => []AjustesEnteros
<1>1. MqttInv => AjustesEnteros
  BY DEF MqttInv, AjustesEnteros
<1> QED BY <1>1, MqttInvSiempre, PTL
=============================================================================
