--------------------------- MODULE ChargeControl ---------------------------
(***************************************************************************)
(* Who may charge and discharge, and what a restart makes of it.           *)
(*                                                                         *)
(* Three tasks share `configuracion' without a lock:                       *)
(*  - the parser, which after every BMS frame runs controlCargaDescarga    *)
(*    (tareas.cpp): it grants or withdraws the two permissions by the SOC  *)
(*    and voltage limits, and saves when `hayCambio';                      *)
(*  - the web server, whose handlers overwrite the limits field by field   *)
(*    and save (PortalWeb.cpp);                                            *)
(*  - the reset button task, which restores the defaults, saves and        *)
(*    restarts.                                                            *)
(* The chip may lose power or be reset by its watchdog between any two     *)
(* steps.  A step of a task is one `if' of controlCargaDescarga, one       *)
(* assignment of a handler, one put or one commit.                         *)
(***************************************************************************)
EXTENDS Configuracion, Sequences

CONSTANTS
  Tramas,        \* the BMS frames: [soc, voltaje, carga, descarga]
  Formularios,   \* what the SOC limits page may submit
  UmbralReset    \* polls of the pressed button before the reset; the code: 5

Trama == [soc : Nat, voltaje : Nat, carga : BOOLEAN, descarga : BOOLEAN]

Casillas == {"stopCargaPorVoltaje", "stopDescargaPorVoltaje"}

\* A form has a value for some of the numeric fields, and names the check
\* boxes that came checked.
EsFormulario(f) ==
  /\ DOMAIN f.valor \subseteq CamposBateria \ Casillas
  /\ \A c \in DOMAIN f.valor : f.valor[c] \in Nat
  /\ f.marcado \subseteq Casillas

ASSUME TramasSonTramas == Tramas \subseteq Trama
ASSUME FormulariosSonFormularios == \A f \in Formularios : EsFormulario(f)
ASSUME UmbralResetEsNatural == UmbralReset \in Nat

\* An assignment to a member of Bateria that a handler has still to make.
Asignacion == CamposBateria \X Nat

VARIABLES
  pcP,        \* the parser: which statement of controlCargaDescarga is next
  trama,      \* jk_bms_battery_info, as the last frame left it
  cargar,     \* locals of controlCargaDescarga
  descargar,
  hayCambio,
  pcW,        \* the web server task
  pendW,      \* assignments the running handler has still to make
  pcR,        \* the reset button task
  pendR,      \* assignments configuracionInicial has still to make
  pulsado,    \* `contador' of the reset task: polls that found it pressed
  \* Auxiliary: no limit was written since the parser received the frame of
  \* its last evaluation.  FALSE after a restart, until a frame arrives.
  fresco

locales == <<trama, cargar, descargar, hayCambio>>
webVars == <<pcW, pendW>>
resetVars == <<pcR, pendR, pulsado>>
vars == <<cfgVars, pcP, locales, webVars, resetVars, fresco>>

TramaNula == [soc |-> 0, voltaje |-> 0, carga |-> FALSE, descarga |-> FALSE]

TareasInit ==
  /\ pcP = "espera"
  /\ trama = TramaNula
  /\ cargar = TRUE /\ descargar = TRUE /\ hayCambio = FALSE
  /\ pcW = "espera" /\ pendW = <<>>
  /\ pcR = "sondea" /\ pendR = <<>> /\ pulsado = 0
  /\ fresco = FALSE

Init == ConfigInit /\ TareasInit

----------------------------------------------------------------------------
(* The parser task. *)

Pasa(de, a) == pcP = de /\ pcP' = a

\* A frame arrives and is parsed; controlCargaDescarga starts.
Recibe ==
  /\ Pasa("espera", "voltajeCarga")
  /\ trama' \in Tramas
  /\ fresco' = TRUE
  /\ UNCHANGED <<cfgVars, cargar, descargar, hayCambio, webVars, resetVars>>

MiraVoltajeCarga ==
  /\ Pasa("voltajeCarga", "voltajeDescarga")
  /\ cargar' = ~(/\ cfg.bateria["stopCargaPorVoltaje"] = 1
                 /\ trama.voltaje >= cfg.bateria["voltajeStopCarga"])
  /\ UNCHANGED <<cfgVars, trama, descargar, hayCambio, webVars, resetVars, fresco>>

MiraVoltajeDescarga ==
  /\ Pasa("voltajeDescarga", "concedeDescarga")
  /\ descargar' = ~(/\ cfg.bateria["stopDescargaPorVoltaje"] = 1
                    /\ trama.voltaje <= cfg.bateria["voltajeStopDescarga"])
  /\ UNCHANGED <<cfgVars, trama, cargar, hayCambio, webVars, resetVars, fresco>>

\* The four rules: an `if' that fires assigns `hayCambio', and so forgets
\* what an earlier one found.
ConcedeDescarga ==
  /\ Pasa("concedeDescarga", "retiraDescarga")
  /\ IF /\ trama.soc > cfg.bateria["soc_max_restart_descarga"]
        /\ trama.descarga /\ descargar
     THEN /\ hayCambio' = ~cfg.habilitarDescarga
          /\ cfg' = [cfg EXCEPT !.habilitarDescarga = TRUE]
     ELSE UNCHANGED <<hayCambio, cfg>>
  /\ UNCHANGED <<buf, flash, abierta, trama, cargar, descargar, webVars, resetVars, fresco>>

RetiraDescarga ==
  /\ Pasa("retiraDescarga", "concedeCarga")
  /\ IF \/ trama.soc <= cfg.bateria["soc_min_stop_descarga"]
        \/ ~trama.descarga \/ ~descargar
     THEN /\ hayCambio' = cfg.habilitarDescarga
          /\ cfg' = [cfg EXCEPT !.habilitarDescarga = FALSE]
     ELSE UNCHANGED <<hayCambio, cfg>>
  /\ UNCHANGED <<buf, flash, abierta, trama, cargar, descargar, webVars, resetVars, fresco>>

\* Mutant: the charge restarts under the stop limit, not the restart limit.
MutanteConcedeCarga ==
  /\ Pasa("concedeCarga", "retiraCarga")
  /\ IF /\ trama.soc < cfg.bateria["soc_max_stop_carga"]
        /\ trama.carga /\ cargar
     THEN /\ hayCambio' = ~cfg.habilitarCarga
          /\ cfg' = [cfg EXCEPT !.habilitarCarga = TRUE]
     ELSE UNCHANGED <<hayCambio, cfg>>
  /\ UNCHANGED <<buf, flash, abierta, trama, cargar, descargar, webVars, resetVars, fresco>>

ConcedeCarga ==
  /\ Pasa("concedeCarga", "retiraCarga")
  /\ IF /\ trama.soc < cfg.bateria["soc_min_restart_carga"]
        /\ trama.carga /\ cargar
     THEN /\ hayCambio' = ~cfg.habilitarCarga
          /\ cfg' = [cfg EXCEPT !.habilitarCarga = TRUE]
     ELSE UNCHANGED <<hayCambio, cfg>>
  /\ UNCHANGED <<buf, flash, abierta, trama, cargar, descargar, webVars, resetVars, fresco>>

\* Mutant: the test of the old value is copied from the granting rule.
MutanteCambioRetiraCarga ==
  /\ Pasa("retiraCarga", "decide")
  /\ IF \/ trama.soc >= cfg.bateria["soc_max_stop_carga"]
        \/ ~trama.carga \/ ~cargar
     THEN /\ hayCambio' = ~cfg.habilitarCarga
          /\ cfg' = [cfg EXCEPT !.habilitarCarga = FALSE]
     ELSE UNCHANGED <<hayCambio, cfg>>
  /\ UNCHANGED <<buf, flash, abierta, trama, cargar, descargar, webVars, resetVars, fresco>>

\* Mutant: the stop voltage keeps the charge from starting but not from going on.
MutanteVoltajeRetiraCarga ==
  /\ Pasa("retiraCarga", "decide")
  /\ IF trama.soc >= cfg.bateria["soc_max_stop_carga"] \/ ~trama.carga
     THEN /\ hayCambio' = cfg.habilitarCarga
          /\ cfg' = [cfg EXCEPT !.habilitarCarga = FALSE]
     ELSE UNCHANGED <<hayCambio, cfg>>
  /\ UNCHANGED <<buf, flash, abierta, trama, cargar, descargar, webVars, resetVars, fresco>>

RetiraCarga ==
  /\ Pasa("retiraCarga", "decide")
  /\ IF \/ trama.soc >= cfg.bateria["soc_max_stop_carga"]
        \/ ~trama.carga \/ ~cargar
     THEN /\ hayCambio' = cfg.habilitarCarga
          /\ cfg' = [cfg EXCEPT !.habilitarCarga = FALSE]
     ELSE UNCHANGED <<hayCambio, cfg>>
  /\ UNCHANGED <<buf, flash, abierta, trama, cargar, descargar, webVars, resetVars, fresco>>

\* The locals die with the call.
FinControl ==
  /\ pcP' = "espera"
  /\ cargar' = TRUE /\ descargar' = TRUE /\ hayCambio' = FALSE

\* if(hayCambio) configuracionSalvarEEPROM();
Decide ==
  /\ pcP = "decide"
  /\ IF hayCambio THEN /\ pcP' = "put"
                       /\ UNCHANGED <<cargar, descargar, hayCambio>>
                  ELSE FinControl
  /\ UNCHANGED <<cfgVars, trama, webVars, resetVars, fresco>>

PutParser ==
  /\ Pasa("put", "commit")
  /\ Put
  /\ UNCHANGED <<locales, webVars, resetVars, fresco>>

CommitParser ==
  /\ pcP = "commit"
  /\ Commit
  /\ FinControl
  /\ UNCHANGED <<trama, webVars, resetVars, fresco>>

Parser ==
  \/ Recibe \/ MiraVoltajeCarga \/ MiraVoltajeDescarga
  \/ ConcedeDescarga \/ RetiraDescarga \/ ConcedeCarga \/ RetiraCarga
  \/ Decide \/ PutParser \/ CommitParser
----------------------------------------------------------------------------
(* The web server task: one handler at a time. *)

\* Width of the member a form value is stored in: uint8_t or uint16_t.
Ancho(c) == IF c \in LimitesSOC THEN 256 ELSE 65536

SiViene(f, c) ==
  IF c \in DOMAIN f.valor THEN << <<c, f.valor[c] % Ancho(c)>> >> ELSE <<>>

\* A check box is cleared first and set again if it came checked.
Casilla(f, c) ==
  << <<c, 0>> >> \o (IF c \in f.marcado THEN << <<c, 1>> >> ELSE <<>>)

\* The assignments of salvarlimitesSOC, in its order.
AsignacionesLimitesSOC(f) ==
  SiViene(f, "soc_max_stop_carga") \o SiViene(f, "soc_min_restart_carga")
  \o SiViene(f, "soc_max_restart_descarga") \o SiViene(f, "soc_min_stop_descarga")
  \o Casilla(f, "stopCargaPorVoltaje") \o SiViene(f, "voltajeStopCarga")
  \o Casilla(f, "stopDescargaPorVoltaje") \o SiViene(f, "voltajeStopDescarga")

salvarlimitesSOC ==
  /\ pcW = "espera" /\ pcW' = "put"
  /\ \E f \in Formularios : pendW' = AsignacionesLimitesSOC(f)
  /\ UNCHANGED <<cfgVars, pcP, locales, resetVars, fresco>>

\* The other handlers write members that are not of this module, and save.
salvarOtroAjuste ==
  /\ pcW = "espera" /\ pcW' = "put"
  /\ UNCHANGED <<cfgVars, pcP, locales, pendW, resetVars, fresco>>

\* New credentials: save, close the library, and restart half a second later.
salvarWiFi ==
  /\ pcW = "espera" /\ pcW' = "putWiFi"
  /\ UNCHANGED <<cfgVars, pcP, locales, pendW, resetVars, fresco>>

\* The next assignment of a handler, or of configuracionInicial.
Asigna(pend) ==
  /\ pend # <<>>
  /\ cfg' = [cfg EXCEPT !.bateria[Head(pend)[1]] = Head(pend)[2]]
  /\ fresco' = FALSE
  /\ UNCHANGED <<buf, flash, abierta>>

AsignaWeb ==
  /\ Asigna(pendW)
  /\ pendW' = Tail(pendW)
  /\ UNCHANGED <<pcP, locales, pcW, resetVars>>

\* Mutant: the handler saves before it has assigned every field.
MutantePutWeb ==
  /\ \/ pcW = "put" /\ pcW' = "commit"
     \/ pcW = "putWiFi" /\ pcW' = "commitWiFi"
  /\ Put
  /\ UNCHANGED <<pcP, locales, pendW, resetVars, fresco>>

PutWeb ==
  /\ pendW = <<>>
  /\ \/ pcW = "put" /\ pcW' = "commit"
     \/ pcW = "putWiFi" /\ pcW' = "commitWiFi"
  /\ Put
  /\ UNCHANGED <<pcP, locales, pendW, resetVars, fresco>>

CommitWeb ==
  /\ \/ pcW = "commit" /\ pcW' = "espera"
     \/ pcW = "commitWiFi" /\ pcW' = "end"
  /\ Commit
  /\ UNCHANGED <<pcP, locales, pendW, resetVars, fresco>>

EndWeb ==
  /\ pcW = "end" /\ pcW' = "restart"
  /\ CierraEEPROM
  /\ UNCHANGED <<pcP, locales, pendW, resetVars, fresco>>

Web == \/ salvarlimitesSOC \/ salvarOtroAjuste \/ salvarWiFi
       \/ AsignaWeb \/ PutWeb \/ CommitWeb \/ EndWeb

----------------------------------------------------------------------------
(* The reset button task. *)

\* Mutant: the counter is not cleared when the reset starts.
MutantePulsaReset ==
  /\ pcR = "sondea"
  /\ pulsado' = pulsado + 1
  /\ pcR' = IF pulsado >= UmbralReset THEN "carga" ELSE pcR
  /\ UNCHANGED <<cfgVars, pcP, locales, webVars, pendR, fresco>>

\* A poll finds the button pressed.  The counter is not cleared when it is
\* released, so that a poll that finds it released changes nothing.
PulsaReset ==
  /\ pcR = "sondea"
  /\ IF pulsado >= UmbralReset
     THEN pulsado' = 0 /\ pcR' = "carga"
     ELSE pulsado' = pulsado + 1 /\ pcR' = pcR
  /\ UNCHANGED <<cfgVars, pcP, locales, webVars, pendR, fresco>>

\* configuracionInicial: the permissions, the limits, put and commit.
InicialCarga ==
  /\ pcR = "carga" /\ pcR' = "descarga"
  /\ cfg' = [cfg EXCEPT !.habilitarCarga = FALSE]
  /\ UNCHANGED <<buf, flash, abierta, pcP, locales, webVars, pendR, pulsado, fresco>>

InicialDescarga ==
  /\ pcR = "descarga" /\ pcR' = "put"
  /\ cfg' = [cfg EXCEPT !.habilitarDescarga = FALSE]
  /\ pendR' = AsignacionesIniciales
  /\ UNCHANGED <<buf, flash, abierta, pcP, locales, webVars, pulsado, fresco>>

AsignaReset ==
  /\ Asigna(pendR)
  /\ pendR' = Tail(pendR)
  /\ UNCHANGED <<pcP, locales, webVars, pcR, pulsado>>

PutReset ==
  /\ pendR = <<>>
  /\ pcR = "put" /\ pcR' = "commit"
  /\ Put
  /\ UNCHANGED <<pcP, locales, webVars, pendR, pulsado, fresco>>

CommitReset ==
  /\ pcR = "commit" /\ pcR' = "restart"
  /\ Commit
  /\ UNCHANGED <<pcP, locales, webVars, pendR, pulsado, fresco>>

Reset == \/ PulsaReset \/ InicialCarga \/ InicialDescarga
         \/ AsignaReset \/ PutReset \/ CommitReset

----------------------------------------------------------------------------
\* ESP.restart() of a handler or of the reset task, the watchdog, or a power
\* cut: every task starts again and setup() reads the configuration back.
Reinicio ==
  /\ configuracionLeerEEPROM
  /\ pcP' = "espera"
  /\ trama' = TramaNula
  /\ cargar' = TRUE /\ descargar' = TRUE /\ hayCambio' = FALSE
  /\ pcW' = "espera" /\ pendW' = <<>>
  /\ pcR' = "sondea" /\ pendR' = <<>> /\ pulsado' = 0
  /\ fresco' = FALSE

Next == Parser \/ Web \/ Reset \/ Reinicio

Spec == Init /\ [][Next]_vars
----------------------------------------------------------------------------
(* Properties. *)

TypeOK ==
  /\ cfg \in Config /\ buf \in Config /\ flash \in Config
  /\ abierta \in BOOLEAN
  /\ pcP \in {"espera", "voltajeCarga", "voltajeDescarga", "concedeDescarga",
              "retiraDescarga", "concedeCarga", "retiraCarga", "decide",
              "put", "commit"}
  /\ trama \in Trama
  /\ cargar \in BOOLEAN /\ descargar \in BOOLEAN /\ hayCambio \in BOOLEAN
  /\ pcW \in {"espera", "put", "commit", "putWiFi", "commitWiFi", "end", "restart"}
  /\ pendW \in Seq(Asignacion)
  /\ pcR \in {"sondea", "carga", "descarga", "put", "commit", "restart"}
  /\ pendR \in Seq(Asignacion)
  /\ pulsado \in 0 .. UmbralReset
  /\ fresco \in BOOLEAN

\* The parser is between two frames, the button is not resetting, and the
\* library takes what is saved.
EnReposo == pcP = "espera" /\ pcR = "sondea" /\ abierta

\* Between two frames the charge permission in flash is the one in RAM,
\* whatever the web server saves meanwhile: controlCargaDescarga saves every
\* change of habilitarCarga (tareas.cpp:544-556).
PermisoCargaDurable ==
  EnReposo => flash.habilitarCarga = cfg.habilitarCarga

\* What the page of the SOC limits saved is what a restart reads back: with
\* no handler and no reset under way the limits in flash are those in RAM,
\* although the parser saves the whole struct in the middle of a handler.
AjustesDurables ==
  (pcW = "espera" /\ pcR = "sondea" /\ abierta) => flash.bateria = cfg.bateria

\* The conditions under which the documentation of the limits wants the
\* charge, or the discharge, stopped.
ParaCarga ==
  \/ trama.soc >= cfg.bateria["soc_max_stop_carga"]
  \/ ~trama.carga
  \/ /\ cfg.bateria["stopCargaPorVoltaje"] = 1
     /\ trama.voltaje >= cfg.bateria["voltajeStopCarga"]

ParaDescarga ==
  \/ trama.soc <= cfg.bateria["soc_min_stop_descarga"]
  \/ ~trama.descarga
  \/ /\ cfg.bateria["stopDescargaPorVoltaje"] = 1
     /\ trama.voltaje <= cfg.bateria["voltajeStopDescarga"]

\* After an evaluation that no handler disturbed no permission stands against
\* a stop limit, however badly the limits are ordered (a restart limit above
\* the stop limit) and whatever the permissions were before.
PermisoSeguro ==
  (pcP = "espera" /\ fresco) =>
     /\ cfg.habilitarCarga => ~ParaCarga
     /\ cfg.habilitarDescarga => ~ParaDescarga

\* A change of the permissions is on its way to flash, or cannot get there.
GuardadoEnCurso ==
  pcP \in {"decide", "put", "commit"} \/ pcR # "sondea" \/ ~abierta

\* Hysteresis across restarts: a charge that was withdrawn comes back only
\* with a frame whose SOC is under soc_min_restart_carga.  A restart at any
\* point does not bring it back, unless it cuts the save of the withdrawal.
CargaVuelveBajoRestart ==
  [][ (~cfg.habilitarCarga /\ cfg'.habilitarCarga /\ ~GuardadoEnCurso)
      => trama.soc < cfg.bateria["soc_min_restart_carga"] ]_vars

\* The same of the discharge between two frames, which the label "Restart
\* descarga SOC" (data/principal.html:226) promises to the user.  It does NOT
\* hold: the charge rules overwrite hayCambio (tareas.cpp:545,550), and the
\* withdrawal is never saved.
DescargaVuelveSobreRestart ==
  [][ (EnReposo /\ ~cfg.habilitarDescarga /\ cfg'.habilitarDescarga)
      => trama.soc > cfg.bateria["soc_max_restart_descarga"] ]_vars
=============================================================================
