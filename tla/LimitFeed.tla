------------------------------ MODULE LimitFeed ------------------------------
(***************************************************************************)
(* What the inverter is told its limits are.                               *)
(*                                                                         *)
(* jk_bms_battery_info.battery_limits is one global struct with three      *)
(* users and no lock.  The parser writes into it what the BMS says         *)
(* (Parse_JK_Battery_485_Status_Frame) and then, in place, what the user   *)
(* wants instead: the voltages of ajustarVoltajeCargaDescarga and the      *)
(* currents of the ramps (ajustarAmperiosCargaDescarga).  The handler of   *)
(* the page of voltages writes the voltages too, and envioCAN_task reads   *)
(* the members one after the other into a frame (0x351, 0x4220).           *)
(*                                                                         *)
(* A limit is abstracted to where its value comes from.  The discharge     *)
(* voltage is left out: every statement about it follows the one about the *)
(* charge voltage.  The members of a frame travel together but nothing     *)
(* below relates two of them, so a behaviour follows one, `sigue'.  A      *)
(* restart begins a behaviour anew, with the configuration it finds        *)
(* (ChargeControl says what that is).                                      *)
(***************************************************************************)
CONSTANTS
  Voltajes   \* charge voltages the user may set, "cero" and "bms" excepted

ASSUME VoltajesPropios == Voltajes \cap {"cero", "bms"} = {}

\* battery_charge_voltage and the two current limits.
Limites == [voltaje  : {"cero", "bms"} \cup Voltajes,
            carga    : {"cero", "bms", "rampa"},
            descarga : {"cero", "bms", "rampa"}]

\* What a frame may carry of a limit.
Valores == {"cero", "bms", "rampa"} \cup Voltajes

\* A form: whether the box came checked, the charge voltage ("nada" when the
\* field is missing), and whether the discharge voltage came as zero.
Formularios == [marcado : BOOLEAN, voltaje : {"nada", "cero"} \cup Voltajes,
                descargaCero : BOOLEAN]

VARIABLES
  limites,     \* jk_bms_battery_info.battery_limits
  propio,      \* voltajesCargaDescargaConfigurados
  voltajeMax,  \* voltajeMaxCarga
  pcP,         \* the parser: its next statement
  leido,       \* the voltage ajustarVoltajeCargaDescarga is about to write
  pcW,         \* the handler salvarlimitesVoltajes: its next statement
  form,        \* its form
  sigue,       \* the limit followed on its way to the inverter
  pcS,         \* the sender: its next step
  trama,       \* that limit in the frame it builds
  inversor,    \* that limit, as the inverter was last told
  bms,         \* "responde" or "calla"
  fresco       \* auxiliary: the parser finished a frame, and the handler did
               \* nothing since it began

configVars == <<propio, voltajeMax>>
parserVars == <<pcP, leido>>
webVars == <<pcW, form>>
senderVars == <<sigue, pcS, trama, inversor>>
vars == <<limites, configVars, parserVars, webVars, senderVars, bms, fresco>>

SinLimites == [voltaje |-> "cero", carga |-> "cero", descarga |-> "cero"]
SinForm == [marcado |-> FALSE, voltaje |-> "nada", descargaCero |-> FALSE]

\* The box may be checked over a voltage of zero: the parser may save the
\* settings while the handler is half way, and a restart then finds them so.
Init ==
  /\ limites = SinLimites
  /\ propio \in BOOLEAN /\ voltajeMax \in {"cero"} \cup Voltajes
  /\ pcP = "espera" /\ leido = "cero"
  /\ pcW = "espera" /\ form = SinForm
  /\ sigue \in {"voltaje", "carga", "descarga"}
  /\ pcS = "lee" /\ trama = "cero" /\ inversor = "cero"
  /\ bms \in {"responde", "calla"}
  /\ fresco = FALSE

----------------------------------------------------------------------------
(* The parser task. *)

CambiaBms ==
  /\ bms' \in {"responde", "calla"}
  /\ UNCHANGED <<limites, configVars, parserVars, webVars, senderVars, fresco>>

\* A frame: `fresco' from here on says that no handler interfered.
Recibe ==
  /\ pcP = "espera" /\ pcP' = "bmsVoltaje"
  /\ bms = "responde"
  /\ fresco' = (pcW = "espera")
  /\ UNCHANGED <<limites, configVars, leido, webVars, senderVars, bms>>

\* The parser writes a limit and goes on.
Escribe(desde, hasta, campo, valor) ==
  /\ pcP = desde /\ pcP' = hasta
  /\ limites' = [limites EXCEPT ![campo] = valor]
  /\ UNCHANGED <<configVars, leido, webVars, senderVars, bms, fresco>>

BmsVoltaje == Escribe("bmsVoltaje", "bmsDescarga", "voltaje", "bms")

BmsDescarga == Escribe("bmsDescarga", "bmsCarga", "descarga", "bms")

BmsCarga == Escribe("bmsCarga", "mira", "carga", "bms")

\* ajustarVoltajeCargaDescarga: the test, the load, the store.
MiraPropio ==
  /\ pcP = "mira"
  /\ pcP' = IF propio THEN "lee" ELSE "rampaCarga"
  /\ UNCHANGED <<limites, configVars, leido, webVars, senderVars, bms, fresco>>

LeeVoltaje ==
  /\ pcP = "lee" /\ pcP' = "pon"
  /\ leido' = voltajeMax
  /\ UNCHANGED <<limites, configVars, webVars, senderVars, bms, fresco>>

PonVoltaje ==
  /\ pcP = "pon" /\ pcP' = "rampaCarga"
  /\ limites' = [limites EXCEPT !["voltaje"] = leido]
  /\ leido' = "cero"
  /\ UNCHANGED <<configVars, webVars, senderVars, bms, fresco>>

RampaCarga == Escribe("rampaCarga", "rampaDescarga", "carga", "rampa")

\* Mutant: the second ramp writes the limit of the first again.
MutanteRampaDescarga == Escribe("rampaDescarga", "espera", "carga", "rampa")

RampaDescarga == Escribe("rampaDescarga", "espera", "descarga", "rampa")

Parser == \/ Recibe \/ BmsVoltaje \/ BmsDescarga \/ BmsCarga
          \/ MiraPropio \/ LeeVoltaje \/ PonVoltaje \/ RampaCarga \/ RampaDescarga
----------------------------------------------------------------------------
(* The handler of the page of voltages: PortalWeb::salvarlimitesVoltajes. *)

PasoWeb(desde, hasta) ==
  /\ pcW = desde /\ pcW' = hasta
  /\ fresco' = FALSE
  /\ UNCHANGED <<parserVars, senderVars, bms>>

\* It starts with the box unchecked.
Desmarca ==
  /\ PasoWeb("espera", "marca")
  /\ form' \in Formularios
  /\ propio' = FALSE
  /\ UNCHANGED <<limites, voltajeMax>>

Marca ==
  /\ PasoWeb("marca", "valor")
  /\ propio' = (propio \/ form.marcado)
  /\ form' = [form EXCEPT !["marcado"] = FALSE]
  /\ UNCHANGED <<limites, voltajeMax>>

PonMaximo ==
  /\ PasoWeb("valor", "cero")
  /\ voltajeMax' = IF form.voltaje = "nada" THEN voltajeMax ELSE form.voltaje
  /\ UNCHANGED <<limites, propio, form>>

\* A voltage of zero unchecks the box again.
MiraCeros ==
  /\ PasoWeb("cero", "aplica")
  /\ propio' = (propio /\ form.voltaje # "cero" /\ ~form.descargaCero)
  /\ UNCHANGED <<limites, voltajeMax, form>>

\* Mutant: the voltage is left to the next frame.
MutanteAplica ==
  /\ PasoWeb("aplica", "espera")
  /\ form' = SinForm
  /\ UNCHANGED <<limites, configVars>>

Aplica ==
  /\ PasoWeb("aplica", "espera")
  /\ limites' = IF propio THEN [limites EXCEPT !["voltaje"] = voltajeMax] ELSE limites
  /\ form' = SinForm
  /\ UNCHANGED configVars

Web == Desmarca \/ Marca \/ PonMaximo \/ MiraCeros \/ Aplica
----------------------------------------------------------------------------
(* The sender: the frame of the limits. *)

LeeLimite ==
  /\ pcS = "lee" /\ pcS' = "envia"
  /\ trama' = limites[sigue]
  /\ UNCHANGED <<limites, configVars, parserVars, webVars, sigue, inversor, bms, fresco>>

\* The frame arrives, or it is lost.
Entrega ==
  /\ pcS = "envia" /\ pcS' = "lee"
  /\ inversor' = trama /\ trama' = "cero"
  /\ UNCHANGED <<limites, configVars, parserVars, webVars, sigue, bms, fresco>>

Pierde ==
  /\ pcS = "envia" /\ pcS' = "lee"
  /\ trama' = "cero"
  /\ UNCHANGED <<limites, configVars, parserVars, webVars, sigue, inversor, bms, fresco>>

Next == CambiaBms \/ Parser \/ Web \/ LeeLimite \/ Entrega \/ Pierde

\* The tasks run, a handler once begun ends, and the bus delivers some frames.
Equidad ==
  /\ WF_vars(Parser) /\ WF_vars(Marca \/ PonMaximo \/ MiraCeros \/ Aplica)
  /\ WF_vars(LeeLimite) /\ WF_vars(Entrega \/ Pierde) /\ SF_vars(Entrega)

Spec == Init /\ [][Next]_vars

SpecJusta == Spec /\ Equidad
----------------------------------------------------------------------------
(* Properties. *)

TipoLimites ==
  /\ limites \in Limites
  /\ voltajeMax \in {"cero"} \cup Voltajes /\ leido \in {"cero"} \cup Voltajes
  /\ trama \in Valores /\ inversor \in Valores

TipoTareas ==
  /\ pcP \in {"espera", "bmsVoltaje", "bmsDescarga", "bmsCarga", "mira", "lee", "pon",
              "rampaCarga", "rampaDescarga"}
  /\ pcW \in {"espera", "marca", "valor", "cero", "aplica"}
  /\ sigue \in {"voltaje", "carga", "descarga"} /\ pcS \in {"lee", "envia"}
  /\ bms \in {"responde", "calla"}

TipoForm == form \in Formularios

TipoBanderas == propio \in BOOLEAN /\ fresco \in BOOLEAN

TypeOK == TipoLimites /\ TipoTareas /\ TipoForm /\ TipoBanderas

EnReposo == pcP = "espera" /\ pcW = "espera"

\* After a frame that no handler disturbed every limit is the one the user
\* configured, and nothing of what Parse wrote over it is left.
LimitesAlDia ==
  (pcP = "espera" /\ fresco) =>
     limites = [voltaje  |-> IF propio THEN voltajeMax ELSE "bms",
                carga    |-> "rampa",
                descarga |-> "rampa"]

\* With the user's voltages switched on the BMS's own is not left in force,
\* however a frame and the handler interleave, although the handler switches
\* them off while it runs.
PropioNoSePierde == (EnReposo /\ propio) => limites.voltaje # "bms"

\* When frames and handlers stop, what the inverter keeps is no raw limit of
\* the BMS that a frame under way happened to catch.
NoQuedaCrudo ==
  (<>[](bms = "calla" /\ pcW = "espera")) =>
     <>[](sigue \in {"carga", "descarga"} \/ propio => inversor # "bms")
=============================================================================
