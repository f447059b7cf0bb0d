--------------------------- MODULE PermissionFeed ---------------------------
(***************************************************************************)
(* What the inverter is told it may do.                                    *)
(*                                                                         *)
(* envioCAN_task builds the frame of the permissions (0x35C of Pylon LV,   *)
(* 0x4280 of Pylon HV) out of three members of `configuracion' that it     *)
(* reads one after the other: habilitarCarga, habilitarDescarga and, last, *)
(* errorComunicacionJK, which overrides both.  Meanwhile the parser writes *)
(* them: controlCargaDescarga the permissions, the discharge first, and    *)
(* the task itself clears the error when everything else is done.  The     *)
(* frame then waits in the transmit queue of the TWAI driver, which tasks  *)
(* cannot see: with the cable off, it is as old as the queue is long.      *)
(*                                                                         *)
(* What a BMS frame and the limits make of a permission is a verdict here  *)
(* (ChargeControl has the rules); when the alarm is due is in BmsLink, and *)
(* when the CAN task sends its frames, by itself under Pylon LV and when   *)
(* asked under Pylon HV, in CanBus.                                        *)
(***************************************************************************)
EXTENDS Naturals, Sequences

CONSTANTS
  CapTx,         \* frames of permissions the driver can hold; by default 5
  MaxReinicios   \* bound of the model: restarts of a behaviour

ASSUME CapTxEsNatural == CapTx \in Nat
ASSUME ReiniciosAcotados == MaxReinicios \in Nat

Sentidos == {"carga", "descarga"}

VARIABLES
  permiso,      \* the directions configuracion enables
  error,        \* configuracion.errorComunicacionJK
  pcP,          \* the parser: what it does next with a frame
  pcR,          \* the reset button task, within configuracionInicial
  pcS,          \* the sender: what it reads next for its frame
  trama,        \* the frame it builds: the directions it will allow
  cola,         \* the transmit queue of the driver
  inversor,     \* what the inverter was last told
  bms,          \* "responde" or "calla", as seen by the parser
  reinicios,
  \* Auxiliary.
  enError,      \* the error was up since the frame began
  nuevas,       \* how many frames of that kind, of this error, end the queue
  tardias,      \* frames that allow something and arrived since it was raised
  avisado,      \* a frame of that kind arrived since then
  evaluados     \* the permissions evaluated since then, or since the start

parserVars == <<pcP, bms>>
senderVars == <<pcS, trama, cola, inversor>>
cuenta == <<reinicios, tardias, avisado, evaluados>>
aux == <<cuenta, enError, nuevas>>
vars == <<permiso, error, parserVars, pcR, senderVars, aux>>

\* Bookkeeping of a step that writes the permissions or the error.
Observa ==
  /\ enError' = (enError /\ error')
  /\ nuevas' = IF error' THEN nuevas ELSE 0

\* The frame is done with.
Olvida == trama' = {} /\ enError' = FALSE

Init ==
  /\ permiso \in SUBSET Sentidos /\ error \in BOOLEAN
  /\ pcP = "espera" /\ pcR = "sondea" /\ pcS = "listo"
  /\ trama = {} /\ cola = <<>> /\ inversor = {}
  /\ bms \in {"responde", "calla"}
  /\ reinicios = 0
  /\ nuevas = 0 /\ tardias = 0
  /\ avisado = FALSE /\ evaluados = {} /\ enError = FALSE

----------------------------------------------------------------------------
(* The parser task. *)

CambiaBms ==
  /\ bms' \in {"responde", "calla"}
  /\ UNCHANGED <<permiso, error, pcP, pcR, senderVars, aux>>

\* Mutant: the error is cleared as soon as the frame is there.
MutanteRecibe ==
  /\ pcP = "espera" /\ pcP' = "descarga"
  /\ bms = "responde"
  /\ error' = FALSE
  /\ UNCHANGED <<permiso, bms, pcR, senderVars, cuenta>>
  /\ Observa

Recibe ==
  /\ pcP = "espera" /\ pcP' = "descarga"
  /\ bms = "responde"
  /\ UNCHANGED <<permiso, error, bms, pcR, senderVars, aux>>

\* The two rules of a permission in controlCargaDescarga grant it, withdraw
\* it, or leave it as it is.
EvaluaPaso(x, desde, hasta) ==
  /\ pcP = desde /\ pcP' = hasta
  /\ permiso' \in {permiso \cup {x}, permiso \ {x}, permiso}
  /\ evaluados' = evaluados \cup {x}
  /\ UNCHANGED <<error, bms, pcR, senderVars, reinicios, tardias, avisado>>
  /\ Observa

EvaluaDescarga == EvaluaPaso("descarga", "descarga", "carga")

EvaluaCarga == EvaluaPaso("carga", "carga", "fin")

\* Mutant: the task leaves the error to somebody else.
MutanteFinTrama ==
  /\ pcP = "fin" /\ pcP' = "espera"
  /\ UNCHANGED <<permiso, error, bms, pcR, senderVars, cuenta>>
  /\ Observa

FinTrama ==
  /\ pcP = "fin" /\ pcP' = "espera"
  /\ error' = FALSE
  /\ UNCHANGED <<permiso, bms, pcR, senderVars, cuenta>>
  /\ Observa

\* Mutant: the alarm is only for a BMS that has been heard since the start.
MutanteEsperaVacia ==
  /\ pcP = "espera" /\ evaluados # {}
  /\ bms = "calla"
  /\ error' = TRUE
  /\ IF error THEN UNCHANGED <<tardias, avisado, evaluados>>
              ELSE tardias' = 0 /\ avisado' = FALSE /\ evaluados' = {}
  /\ UNCHANGED <<permiso, parserVars, pcR, senderVars, reinicios>>
  /\ Observa

\* The empty wait that raises the error.
EsperaVacia ==
  /\ pcP = "espera"
  /\ bms = "calla"
  /\ error' = TRUE
  /\ IF error THEN UNCHANGED <<tardias, avisado, evaluados>>
              ELSE tardias' = 0 /\ avisado' = FALSE /\ evaluados' = {}
  /\ UNCHANGED <<permiso, parserVars, pcR, senderVars, reinicios>>
  /\ Observa

----------------------------------------------------------------------------
(* The reset button, and the restart. *)

\* configuracionInicial: the permissions and the error.
InicialCarga ==
  /\ pcR = "sondea" /\ pcR' = "descarga"
  /\ reinicios < MaxReinicios
  /\ permiso' = permiso \ {"carga"}
  /\ UNCHANGED <<error, parserVars, senderVars, cuenta>>
  /\ Observa

InicialDescarga ==
  /\ pcR = "descarga" /\ pcR' = "error"
  /\ permiso' = permiso \ {"descarga"}
  /\ UNCHANGED <<error, parserVars, senderVars, cuenta>>
  /\ Observa

InicialError ==
  /\ pcR = "error" /\ pcR' = "restart"
  /\ error' = FALSE
  /\ UNCHANGED <<permiso, parserVars, senderVars, cuenta>>
  /\ Observa

\* The restart of the reset button, of a handler, of the watchdog, or a power
\* cut, to what was saved: any permissions, and the error or not (which save
\* comes when is in ChargeControl).  The queue of the driver is gone; the
\* inverter goes on with what it was told.
Reinicio ==
  /\ reinicios < MaxReinicios
  /\ reinicios' = reinicios + 1
  /\ permiso' \in SUBSET Sentidos /\ error' \in BOOLEAN
  /\ pcP' = "espera" /\ pcR' = "sondea" /\ pcS' = "listo"
  /\ cola' = <<>> /\ nuevas' = 0 /\ tardias' = 0
  /\ Olvida
  /\ avisado' = FALSE /\ evaluados' = {}
  /\ UNCHANGED <<inversor, bms>>

----------------------------------------------------------------------------
(* envioCAN_task: the frame of the permissions. *)

Empieza ==
  /\ pcS = "listo" /\ pcS' = "carga"
  /\ enError' = error
  /\ UNCHANGED <<permiso, error, parserVars, pcR, trama, cola, inversor, cuenta, nuevas>>

LeePaso(x, desde, hasta) ==
  /\ pcS = desde /\ pcS' = hasta
  /\ trama' = trama \cup (permiso \cap {x})
  /\ UNCHANGED <<permiso, error, parserVars, pcR, cola, inversor, aux>>

LeeCarga == LeePaso("carga", "carga", "descarga")

LeeDescarga == LeePaso("descarga", "descarga", "error")

\* Mutant: the error stops the charge, and not the discharge.
MutanteLeeError ==
  /\ pcS = "error" /\ pcS' = "envia"
  /\ trama' = IF error THEN trama \ {"carga"} ELSE trama
  /\ UNCHANGED <<permiso, error, parserVars, pcR, cola, inversor, aux>>

LeeError ==
  /\ pcS = "error" /\ pcS' = "envia"
  /\ trama' = IF error THEN {} ELSE trama
  /\ UNCHANGED <<permiso, error, parserVars, pcR, cola, inversor, aux>>

\* twai_transmit finds room in the queue of the driver within 250 ms.
Envia ==
  /\ pcS = "envia" /\ pcS' = "listo"
  /\ Len(cola) < CapTx
  /\ cola' = Append(cola, trama)
  /\ nuevas' = IF enError THEN nuevas + 1 ELSE nuevas
  /\ Olvida
  /\ UNCHANGED <<permiso, error, parserVars, pcR, inversor, cuenta>>

\* It does not, or the driver refuses: the frame is dropped.
Pierde ==
  /\ pcS = "envia" /\ pcS' = "listo"
  /\ Olvida
  /\ UNCHANGED <<permiso, error, parserVars, pcR, cola, inversor, cuenta, nuevas>>

\* The driver sends the oldest frame of its queue, over and over until the
\* inverter acknowledges it.
Entrega ==
  /\ cola # <<>>
  /\ cola' = Tail(cola)
  /\ inversor' = Head(cola)
  /\ IF nuevas = Len(cola) THEN avisado' = TRUE /\ nuevas' = nuevas - 1
                           ELSE UNCHANGED <<avisado, nuevas>>
  /\ tardias' = IF error /\ Head(cola) # {} THEN tardias + 1 ELSE tardias
  /\ UNCHANGED <<permiso, error, parserVars, pcR, pcS, trama, reinicios, evaluados, enError>>

Parser == Recibe \/ EvaluaDescarga \/ EvaluaCarga \/ FinTrama
Inicial == InicialCarga \/ InicialDescarga \/ InicialError
Sender == Empieza \/ LeeCarga \/ LeeDescarga \/ LeeError

Next == \/ CambiaBms \/ Parser \/ EsperaVacia \/ Inicial \/ Reinicio
        \/ Sender \/ Envia \/ Pierde \/ Entrega

\* The tasks run, also the sender under Pylon HV: the inverter keeps asking.  A
\* cable that was off comes back; the driver does not refuse every frame it
\* has room for; the restart of the button comes.
Equidad ==
  /\ WF_vars(Parser) /\ WF_vars(EsperaVacia)
  /\ WF_vars(Sender) /\ WF_vars(Envia \/ Pierde) /\ SF_vars(Envia) /\ WF_vars(Entrega)
  /\ WF_vars(InicialDescarga) /\ WF_vars(InicialError)
  /\ WF_vars(pcR = "restart" /\ Reinicio)

Spec == Init /\ [][Next]_vars

SpecJusta == Spec /\ Equidad
----------------------------------------------------------------------------
(* Properties. *)

TipoBanderas ==
  /\ error \in BOOLEAN
  /\ avisado \in BOOLEAN /\ enError \in BOOLEAN

TipoPermisos ==
  /\ permiso \in SUBSET Sentidos /\ trama \in SUBSET Sentidos
  /\ inversor \in SUBSET Sentidos /\ evaluados \in SUBSET Sentidos

TipoTareas ==
  /\ pcP \in {"espera", "descarga", "carga", "fin"}
  /\ pcR \in {"sondea", "descarga", "error", "restart"}
  /\ pcS \in {"listo", "carga", "descarga", "error", "envia"}
  /\ bms \in {"responde", "calla"}
  /\ reinicios \in 0 .. MaxReinicios

TipoCola ==
  /\ cola \in Seq(SUBSET Sentidos) /\ Len(cola) <= CapTx
  /\ nuevas \in 0 .. Len(cola) /\ tardias \in Nat

TypeOK == TipoBanderas /\ TipoPermisos /\ TipoTareas /\ TipoCola

\* Once a frame that was built wholly under the error arrived, the inverter
\* stays stopped until the error is cleared: no frame that was under way and
\* no permission that changes meanwhile gives it back.
Parado == (avisado /\ error) => inversor = {}

\* The stop is not late by more than the queue: of the frames that arrive after
\* the error was raised, at most those that were in the queue of the driver
\* and the one under construction still allow something, however long the
\* cable was off and whatever the parser and the reset write meanwhile.
AtrasoAcotado == error => tardias <= CapTx + 1

\* After such a stop the inverter is only told again of a permission that was
\* evaluated since, on a frame of the BMS that is back: the permissions of
\* before the silence never come back by themselves.  The reset button is
\* exempt: it clears the error with nothing evaluated, and a frame that read a
\* permission before that takes it to the inverter.
ConcedeTrasEvaluar ==
  (avisado /\ pcR \in {"sondea", "descarga", "error"}) => inversor \subseteq evaluados

\* When the BMS falls silent for good, the inverter is told to stop and is
\* never told otherwise (README.md:44), although the bus loses frames.
SilencioPara == (<>[](bms = "calla")) => <>[](inversor = {})

\* The step evaluates no permission, or to what D says.
Conforme(D) ==
  \A x \in Sentidos : (pcP = x /\ pcP' # x /\ pcP' # "espera") => (x \in permiso' <=> x \in D)

\* When the BMS answers and its frames decide the same for good, the inverter
\* ends with just what they decide, also after an alarm or a restart (after
\* the reset button, once CAN is configured again).
SigueAlBms ==
  \A D \in SUBSET Sentidos :
    (<>[](bms = "responde") /\ <>[][Conforme(D)]_vars) => <>[](inversor = D)
=============================================================================
