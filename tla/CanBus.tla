------------------------------- MODULE CanBus -------------------------------
(***************************************************************************)
(* The two CAN tasks, and what they keep an inverter waiting for.          *)
(*                                                                         *)
(* recibirCAN_task takes every message off the driver and queues it;       *)
(* envioCAN_task looks at the settings and either answers a queued request *)
(* (Pylon HV) or empties the queue, until it was quiet for 100 ms, and     *)
(* sends the frames of Pylon LV (tareas.cpp:183-319, 360-471).  The page   *)
(* of the CAN bus changes the settings under them (PortalWeb.cpp:148-166). *)
(*                                                                         *)
(* Time is in ticks of 100 ms.  What is due now happens before the next    *)
(* Tick, in any order.  The bus is the environment: it brings a message at *)
(* most every `PeriodoBus' ticks, and takes up to `Transmision' ticks for  *)
(* a frame, delivered or lost.  dispositivoCAN is taken to be true: without*)
(* the driver neither task does anything.                                  *)
(***************************************************************************)
EXTENDS Naturals, Sequences

CONSTANTS
  CapCola,      \* capacity of colaLecturaCAN; the code: 10
  CapDriver,    \* receive queue of the TWAI driver; its default: 5
  Pausa,        \* ticks of xDelay1sg; the code: 10
  Sueno,        \* ticks recibirCAN_task sleeps; the code: 3 (250 ms)
  Transmision,  \* ticks twai_transmit blocks at most; the code: 3 (250 ms)
  PeriodoBus,   \* ticks between messages; a reply of the inverter: 10
  TiposBus,     \* the kinds of message the bus brings
  MaxGuardados  \* bound of the model: times the page is saved

ASSUME ColasCaben == CapCola \in Nat \ {0} /\ CapDriver \in Nat \ {0}
ASSUME TiemposPositivos ==
  Pausa \in Nat \ {0} /\ Sueno \in Nat \ {0} /\ Transmision \in Nat
\* The wait of envioCAN_task for its queue is one tick: a bus with a message
\* in every one of them keeps the LV loop from ever ending.
ASSUME BusConHuecos == PeriodoBus \in Nat /\ PeriodoBus > 1
ASSUME GuardadosAcotados == MaxGuardados \in Nat

\* A request of the inverter (identifiers 0x420 and 0x4200; `info' has 2 as
\* its first byte), an order to sleep or wake up (0x620, 0x8200), the rest.
Tipos == {"estado", "info", "control", "otro"}

ASSUME TiposDelBus == TiposBus \subseteq Tipos

\* One request at a time is followed through the queues.
Mensaje == [tipo : Tipos, seguido : BOOLEAN]

\* Frames of an LV cycle, and of the answer to each request.
TramasLV == 6
RespuestaEstado == 10
RespuestaInfo == 4

VARIABLES
  comunicar,   \* configuracion.comunicarCAN
  protocolo,   \* configuracion.protocoloCanBus; "no" stands for the reserved too
  pcW,         \* the handler salvarcanbus: its next statement
  guardados,
  rx,          \* messages in the driver
  pcR, mano,   \* recibirCAN_task, and the message it took
  tR,          \* ticks it has waited for room, or has still to sleep
  cola,        \* colaLecturaCAN
  pcE, tE,     \* envioCAN_task, and the ticks of its wait
  restan,      \* frames it has still to send, of an answer or of a cycle
  tBus,        \* ticks since the last message of the bus
  \* Auxiliary.
  edad,        \* ticks the followed request has waited in the queue under HV
  sinCiclo     \* ticks under LV since its last frames were sent

webVars == <<comunicar, protocolo, pcW, guardados>>
recibeVars == <<pcR, mano, tR>>
envioVars == <<pcE, tE, restan>>
auxVars == <<edad, sinCiclo>>
vars == <<webVars, rx, recibeVars, cola, envioVars, tBus, auxVars>>

Nada == <<>>

Init ==
  /\ comunicar \in BOOLEAN /\ protocolo \in {"no", "LV", "HV"}
  /\ pcW = "espera" /\ guardados = 0
  /\ rx = <<>> /\ pcR = "mira" /\ mano = Nada /\ tR = 0
  /\ cola = <<>>
  /\ pcE = "vuelta" /\ tE = 0 /\ restan = 0
  /\ tBus = PeriodoBus
  /\ edad = 0 /\ sinCiclo = 0

\* The followed request is in the queue.
EnCola == \E i \in 1 .. Len(cola) : cola[i].seguido

\* The settings are those of the protocol p.
Rige(p) == comunicar /\ protocolo = p

\* Bookkeeping of a step that takes no time.
Apunta ==
  /\ edad' = IF Rige("HV")' /\ EnCola' THEN edad ELSE 0
  /\ sinCiclo' = IF Rige("LV")' THEN sinCiclo ELSE 0

----------------------------------------------------------------------------
(* The page of the CAN bus: PortalWeb::salvarcanbus.  It clears both        *)
(* settings before it writes them.                                         *)

PasoWeb(desde, hasta) ==
  /\ pcW = desde /\ pcW' = hasta
  /\ UNCHANGED <<rx, recibeVars, cola, envioVars, tBus>>
  /\ Apunta

DesactivaCAN ==
  /\ guardados < MaxGuardados
  /\ guardados' = guardados + 1
  /\ comunicar' = FALSE
  /\ UNCHANGED protocolo
  /\ PasoWeb("espera", "protocolo")

QuitaProtocolo ==
  /\ protocolo' = "no"
  /\ UNCHANGED <<comunicar, guardados>>
  /\ PasoWeb("protocolo", "activa")

ActivaCAN ==
  /\ comunicar' \in BOOLEAN
  /\ UNCHANGED <<protocolo, guardados>>
  /\ PasoWeb("activa", "pon")

PonProtocolo ==
  /\ protocolo' \in {"no", "LV", "HV"}
  /\ UNCHANGED <<comunicar, guardados>>
  /\ PasoWeb("pon", "espera")

Web == DesactivaCAN \/ QuitaProtocolo \/ ActivaCAN \/ PonProtocolo
----------------------------------------------------------------------------
(* The bus, and recibirCAN_task. *)

\* The driver drops what it has no room for.
Llega ==
  /\ tBus = PeriodoBus /\ tBus' = 0
  /\ \E m \in Mensaje :
       /\ m.tipo \in TiposBus
       /\ m.seguido => /\ m.tipo \in {"estado", "info"}
                       /\ ~EnCola /\ mano = Nada /\ rx = <<>>
       /\ rx' = IF Len(rx) < CapDriver THEN Append(rx, m) ELSE rx
  /\ UNCHANGED <<webVars, recibeVars, cola, envioVars, auxVars>>

\* With the bus switched off the task sleeps before it looks again, whatever the
\* page does meanwhile; what arrives waits in the driver.
MiraCAN ==
  /\ pcR = "mira"
  /\ IF comunicar THEN pcR' = "bloqueada" /\ tR' = 0 ELSE pcR' = "duerme" /\ tR' = Sueno
  /\ UNCHANGED <<webVars, rx, mano, cola, envioVars, tBus, auxVars>>

Despierta ==
  /\ pcR = "duerme" /\ tR = 0
  /\ pcR' = "mira"
  /\ UNCHANGED <<webVars, rx, mano, tR, cola, envioVars, tBus, auxVars>>

RecibeCAN ==
  /\ pcR = "bloqueada" /\ rx # <<>>
  /\ pcR' = "encola" /\ mano' = Head(rx) /\ rx' = Tail(rx) /\ tR' = 0
  /\ UNCHANGED <<webVars, cola, envioVars, tBus, auxVars>>

\* Mutant: xQueueSendToFront.
MutanteEncola ==
  /\ pcR = "encola" /\ Len(cola) < CapCola
  /\ cola' = <<mano>> \o cola
  /\ pcR' = "mira" /\ mano' = Nada /\ tR' = 0
  /\ UNCHANGED <<webVars, rx, envioVars, tBus>>
  /\ Apunta

Encola ==
  /\ pcR = "encola" /\ Len(cola) < CapCola
  /\ cola' = Append(cola, mano)
  /\ pcR' = "mira" /\ mano' = Nada /\ tR' = 0
  /\ UNCHANGED <<webVars, rx, envioVars, tBus>>
  /\ Apunta

\* xQueueSendToBack gives up after 100 ms: the message is lost.
ColaLlena ==
  /\ pcR = "encola" /\ Len(cola) = CapCola /\ tR = 1
  /\ pcR' = "mira" /\ mano' = Nada /\ tR' = 0
  /\ UNCHANGED <<webVars, rx, cola, envioVars, tBus, auxVars>>

Receptor == MiraCAN \/ Despierta \/ RecibeCAN \/ Encola \/ ColaLlena
----------------------------------------------------------------------------
(* envioCAN_task *)

\* A step of the task from one statement to another, `t' ticks of wait ahead.
Pasa(desde, hasta, t) ==
  /\ pcE = desde /\ pcE' = hasta /\ tE' = t
  /\ UNCHANGED <<webVars, rx, recibeVars, tBus>>

SinCola == UNCHANGED <<cola, restan, auxVars>>

MiraConfiguracion ==
  /\ IF comunicar THEN Pasa("vuelta", "hv", 0) ELSE Pasa("vuelta", "pausa", Pausa)
  /\ SinCola

MiraHV ==
  /\ IF protocolo = "HV" THEN Pasa("hv", "esperaHV", 1) ELSE Pasa("hv", "lv", 0)
  /\ SinCola

\* The answer to a request; an order is accepted and nothing is done; what is
\* not known falls through to the other protocols.
Atiende ==
  /\ cola # <<>>
  /\ CASE Head(cola).tipo = "estado"  -> Pasa("esperaHV", "responde", Transmision)
       [] Head(cola).tipo = "info"    -> Pasa("esperaHV", "responde", Transmision)
       [] Head(cola).tipo = "control" -> Pasa("esperaHV", "vuelta", 0)
       [] Head(cola).tipo = "otro"    -> Pasa("esperaHV", "lv", 0)
  /\ restan' = CASE Head(cola).tipo = "estado" -> RespuestaEstado
                 [] Head(cola).tipo = "info"   -> RespuestaInfo
                 [] OTHER                      -> 0
  /\ cola' = Tail(cola)
  /\ Apunta

SinPeticion ==
  /\ cola = <<>> /\ tE = 0
  /\ Pasa("esperaHV", "lv", 0)
  /\ SinCola

MiraLV ==
  /\ IF protocolo = "LV" THEN Pasa("lv", "vacia", 1) ELSE Pasa("lv", "no", 0)
  /\ SinCola

\* Mutant: the LV loop waits 250 ms for the next message.
MutanteVacia ==
  /\ cola # <<>>
  /\ Pasa("vacia", "vacia", 3)
  /\ cola' = Tail(cola)
  /\ UNCHANGED restan
  /\ Apunta

\* The LV loop takes what is queued, and waits again.
Vacia ==
  /\ cola # <<>>
  /\ Pasa("vacia", "vacia", 1)
  /\ cola' = Tail(cola)
  /\ UNCHANGED restan
  /\ Apunta

EmpiezaLV ==
  /\ cola = <<>> /\ tE = 0
  /\ Pasa("vacia", "envia", Transmision)
  /\ restan' = TramasLV
  /\ UNCHANGED <<cola, auxVars>>

\* Mutant: with no protocol the task does not rest.
MutanteMiraNoConfigurado ==
  /\ Pasa("no", "vuelta", 0)
  /\ SinCola

\* No protocol chosen, or one that is not implemented; under HV the task
\* simply goes round.
MiraNoConfigurado ==
  /\ IF protocolo = "no" THEN Pasa("no", "pausa", Pausa) ELSE Pasa("no", "vuelta", 0)
  /\ SinCola

FinPausa ==
  /\ tE = 0
  /\ Pasa("pausa", "vuelta", 0)
  /\ SinCola

\* twai_transmit returns, at once or when the ticks it may block are over.
\* Whether the frame was sent makes no difference to the task.
Transmite ==
  /\ pcE \in {"responde", "envia"} /\ restan > 1
  /\ restan' = restan - 1 /\ tE' = Transmision
  /\ UNCHANGED <<webVars, rx, recibeVars, cola, pcE, tBus, auxVars>>

\* The last frame of an answer.
TerminaHV ==
  /\ Pasa("responde", "vuelta", 0)
  /\ restan = 1 /\ restan' = 0
  /\ UNCHANGED <<cola, auxVars>>

\* The last frame of a cycle; with comunicarSerialDebug1, which a page may
\* change at any time, the task rests.
TerminaLV ==
  /\ Pasa("envia", "vuelta", 0) \/ Pasa("envia", "pausa", Pausa)
  /\ restan = 1 /\ restan' = 0
  /\ sinCiclo' = 0
  /\ UNCHANGED <<cola, edad>>

Envio ==
  \/ MiraConfiguracion \/ MiraHV \/ Atiende \/ SinPeticion \/ MiraLV
  \/ Vacia \/ EmpiezaLV \/ MiraNoConfigurado \/ FinPausa
  \/ Transmite \/ TerminaHV \/ TerminaLV
----------------------------------------------------------------------------
Resta(t) == IF t > 0 THEN t - 1 ELSE 0

\* 100 ms pass when nothing is due.
Tick ==
  /\ pcE \in {"esperaHV", "vacia", "pausa", "responde", "envia"} /\ tE > 0
  /\ pcE \in {"esperaHV", "vacia"} => cola = <<>>
  /\ \/ pcR = "duerme" /\ tR > 0
     \/ pcR = "bloqueada" /\ rx = <<>>
     \/ pcR = "encola" /\ Len(cola) = CapCola /\ tR = 0
  /\ pcW = "espera"
  /\ tE' = tE - 1
  /\ tR' = CASE pcR = "encola" -> 1 [] pcR = "duerme" -> tR - 1 [] OTHER -> 0
  /\ tBus' = IF tBus < PeriodoBus THEN tBus + 1 ELSE tBus
  /\ edad' = IF Rige("HV") /\ EnCola THEN edad + 1 ELSE 0
  /\ sinCiclo' = IF Rige("LV") THEN sinCiclo + 1 ELSE 0
  /\ UNCHANGED <<webVars, rx, pcR, mano, cola, pcE, restan>>

Next == Web \/ Llega \/ Receptor \/ Envio \/ Tick

\* The tasks run, a handler once begun ends, and time goes on.
Equidad ==
  /\ WF_vars(Receptor) /\ WF_vars(Envio)
  /\ WF_vars(QuitaProtocolo \/ ActivaCAN \/ PonProtocolo) /\ WF_vars(Tick)

Spec == Init /\ [][Next]_vars

SpecJusta == Spec /\ Equidad
----------------------------------------------------------------------------
(* Properties. *)

\* The larger of two numbers.
Mayor(a, b) == IF a > b THEN a ELSE b

\* The frames of an LV cycle, and the rest when debugging.
CicloLV == TramasLV * Transmision + Pausa

\* An answer of ten frames, all of which block.
Respuesta == RespuestaEstado * Transmision

\* Under LV: the rest of what the sender was at when LV was chosen, a request
\* that came at the end of the wait for one or a pause, or the sleep of the
\* receiver, which then brings what the driver kept; two ticks of waiting, and
\* the frames.
CotaLV == Mayor(Mayor(1 + Respuesta, Pausa), Sueno) + 2 + TramasLV * Transmision

\* Under HV: what the sender was doing, and the answers to who came before.
CotaHV == Mayor(Respuesta, CicloLV) + (CapCola - 1) * Respuesta

TipoCAN ==
  /\ comunicar \in BOOLEAN /\ protocolo \in {"no", "LV", "HV"}
  /\ pcW \in {"espera", "protocolo", "activa", "pon"}
  /\ guardados \in 0 .. MaxGuardados
  /\ rx \in Seq(Mensaje) /\ Len(rx) <= CapDriver
  /\ pcR \in {"mira", "duerme", "bloqueada", "encola"} /\ mano \in {Nada} \cup Mensaje
  /\ (pcR = "encola") = (mano # Nada)
  /\ tR \in Nat /\ tR <= (IF pcR = "duerme" THEN Sueno ELSE 1)
  /\ cola \in Seq(Mensaje) /\ Len(cola) <= CapCola

TipoEnvio ==
  /\ pcE \in {"vuelta", "hv", "esperaHV", "lv", "vacia", "no", "pausa",
             "responde", "envia"}
  /\ tE \in 0 .. Mayor(Pausa, Mayor(Transmision, 1))
  /\ restan \in 0 .. RespuestaEstado
  /\ (pcE \in {"responde", "envia"}) = (restan > 0)
  /\ tBus \in 0 .. PeriodoBus
  /\ edad \in Nat /\ sinCiclo \in Nat

\* The queues keep to their capacity and a task has a frame to send exactly
\* while it sends.
TypeOK == TipoCAN /\ TipoEnvio

\* Under HV a request in the queue is taken within CotaHV ticks of its being
\* queued or of the settings being chosen, though every frame before it be
\* lost, the queue full, and the sender in a pause or in the LV loop.
RespuestaAcotada == edad <= CotaHV

\* Under LV the six frames are tried again within CotaLV ticks, whatever the
\* bus brings and the sender was doing when LV was chosen.
CicloAcotado == sinCiclo <= CotaLV

\* The tasks do not stop each other: time goes on.
ElTiempoPasa == []<><<Tick>>_vars
=============================================================================
