------------------------------ MODULE BmsLink ------------------------------
(***************************************************************************)
(* The serial link to the BMS and the alarm of a silent BMS.               *)
(*                                                                         *)
(* peticionrs485_task asks for the status every `Periodo' seconds;         *)
(* capturarSerial2ToColaLectura_task reads what comes until the line is    *)
(* quiet for a second, checks it and queues it; the parser waits `Espera'  *)
(* seconds for the queue, clears errorComunicacionJK with every frame and  *)
(* counts the waits that ended empty (tareas.cpp:19-96).                   *)
(*                                                                         *)
(* Time is in seconds.  What is due now happens before the next Segundo,   *)
(* in any order: that order is the race of a time-out with a late frame.   *)
(* The line is the environment: it may lose a request or its answer and it *)
(* may carry noise, unless it is `sana'.                                   *)
(***************************************************************************)
EXTENDS Naturals

CONSTANTS
  Periodo,      \* FREQ_MUESTREO, seconds between requests; the code: 3
  Espera,       \* wait of the parser for a frame; the code: 2
  Umbral,       \* empty waits before the alarm; the code: 4
  MaxContador,  \* where the counter of empty waits turns; the code: 0xFFFF
  CapCola,      \* capacity of colaPuertoSerie; the code: 2
  CotaSilencio, \* bound of the model: silence is not counted beyond it
  MaxReinicios  \* bound of the model: restarts of a behaviour

ASSUME PlazosPositivos ==
  Periodo \in Nat \ {0} /\ Espera \in Nat \ {0} /\ Umbral \in Nat \ {0}
ASSUME ContadorCabe == MaxContador \in Nat /\ MaxContador > Umbral
ASSUME ColaCabe == CapCola \in Nat \ {0}
ASSUME CotaBasta == CotaSilencio \in Nat /\ CotaSilencio > Espera * (Umbral + 1)
ASSUME ReiniciosAcotados == MaxReinicios \in Nat

\* Silence after which the alarm is due: one empty wait more than Umbral.
PlazoAlarma == Espera * (Umbral + 1)

\* The read of an answer ends before the next request, and the alarm is due
\* after more than three requests; the code: 3 s, and 10 s for 9 s.
ASSUME TresTurnos == Periodo >= 2 /\ PlazoAlarma > 3 * Periodo

VARIABLES
  comunicar,    \* configuracion.comunicarJKrs485
  error,        \* configuracion.errorComunicacionJK
  errorFlash,   \* its copy in flash
  tPet,         \* seconds since the last turn of peticionrs485_task
  linea,        \* the line: "sana" answers every request and has no noise
  respuesta,    \* an answer is on its way
  bufer,        \* bufferStream: what its first bytes are
  quieto,       \* seconds since the last byte of the read under way
  cola,         \* frames in colaPuertoSerie
  tParser,      \* seconds the parser waits
  contador,     \* its empty waits
  reiniciando,  \* the reset button cleared the settings: 100 ms to go
  reinicios,
  \* Auxiliary.
  silencio,     \* seconds since the parser got a frame, or since the start
  perdidas,     \* turns of the request task without an answer since then
  ruidoso       \* noise since the start

redVars == <<tPet, linea, respuesta, bufer, quieto>>
parserVars == <<cola, tParser, contador>>
sistVars == <<comunicar, errorFlash, reiniciando, reinicios>>
auxVars == <<silencio, perdidas, ruidoso>>
vars == <<redVars, parserVars, sistVars, error, auxVars>>

Mas1(n) == IF n < CotaSilencio THEN n + 1 ELSE n

TareasInit ==
  /\ tPet = Periodo /\ respuesta = FALSE
  /\ bufer = "nada" /\ quieto = 0
  /\ cola = 0 /\ tParser = 0 /\ contador = 0
  /\ reiniciando = FALSE
  /\ silencio = 0 /\ perdidas = 0 /\ ruidoso = FALSE

Init ==
  /\ TareasInit
  /\ comunicar \in BOOLEAN
  /\ errorFlash \in BOOLEAN /\ error = errorFlash
  /\ linea \in {"sana", "rota"}
  /\ reinicios = 0

----------------------------------------------------------------------------
(* peticionrs485_task, and the line that answers. *)

\* A turn of the task: it asks only if the settings say so.  A request that
\* meets a broken line may stay without answer.
Peticion ==
  /\ tPet = Periodo
  /\ tPet' = 0
  /\ \/ /\ comunicar
        /\ respuesta' = TRUE /\ perdidas' = perdidas
     \/ /\ ~comunicar \/ linea = "rota"
        /\ respuesta' = respuesta /\ perdidas' = Mas1(perdidas)
  /\ UNCHANGED <<linea, bufer, quieto, parserVars, sistVars, error, silencio, ruidoso>>

\* Bytes reach the read under way, or start one: what came first stays at
\* the head of the buffer, and what follows a frame does not count.
Llegan(que) ==
  /\ quieto = 0
  /\ bufer' = IF bufer = "nada" THEN que ELSE bufer

Contesta ==
  /\ respuesta
  /\ respuesta' = FALSE
  /\ Llegan("trama")
  /\ UNCHANGED <<tPet, linea, quieto, parserVars, sistVars, error, auxVars>>

\* Noise can also fill the buffer, which ends the read at once.
Ruido ==
  /\ linea = "rota"
  /\ Llegan("ruido")
  /\ quieto' \in {0, 1}
  /\ ruidoso' = TRUE
  /\ UNCHANGED <<tPet, linea, respuesta, parserVars, sistVars, error, silencio, perdidas>>

CambiaLinea ==
  /\ linea' \in {"sana", "rota"}
  /\ UNCHANGED <<tPet, respuesta, bufer, quieto, parserVars, sistVars, error, auxVars>>

----------------------------------------------------------------------------
(* capturarSerial2ToColaLectura_task *)

\* readBytes returns after a quiet second or with a full buffer.  A frame is
\* queued; what does not pass the header and checksum is dropped, and so is a
\* frame that finds the queue full.
Captura ==
  /\ bufer # "nada"
  /\ quieto = 1
  /\ cola' = IF bufer = "trama" /\ cola < CapCola THEN cola + 1 ELSE cola
  /\ bufer' = "nada" /\ quieto' = 0
  /\ UNCHANGED <<tPet, linea, respuesta, tParser, contador, sistVars, error, auxVars>>

----------------------------------------------------------------------------
(* parseoColaLecturaToJk_bms_battery_info_task *)

\* Mutant: the counter starts over as well when the alarm is set.
MutanteEsperaVacia ==
  /\ tParser = Espera
  /\ cola = 0
  /\ tParser' = 0
  /\ error' = (contador >= Umbral)
  /\ contador' = IF contador >= Umbral THEN 0 ELSE contador + 1
  /\ UNCHANGED <<redVars, cola, sistVars, auxVars>>

\* Mutant: the counter does not turn.
MutanteSinVuelta ==
  /\ tParser = Espera
  /\ cola = 0
  /\ tParser' = 0
  /\ error' = (error \/ contador >= Umbral)
  /\ contador' = contador + 1
  /\ UNCHANGED <<redVars, cola, sistVars, auxVars>>

\* Mutant: a frame leaves the counter of empty waits as it is.
MutanteRecibeTrama ==
  /\ cola > 0
  /\ cola' = cola - 1
  /\ tParser' = 0 /\ contador' = contador
  /\ error' = FALSE
  /\ silencio' = 0 /\ perdidas' = 0
  /\ UNCHANGED <<redVars, sistVars, ruidoso>>

\* Mutant: a frame leaves the alarm to somebody else.
MutanteNoBorraError ==
  /\ cola > 0
  /\ cola' = cola - 1
  /\ tParser' = 0 /\ contador' = 0
  /\ error' = error
  /\ silencio' = 0 /\ perdidas' = 0
  /\ UNCHANGED <<redVars, sistVars, ruidoso>>

\* A frame: the rest of what the parser does with it is in PermissionFeed and
\* LimitFeed.
RecibeTrama ==
  /\ cola > 0
  /\ cola' = cola - 1
  /\ tParser' = 0 /\ contador' = 0
  /\ error' = FALSE
  /\ silencio' = 0 /\ perdidas' = 0
  /\ UNCHANGED <<redVars, sistVars, ruidoso>>

\* xQueueReceive gives up: the counter turns at MaxContador to a value that
\* still is over the threshold.
EsperaVacia ==
  /\ tParser = Espera
  /\ cola = 0
  /\ tParser' = 0
  /\ error' = (error \/ contador >= Umbral)
  /\ contador' = (IF contador = MaxContador THEN Umbral - 1 ELSE contador) + 1
  /\ UNCHANGED <<redVars, cola, sistVars, auxVars>>

----------------------------------------------------------------------------
(* The rest of the firmware. *)

\* The page of the serial link saves its check box; any other save takes the
\* error flag to flash as well, since it writes the whole struct.
salvarrs485 ==
  /\ comunicar' \in BOOLEAN
  /\ errorFlash' = error
  /\ UNCHANGED <<redVars, parserVars, reiniciando, reinicios, error, auxVars>>

\* configuracionInicial of the reset button clears and saves the flag, and
\* the link is off; ESP.restart follows after 100 ms.
Inicial ==
  /\ reinicios < MaxReinicios
  /\ comunicar' = FALSE
  /\ error' = FALSE /\ errorFlash' = FALSE
  /\ reiniciando' = TRUE
  /\ UNCHANGED <<redVars, parserVars, reinicios, auxVars>>

\* That restart, the watchdog, or a power cut.
Reinicio ==
  /\ reinicios < MaxReinicios
  /\ reinicios' = reinicios + 1
  /\ error' = errorFlash
  /\ tPet' = Periodo /\ respuesta' = FALSE
  /\ bufer' = "nada" /\ quieto' = 0
  /\ cola' = 0 /\ tParser' = 0 /\ contador' = 0
  /\ reiniciando' = FALSE
  /\ silencio' = 0 /\ perdidas' = 0 /\ ruidoso' = FALSE
  /\ UNCHANGED <<comunicar, errorFlash, linea>>

\* A second passes when nothing is due.
Segundo ==
  /\ tPet < Periodo
  /\ ~respuesta
  /\ bufer = "nada" \/ quieto < 1
  /\ tParser < Espera /\ cola = 0
  /\ ~reiniciando
  /\ tPet' = tPet + 1 /\ tParser' = tParser + 1
  /\ quieto' = IF bufer = "nada" THEN quieto ELSE quieto + 1
  /\ silencio' = Mas1(silencio)
  /\ UNCHANGED <<linea, respuesta, bufer, cola, contador, sistVars, error,
                 perdidas, ruidoso>>

Next ==
  \/ Peticion \/ Contesta \/ Ruido \/ CambiaLinea \/ Captura
  \/ RecibeTrama \/ EsperaVacia \/ salvarrs485 \/ Inicial \/ Reinicio \/ Segundo

\* The tasks run, the restart of the reset button comes, and time goes on.
Equidad ==
  /\ WF_vars(Peticion) /\ WF_vars(Contesta) /\ WF_vars(Captura)
  /\ WF_vars(RecibeTrama) /\ WF_vars(EsperaVacia)
  /\ WF_vars(reiniciando /\ Reinicio) /\ WF_vars(Segundo)

Spec == Init /\ [][Next]_vars

SpecJusta == Spec /\ Equidad
----------------------------------------------------------------------------
(* Properties. *)

TipoRed ==
  /\ tPet \in 0 .. Periodo
  /\ linea \in {"sana", "rota"} /\ respuesta \in BOOLEAN
  /\ bufer \in {"nada", "trama", "ruido"} /\ quieto \in 0 .. 1

TipoParser ==
  /\ cola \in 0 .. CapCola /\ tParser \in 0 .. Espera
  /\ contador \in 0 .. MaxContador
  /\ error \in BOOLEAN

TipoSistema ==
  /\ comunicar \in BOOLEAN /\ errorFlash \in BOOLEAN
  /\ reiniciando \in BOOLEAN /\ reinicios \in 0 .. MaxReinicios

TipoAux ==
  /\ silencio \in 0 .. CotaSilencio /\ perdidas \in 0 .. CotaSilencio
  /\ ruidoso \in BOOLEAN

TypeOK == TipoRed /\ TipoParser /\ TipoSistema /\ TipoAux

\* A BMS that is silent for PlazoAlarma seconds is always noticed: however the
\* line fails, whether the link is switched off or the parser was restarted,
\* and although the counter turns.  Only the 100 ms of a reset are exempt.
DetectaSilencio == (~error /\ ~reiniciando) => silencio <= PlazoAlarma

\* No false alarm: what raises it, other than a restart that reads it from
\* flash, is three turns of the request task without an answer since the last
\* frame; two lost answers in a row never do, unless the line has noise.
SinFalsaAlarma ==
  [][ (~error /\ error' /\ reinicios' = reinicios) => perdidas >= 3 \/ ruidoso ]_vars

\* An alarm does not outlive its cause: once the line stays healthy and the
\* link enabled, the alarm is cleared for good, also one read from flash.
Recupera == (<>[](linea = "sana" /\ comunicar)) => <>[]~error

Alarma == INSTANCE AlarmaSilencio
  WITH Minimo <- PlazoAlarma, Maximo <- PlazoAlarma, alarma <- error

\* The counters, the queue and the restarts implement the plain alarm.
ImplementaAlarma == Alarma!Spec
=============================================================================
