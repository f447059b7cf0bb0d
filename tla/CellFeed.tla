------------------------------ MODULE CellFeed ------------------------------
(***************************************************************************)
(* The highest and the lowest cell, as the inverter is told of them.       *)
(*                                                                         *)
(* Parse_JK_Battery_485_Status_Frame writes the voltages of the cells of a *)
(* frame one after the other into jk_bms_battery_info, and only at its end *)
(* the average, the numbers of the highest and of the lowest cell and      *)
(* their difference.  envioCAN_task, without a lock, reads these numbers   *)
(* and then the voltages they point to (0x4230) whenever the inverter      *)
(* asks, also before the first frame: the numbers are 0 then, and the      *)
(* voltage `of cell 0' is the upper half of battery_cell_capacity, which   *)
(* is in front of the array and zero.                                      *)
(***************************************************************************)
EXTENDS Integers

CONSTANTS
  N,         \* cells of the battery
  Voltajes   \* of a cell, in mV

ASSUME CeldasAssumption == N \in Nat \ {0}
ASSUME De16Bits == \A x \in Voltajes : x \in Nat /\ x <= 65535

Celdas == 1 .. N
Tramas == [Celdas -> Voltajes]

VARIABLES
  trama,     \* bufferReceiver: the cells of the frame received last
  celdas,    \* cells_voltage
  media,     \* cell_Vavrg
  vmax,      \* cell_number_vmax
  vmin,      \* cell_number_vmin
  delta,     \* delta_cell_voltage
  pcP,       \* the parser: its next statement
  i,         \* the cell it writes next
  pcS,       \* the sender: its next statement
  mensaje,   \* the frame it builds
  inversor   \* the last such frame it handed over

infoVars == <<celdas, media, vmax, vmin, delta>>
parserVars == <<trama, pcP, i>>
senderVars == <<pcS, mensaje, inversor>>
celdasVars == <<infoVars, parserVars, senderVars>>

Vacio == [celdaMax |-> 0, celdaMin |-> 0, max |-> 0, min |-> 0]

CeldasInit ==
  /\ celdas = [c \in Celdas |-> 0]
  /\ media = 0 /\ vmax = 0 /\ vmin = 0 /\ delta = 0
  /\ trama = [c \in Celdas |-> 0] /\ pcP = "espera" /\ i = 1
  /\ pcS = "espera" /\ mensaje = Vacio /\ inversor = Vacio
----------------------------------------------------------------------------
(* The parser. *)

PasoP(de, a) == pcP = de /\ pcP' = a /\ UNCHANGED <<trama, senderVars>>

\* A frame is taken from the queue.
Recibe ==
  /\ pcP = "espera" /\ pcP' = "celda"
  /\ trama' \in Tramas /\ i' = 1
  /\ UNCHANGED <<infoVars, senderVars>>

\* Mutant: the loop ends before the last cell.
MutanteEscribeCelda ==
  /\ pcP = "celda" /\ pcP' = (IF i >= N - 1 THEN "media" ELSE "celda")
  /\ celdas' = [celdas EXCEPT ![i] = trama[i]]
  /\ i' = i + 1
  /\ UNCHANGED <<trama, media, vmax, vmin, delta, senderVars>>

EscribeCelda ==
  /\ pcP = "celda" /\ pcP' = (IF i = N THEN "media" ELSE "celda")
  /\ celdas' = [celdas EXCEPT ![i] = trama[i]]
  /\ i' = i + 1
  /\ UNCHANGED <<trama, media, vmax, vmin, delta, senderVars>>

\* uint32_t, which all the cells there can be do not fill.
Suma(v) ==
  LET hasta[c \in 0 .. N] == IF c = 0 THEN 0 ELSE hasta[c - 1] + v[c]
  IN  hasta[N]

cell_average_voltage ==
  /\ PasoP("media", "max")
  /\ media' = Suma(celdas) \div N
  /\ UNCHANGED <<celdas, vmax, vmin, delta, i>>

\* The first of the cells with the highest voltage, and with the lowest.
Mayor(v) == CHOOSE c \in Celdas : /\ \A d \in Celdas : v[d] <= v[c]
                                  /\ \A d \in Celdas : d < c => v[d] < v[c]
Menor(v) == CHOOSE c \in Celdas : /\ \A d \in Celdas : v[c] <= v[d]
                                  /\ \A d \in Celdas : d < c => v[c] < v[d]

cell_number_vmax ==
  /\ PasoP("max", "min")
  /\ vmax' = Mayor(celdas)
  /\ UNCHANGED <<celdas, media, vmin, delta, i>>

cell_number_vmin ==
  /\ PasoP("min", "delta")
  /\ vmin' = Menor(celdas)
  /\ UNCHANGED <<celdas, media, vmax, delta, i>>

\* uint16_t.
delta_cell_voltage ==
  /\ PasoP("delta", "espera")
  /\ delta' = (celdas[vmax] - celdas[vmin]) % 65536
  /\ i' = 1
  /\ UNCHANGED <<celdas, media, vmax, vmin>>

Parse == EscribeCelda \/ cell_average_voltage \/ cell_number_vmax \/ cell_number_vmin
           \/ delta_cell_voltage
----------------------------------------------------------------------------
(* The sender: parseJK_message_0x4230. *)

PasoS(de, a) == pcS = de /\ pcS' = a /\ UNCHANGED <<infoVars, parserVars>>

Voltaje(c) == IF c = 0 THEN 0 ELSE celdas[c]

LeeCeldaMax ==
  /\ PasoS("espera", "celdaMin")
  /\ mensaje' = [mensaje EXCEPT !.celdaMax = vmax]
  /\ UNCHANGED inversor

LeeCeldaMin ==
  /\ PasoS("celdaMin", "max")
  /\ mensaje' = [mensaje EXCEPT !.celdaMin = vmin]
  /\ UNCHANGED inversor

LeeVoltajeMax ==
  /\ PasoS("max", "min")
  /\ mensaje' = [mensaje EXCEPT !.max = Voltaje(mensaje.celdaMax)]
  /\ UNCHANGED inversor

\* Mutant: the voltage of the other cell.
MutanteLeeVoltajeMin ==
  /\ PasoS("min", "envia")
  /\ mensaje' = [mensaje EXCEPT !.min = Voltaje(mensaje.celdaMax)]
  /\ UNCHANGED inversor

LeeVoltajeMin ==
  /\ PasoS("min", "envia")
  /\ mensaje' = [mensaje EXCEPT !.min = Voltaje(mensaje.celdaMin)]
  /\ UNCHANGED inversor

Envia ==
  /\ PasoS("envia", "espera")
  /\ inversor' = mensaje
  /\ mensaje' = Vacio

Sender == LeeCeldaMax \/ LeeCeldaMin \/ LeeVoltajeMax \/ LeeVoltajeMin \/ Envia

CeldasNext == Recibe \/ Parse \/ Sender

\* A frame once taken is parsed to its end, and the inverter keeps asking.
Equidad == WF_celdasVars(Parse) /\ WF_celdasVars(Sender)

CeldasSpec == CeldasInit /\ [][CeldasNext]_celdasVars

CeldasSpecJusta == CeldasSpec /\ Equidad
----------------------------------------------------------------------------
(* Properties. *)

Cero == {0} \cup Voltajes

\* Every variable keeps to its values, and there is no cell 0 after a frame.
CeldasTypeOK ==
  /\ trama \in [Celdas -> Cero] /\ celdas \in [Celdas -> Cero]
  /\ media \in Nat /\ delta \in Nat /\ delta <= 65535
  /\ vmax \in 0 .. N /\ vmin \in 0 .. N
  /\ pcP # "min" => (vmax = 0 <=> vmin = 0)
  /\ pcP \in {"espera", "celda", "media", "max", "min", "delta"} /\ i \in 1 .. N + 1
  /\ (pcP = "celda" => i \in Celdas)
  /\ pcS \in {"espera", "celdaMin", "max", "min", "envia"}
  /\ \A m \in {mensaje, inversor} :
       /\ m.celdaMax \in 0 .. N /\ m.celdaMin \in 0 .. N
       /\ m.max \in Cero /\ m.min \in Cero

\* Between two frames everything that was derived belongs to the cells of the
\* last one: its cells, an average between the lowest and the highest, and a
\* difference that is not that of an earlier frame nor below zero.
ResumenCoherente ==
  (pcP = "espera" /\ vmax # 0) =>
    /\ celdas = trama
    /\ \A c \in Celdas : celdas[vmin] <= celdas[c] /\ celdas[c] <= celdas[vmax]
    /\ celdas[vmin] <= media /\ media <= celdas[vmax]
    /\ delta = celdas[vmax] - celdas[vmin]

\* When the battery stops changing, or the frames stop, the inverter comes to
\* be told the two voltages of that battery, each with its cell (once there was
\* a frame).
CeldasAlDia ==
  (<>[][FALSE]_trama /\ <>(trama \in Tramas)) =>
    <>[](inversor = [celdaMax |-> Mayor(trama), celdaMin |-> Menor(trama),
                     max |-> trama[Mayor(trama)], min |-> trama[Menor(trama)]])
=============================================================================
