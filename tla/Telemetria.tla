----------------------------- MODULE Telemetria -----------------------------
(***************************************************************************)
(* What the BMS measures, as the inverter gets to read it: the words of    *)
(* the RS485 frame, Parse_JK_Battery_485_Status_Frame and calcularSOH      *)
(* (jk_bms_485.cpp), and the builders of the CAN frames of both protocols  *)
(* (pylon_can.cpp, pylonHV_can.cpp), with the widths of their integers.    *)
(*                                                                         *)
(* Constant bytes (names, versions, number of modules) are left out, and a *)
(* byte of flags is the set of its bits.  The frames of a burst are built  *)
(* from one reading; what happens when the next one comes in between is in *)
(* PermissionFeed, LimitFeed and CellFeed.                                 *)
(***************************************************************************)
EXTENDS Integers

CONSTANTS
  Temperaturas,  \* degrees
  Tensiones,     \* 0.01 V
  Corrientes,    \* 0.01 A, charging positive
  Limites,       \* A
  Ciclos,        \* charge cycles the battery has had
  Alarmas        \* sets of alarms that occur together

\* The alarms of the warning word (jk_bms_485.cpp:313-326).
Avisos == {"low_capacity", "power_tube_overtemperature", "charging_overvoltage",
           "discharging_undervoltage", "battery_over_temperature",
           "charging_overcurrent", "discharging_overcurrent",
           "cell_pressure_difference", "overtemperature_alarm_battery_box",
           "battery_low_temperature", "cell_overvoltage", "cell_undervoltage",
           "a_protection_309_1", "a_protection_309_2"}

\* What the words of the BMS can carry: -40 to 100 degrees, a voltage and 15
\* bits of current, and limits that stay within the offset of 3000 A.
Grados(t) == t \in Int /\ -40 <= t /\ t <= 100
Tension(v) == v \in Int /\ 0 <= v /\ v <= 32767
Corriente(i) == i \in Int /\ -32767 <= i /\ i <= 32767
Limite(a) == a \in Int /\ 0 <= a /\ a <= 3000

ASSUME Rangos ==
  /\ \A t \in Temperaturas : Grados(t)
  /\ \A v \in Tensiones : Tension(v)
  /\ \A i \in Corrientes : Corriente(i)
  /\ \A a \in Limites : Limite(a)

ASSUME CiclosDe16 == Ciclos \subseteq 0 .. 65535
ASSUME AlarmasConocidas == Alarmas \subseteq SUBSET Avisos

VARIABLES
  medida,  \* what the BMS measured
  jk,      \* jk_bms_battery_info
  error,   \* configuracion.errorComunicacionJK
  lv,      \* the frames of the low voltage protocol as sent last
  hv       \* those of the high voltage protocol

vars == <<medida, jk, error, lv, hv>>

----------------------------------------------------------------------------
(* Integers of C. *)

Sin16(x) == x % 65536
Con16(x) == IF x % 65536 >= 32768 THEN (x % 65536) - 65536 ELSE x % 65536
Con8(x) == IF x % 256 >= 128 THEN (x % 256) - 256 ELSE x % 256

DivC(a, b) == IF a >= 0 THEN a \div b ELSE -((-a) \div b)

Bit(n, puesto) == IF puesto THEN {n} ELSE {}

----------------------------------------------------------------------------
(* The BMS and the parser. *)

\* Cycles in the life of the three chemistries the BMS reports.
Vidas == {1500, 3000, 10000}

Medidas == [tubo : Temperaturas, t1 : Temperaturas, t2 : Temperaturas, v : Tensiones,
            i : Corrientes, cargaV : Tensiones, cargaA : Limites, descargaA : Limites,
            ciclos : Ciclos, vida : Vidas, alarmas : Alarmas, emergencia : BOOLEAN]

Normal == [tubo |-> 25, t1 |-> 20, t2 |-> 21, v |-> 5359, i |-> 0, cargaV |-> 5670,
           cargaA |-> 100, descargaA |-> 100, ciclos |-> 4, vida |-> 1500, alarmas |-> {},
           emergencia |-> FALSE]

\* The readings that occur: extremes of one kind, or of two that are computed
\* together.
Tubo(t) == [Normal EXCEPT !.tubo = t]
Sensores(a, b) == [Normal EXCEPT !.t1 = a, !.t2 = b]
Potencia(a, b) == [Normal EXCEPT !.v = a, !.i = b]
Pedido(a, b, c) == [Normal EXCEPT !.cargaV = a, !.cargaA = b, !.descargaA = c]
Vivido(c, q) == [Normal EXCEPT !.ciclos = c, !.vida = q]
Alarmado(a, b, m) == [Normal EXCEPT !.alarmas = a, !.i = b, !.emergencia = m]

Lecturas ==
  {Tubo(t) : t \in Temperaturas}
    \cup {Sensores(a, b) : a \in Temperaturas, b \in Temperaturas}
    \cup {Potencia(a, b) : a \in Tensiones, b \in Corrientes}
    \cup {Pedido(a, b, c) : a \in Tensiones, b \in Limites, c \in Limites}
    \cup {Vivido(c, q) : c \in Ciclos, q \in Vidas}
    \cup {Alarmado(a, b, m) : a \in Alarmas, b \in Corrientes, m \in BOOLEAN}

\* The words of the BMS: above 100 the degrees below zero, and bit 15 of the
\* current for the charge.
PalabraTemperatura(t) == IF t < 0 THEN 100 - t ELSE t
PalabraCorriente(i) == IF i > 0 THEN 32768 + i ELSE -i

getTemperature(value) == Con8(IF value > 100 THEN 100 - value ELSE value)

\* Mutant: the bit of the sign is not taken off.
MutanteGetCurrent(value) == Con16(IF value >= 32768 THEN value ELSE -value)

getCurrent(value) == Con16(IF value >= 32768 THEN value - 32768 ELSE -value)

\* Percentage left of the cycles of a life, in eight bits.
calcularSOH(ciclos, vida) == (100 - Sin16((ciclos * 100) \div vida)) % 256

ParseJK(m) ==
  [tubo |-> getTemperature(PalabraTemperatura(m.tubo)),
   t1 |-> getTemperature(PalabraTemperatura(m.t1)),
   t2 |-> getTemperature(PalabraTemperatura(m.t2)),
   v |-> m.v, i |-> getCurrent(PalabraCorriente(m.i)),
   cargaV |-> m.cargaV, cargaA |-> m.cargaA, descargaA |-> m.descargaA,
   soh |-> calcularSOH(m.ciclos, m.vida), alarmas |-> m.alarmas,
   emergencia |-> m.emergencia]

----------------------------------------------------------------------------
(* Low voltage frames.  jk is written a. *)

Calor(a) == \E x \in {"battery_over_temperature", "overtemperature_alarm_battery_box",
                      "power_tube_overtemperature"} : x \in a

\* Mutant: no bit for the current of the discharge.
MutanteTabla1(a) == Bit(4, "battery_low_temperature" \in a) \cup Bit(3, Calor(a))
               \cup Bit(2, "cell_undervoltage" \in a) \cup Bit(1, "cell_overvoltage" \in a)

\* Tables 1 and 3, and 2 and 4, of 0x359 are the same bits.
Tabla1(a) == Bit(7, "discharging_overcurrent" \in a)
               \cup Bit(4, "battery_low_temperature" \in a) \cup Bit(3, Calor(a))
               \cup Bit(2, "cell_undervoltage" \in a) \cup Bit(1, "cell_overvoltage" \in a)
Tabla2(a, e) == Bit(3, e) \cup Bit(0, "charging_overcurrent" \in a)

\* Mutant: the mean of the temperatures is added up in eight bits.
Mutante356(j) ==
  [v |-> Sin16(j.v), i |-> Sin16(DivC(j.i, 10)),
   t |-> Sin16(DivC(Con8(j.t1 + j.t2), 2) * 10)]

parseJK_message_0x356(j) ==
  [v |-> Sin16(j.v), i |-> Sin16(DivC(j.i, 10)),
   t |-> Sin16(DivC(j.t1 + j.t2, 2) * 10)]

parseJK_message_0x351(j) ==
  [v |-> j.cargaV \div 10, carga |-> Sin16(j.cargaA * 10),
   descarga |-> Sin16(-10 * j.descargaA)]

TramasLV(j, e) ==
  [x359 |-> [tabla1 |-> Tabla1(j.alarmas), tabla2 |-> Tabla2(j.alarmas, e)],
   x351 |-> parseJK_message_0x351(j),
   x355 |-> [soh |-> j.soh],
   x356 |-> parseJK_message_0x356(j)]
----------------------------------------------------------------------------
(* High voltage frames: an offset of 100 degrees or 3000 A. *)

Peor(j) ==
  LET menor == IF j.t1 >= j.t2 THEN j.t2 ELSE j.t1
      mayor == IF j.t1 >= j.t2 THEN j.t1 ELSE j.t2
  IN IF j.t1 <= 0 \/ j.t2 <= 0 THEN menor ELSE mayor

parseJK_message_0x4210(j) ==
  [v |-> j.v \div 10, i |-> Sin16(DivC(j.i, 10) + 30000),
   t |-> Sin16(1000 + Peor(j) * 10), soh |-> j.soh]

parseJK_message_0x4220(j) ==
  [v |-> j.cargaV \div 10, carga |-> Sin16(30000 + j.cargaA * 10),
   descarga |-> Sin16(30000 - j.descargaA * 10)]

parseJK_message_0x4240(j) ==
  [t1 |-> Sin16(1000 + Sin16(j.t1) * 10), t2 |-> Sin16(1000 + Sin16(j.t2) * 10)]

\* With an alarm other than the low capacity the battery is idle (3).
Estado(j) ==
  IF j.alarmas \ {"low_capacity"} # {} THEN 3
  ELSE IF j.i > 0 THEN 1 ELSE IF j.i < 0 THEN 2 ELSE 0

\* Bits 0 to 2 are the state; bit 3 requests a forced charge, with an alarm too.
Basico(j) == Estado(j) + (IF j.emergencia THEN 8 ELSE 0)

AlarmaHV(j) ==
  LET a == j.alarmas
      caliente == "battery_over_temperature" \in a
      fria == "battery_low_temperature" \in a
  IN Bit(12, j.tubo > 70)
       \cup Bit(9, "discharging_overcurrent" \in a) \cup Bit(8, "charging_overcurrent" \in a)
       \cup Bit(7, caliente) \cup Bit(6, fria) \cup Bit(5, caliente) \cup Bit(4, fria)
       \cup Bit(3, "charging_overvoltage" \in a) \cup Bit(2, "discharging_undervoltage" \in a)
       \cup Bit(1, "cell_overvoltage" \in a) \cup Bit(0, "cell_undervoltage" \in a)

ErrorHV(a, e) ==
  Bit(6, "cell_overvoltage" \in a \/ "cell_undervoltage" \in a)
    \cup Bit(3, "charging_overvoltage" \in a) \cup Bit(2, e)

parseJK_message_0x4260(j) == [v |-> Sin16(j.v * 10)]

\* Mutant: the sensors are compared without the offset.
Mutante4270(j) ==
  LET sensor1 == Sin16(j.t1 * 10)
      sensor2 == Sin16(j.t2 * 10)
      mayor == IF sensor1 >= sensor2 THEN sensor1 ELSE sensor2
      menor == IF sensor1 >= sensor2 THEN sensor2 ELSE sensor1
  IN [mayor |-> Sin16(1000 + mayor), menor |-> Sin16(1000 + menor)]

parseJK_message_0x4270(j) ==
  LET sensor1 == Sin16(1000 + j.t1 * 10)
      sensor2 == Sin16(1000 + j.t2 * 10)
  IN [mayor |-> IF sensor1 >= sensor2 THEN sensor1 ELSE sensor2,
      menor |-> IF sensor1 >= sensor2 THEN sensor2 ELSE sensor1]

TramasHV(j, e) ==
  [x4210 |-> parseJK_message_0x4210(j), x4220 |-> parseJK_message_0x4220(j),
   x4240 |-> parseJK_message_0x4240(j),
   x4250 |-> [basico |-> Basico(j), error |-> ErrorHV(j.alarmas, e), alarma |-> AlarmaHV(j)],
   x4260 |-> parseJK_message_0x4260(j), x4270 |-> parseJK_message_0x4270(j),
   x4290 |-> Bit(2, e)]
----------------------------------------------------------------------------
\* Nothing was sent since the last reading.
Nada == [x |-> "nada"]

\* After the first frame; what is sent before it is in CellFeed and PermissionFeed.
Init ==
  /\ medida = Normal /\ jk = ParseJK(Normal) /\ error \in BOOLEAN
  /\ lv = Nada /\ hv = Nada

\* A frame of the BMS is parsed.
Mide ==
  /\ medida' \in Lecturas
  /\ jk' = ParseJK(medida')
  /\ error' = FALSE
  /\ lv' = Nada /\ hv' = Nada

\* The BMS does not answer.
Calla ==
  /\ error' = TRUE
  /\ lv' = Nada /\ hv' = Nada
  /\ UNCHANGED <<medida, jk>>

EnviaLV == lv' = TramasLV(jk, error) /\ UNCHANGED <<medida, jk, error, hv>>

EnviaHV == hv' = TramasHV(jk, error) /\ UNCHANGED <<medida, jk, error, lv>>

Next == Mide \/ Calla \/ EnviaLV \/ EnviaHV

Spec == Init /\ [][Next]_vars
----------------------------------------------------------------------------
(* Properties: the inverter reads 16 bits with or without sign, in the units of *)
(* the tables of pylon_can.h and of the comments of pylonHV_can.cpp.           *)

Abs(x) == IF x < 0 THEN -x ELSE x

\* What was parsed is in the range of what can be measured, and every word fits
\* its two bytes.
TypeOK ==
  /\ medida \in Medidas /\ error \in BOOLEAN
  /\ jk.i \in -32767 .. 32767 /\ {jk.tubo, jk.t1, jk.t2} \subseteq -40 .. 100
  /\ jk.soh \in 0 .. 255
  /\ lv # Nada => {lv.x356.v, lv.x356.i, lv.x356.t, lv.x351.v, lv.x351.carga,
                   lv.x351.descarga} \subseteq 0 .. 65535
  /\ hv # Nada => {hv.x4210.v, hv.x4210.i, hv.x4210.t, hv.x4220.v, hv.x4220.carga,
                   hv.x4220.descarga} \subseteq 0 .. 65535

\* The low voltage inverter reads the voltage that was measured, the current
\* to 0.1 A and with its sign, the mean temperature to one degree, and the
\* limits, the discharge one negative (pylon_can.h:13-19).
LecturaLV ==
  lv # Nada =>
    /\ Con16(lv.x356.v) = medida.v
    /\ Abs(10 * Con16(lv.x356.i) - medida.i) < 10
    /\ Con16(lv.x356.i) * medida.i >= 0
    /\ Abs(2 * Con16(lv.x356.t) - 10 * (medida.t1 + medida.t2)) <= 10
    /\ medida.cargaV - 10 * lv.x351.v \in 0 .. 9
    /\ Con16(lv.x351.carga) = 10 * medida.cargaA
    /\ Con16(lv.x351.descarga) = -10 * medida.descargaA

\* The high voltage inverter reads the same battery: the voltage to 0.1 V, the
\* current to 0.1 A and with its sign, the limits, the temperature of each sensor and,
\* while sixteen bits can hold it in millivolts, the voltage of the module.
LecturaHV ==
  hv # Nada =>
    /\ medida.v - 10 * hv.x4210.v \in 0 .. 9
    /\ Abs(10 * (hv.x4210.i - 30000) - medida.i) < 10
    /\ (hv.x4210.i - 30000) * medida.i >= 0
    /\ medida.cargaV - 10 * hv.x4220.v \in 0 .. 9
    /\ hv.x4220.carga - 30000 = 10 * medida.cargaA
    /\ 30000 - hv.x4220.descarga = 10 * medida.descargaA
    /\ hv.x4240.t1 - 1000 = 10 * medida.t1 /\ hv.x4240.t2 - 1000 = 10 * medida.t2
    /\ medida.v < 6554 => hv.x4260.v = 10 * medida.v

\* The frames of one burst agree about the heat and the cold: the highest
\* temperature is not below the lowest one, they are those of the sensors, and
\* the temperature of the battery is the cold one when something freezes.
Extremos ==
  hv # Nada =>
    /\ hv.x4270.mayor >= hv.x4270.menor
    /\ {hv.x4270.mayor, hv.x4270.menor} = {hv.x4240.t1, hv.x4240.t2}
    /\ hv.x4210.t = (IF hv.x4270.menor <= 1000 THEN hv.x4270.menor ELSE hv.x4270.mayor)

\* An alarm the inverter of either protocol is told: it was measured exactly when
\* its bit of 0x359 is there, and so is each of its bits in 0x4250.
EnLosDos(aviso, enLV, bitsHV) ==
  /\ (aviso \in medida.alarmas) = enLV
  /\ \A b \in bitsHV : (b \in hv.x4250.alarma) = enLV

\* An inverter of either protocol is told the same of the battery.  Each of the
\* five alarms both can name has its bit in 0x359 exactly when it has those of
\* charge and discharge in 0x4250, and exactly when it was measured; the heat
\* of the battery too, except that 0x359 has the same bit for the box and the
\* tube.  A cell out of its limits is a fault of both, and silence is told in
\* all three frames.  With one of these alarms the state is idle, neither charge nor
\* discharge: "con cualquier alarma, excepto aviso baja capacidad b0, se envía
\* estado inactivo" (pylonHV_can.cpp:180).  The request to force a charge next to
\* the state is there exactly with the emergency of the BMS, alarm or not.
MismasAlarmas ==
  (lv # Nada /\ hv # Nada) =>
    LET tabla1 == lv.x359.tabla1
        tabla2 == lv.x359.tabla2
        estado == hv.x4250
    IN /\ EnLosDos("discharging_overcurrent", 7 \in tabla1, {9})
       /\ EnLosDos("charging_overcurrent", 0 \in tabla2, {8})
       /\ EnLosDos("battery_low_temperature", 4 \in tabla1, {4, 6})
       /\ EnLosDos("cell_undervoltage", 2 \in tabla1, {0})
       /\ EnLosDos("cell_overvoltage", 1 \in tabla1, {1})
       /\ (5 \in estado.alarma) = (7 \in estado.alarma)
       /\ 5 \in estado.alarma => 3 \in tabla1
       /\ (6 \in estado.error) = (1 \in tabla1 \/ 2 \in tabla1)
       /\ (3 \in tabla2) = (2 \in estado.error)
       /\ (2 \in estado.error) = (2 \in hv.x4290)
       /\ (tabla1 # {} \/ 0 \in tabla2) => estado.basico % 8 = 3
       /\ estado.basico \div 8 = (IF medida.emergencia THEN 1 ELSE 0)
=============================================================================
