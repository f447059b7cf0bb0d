------------------------------- MODULE Rampas -------------------------------
(***************************************************************************)
(* The ramps of current: ajustarAmperiosCargaDescarga (tareas.cpp:562-652) *)
(*                                                                         *)
(* After every frame of the BMS the parser copies the five rules of a ramp *)
(* into local arrays, looks for the two between which the SOC (or the      *)
(* voltage of a cell) lies, and interpolates the current.  It does so for  *)
(* the charge, and then, with the rules turned round and the same `indice' *)
(* for the discharge.  The rules are what the pages of the ramps stored,   *)
(* one field at a time and unchecked, so that any five rules may be met:   *)
(* also half of an old table and half of a new one.                        *)
(***************************************************************************)
EXTENDS Integers

CONSTANTS
  Escalas,    \* SOC or mV of a rule
  Corrientes, \* Amp of a rule
  Valores     \* SOC or mV measured

\* uint16_t; with larger currents the product below would not fit a long.
ASSUME ReglasCaben ==
  /\ Escalas \subseteq Nat /\ Valores \subseteq Nat /\ Corrientes \subseteq Nat
  /\ \A n \in Escalas \cup Valores : n < 65536
  /\ \A n \in Corrientes : n < 32768

Indices == 0 .. 4

\* The rules of a ramp.
Reglas == [escala : [Indices -> Escalas], amp : [Indices -> Corrientes]]

\* Which ramp is being worked out: before, and when its limit is written.
Fases == {"carga", "hayCarga", "descarga", "hayDescarga"}

VARIABLES
  fase,
  reglas,    \* the rules it was worked out with, as configured
  valor,     \* what was measured
  indice,    \* the local array `indice', one for both ramps
  amperios   \* the limit it wrote

vars == <<fase, reglas, valor, indice, amperios>>

----------------------------------------------------------------------------
(* The functions of the code. *)

\* Division in C: towards zero.
DivC(a, b) == IF a >= 0 THEN a \div b ELSE -((-a) \div b)

\* The first rule with the value, where the loop breaks off, and the last
\* pair of rules around it, which the loop assigns last.
Iguales(v, escala) == {i \in Indices : escala[i] = v}
Entre(v, escala) == {i \in 1 .. 4 : escala[i - 1] < v /\ v < escala[i]}

Primero(S) == CHOOSE i \in S : \A j \in S : i <= j
Ultimo(S) == CHOOSE i \in S : \A j \in S : j <= i

\* Mutant: above the last rule is the rule before it.
MutanteUltimaRegla(v, antes, escala) ==
  IF v < escala[0] THEN <<0, 0>>
  ELSE IF v > escala[4] THEN <<3, 3>>
  ELSE IF Iguales(v, escala) # {}
  THEN <<Primero(Iguales(v, escala)), Primero(Iguales(v, escala))>>
  ELSE IF Entre(v, escala) # {}
  THEN <<Ultimo(Entre(v, escala)) - 1, Ultimo(Entre(v, escala))>>
  ELSE antes

\* Below the first rule and above the last one is that rule.  What none of the
\* branches assigns keeps the value it had.
getIndexLimit(v, antes, escala) ==
  IF v < escala[0] THEN <<0, 0>>
  ELSE IF v > escala[4] THEN <<4, 4>>
  ELSE IF Iguales(v, escala) # {}
  THEN <<Primero(Iguales(v, escala)), Primero(Iguales(v, escala))>>
  ELSE IF Entre(v, escala) # {}
  THEN <<Ultimo(Entre(v, escala)) - 1, Ultimo(Entre(v, escala))>>
  ELSE antes

\* Mutant: the value is not taken relative to the lower rule.
MutanteInterpolacion(x, inMin, inMax, outMin, outMax) ==
  IF inMax - inMin = 0 THEN outMin
  ELSE DivC(x * (outMax - outMin) + (inMax - inMin) \div 2, inMax - inMin) + outMin

interpolacion(x, inMin, inMax, outMin, outMax) ==
  IF inMax - inMin = 0 THEN outMin
  ELSE DivC((x - inMin) * (outMax - outMin) + (inMax - inMin) \div 2, inMax - inMin) + outMin

\* The current the copied rules give at the indices found.
Amperios(v, ind, escala, amp) ==
  interpolacion(v, escala[ind[1]], escala[ind[2]], amp[ind[1]], amp[ind[2]]) % 65536

\* Mutant: the rules of the discharge are taken in the order of the charge.
MutanteVoltea(f) == f

\* The rules of the discharge are configured from the highest to the lowest.
Voltea(f) == [i \in Indices |-> f[4 - i]]

----------------------------------------------------------------------------
SinReglas == [escala |-> [i \in Indices |-> 0], amp |-> [i \in Indices |-> 0]]

\* Nothing of the last ramp is left.
Olvida == reglas' = SinReglas /\ valor' = 0 /\ amperios' = 0

Init ==
  /\ fase = "carga"
  /\ reglas = SinReglas /\ valor = 0 /\ amperios = 0
  /\ indice = <<0, 0>>

\* The two ramps of a call: battery_charge_current_limit ...
RampaCarga ==
  /\ fase = "carga" /\ fase' = "hayCarga"
  /\ reglas' \in Reglas /\ valor' \in Valores
  /\ indice' = getIndexLimit(valor', indice, reglas'.escala)
  /\ amperios' = Amperios(valor', indice', reglas'.escala, reglas'.amp)

Sigue ==
  /\ fase = "hayCarga" /\ fase' = "descarga"
  /\ UNCHANGED indice
  /\ Olvida

\* ... and battery_discharge_current_limit.
RampaDescarga ==
  /\ fase = "descarga" /\ fase' = "hayDescarga"
  /\ reglas' \in Reglas /\ valor' \in Valores
  /\ indice' = getIndexLimit(valor', indice, Voltea(reglas'.escala))
  /\ amperios' = Amperios(valor', indice', Voltea(reglas'.escala), Voltea(reglas'.amp))

\* The next call has its own array.
Termina ==
  /\ fase = "hayDescarga" /\ fase' = "carga"
  /\ indice' = <<0, 0>>
  /\ Olvida

Next == RampaCarga \/ Sigue \/ RampaDescarga \/ Termina

Spec == Init /\ [][Next]_vars
----------------------------------------------------------------------------
(* Properties. *)

\* The indices are those of one rule or of two neighbours.
TypeOK ==
  /\ fase \in Fases
  /\ reglas \in Reglas \cup {SinReglas}
  /\ valor \in Valores \cup {0}
  /\ indice \in Indices \X Indices
  /\ indice[2] \in {indice[1], indice[1] + 1}
  /\ amperios \in Nat /\ amperios < 65536

\* A limit was just written.
Escrito == fase \in {"hayCarga", "hayDescarga"}

\* Whatever five rules are found, in whatever order, the current is not lower
\* than all of them nor higher than all of them: the indices always are those
\* of rules around the value, so that nothing is extrapolated from the indices
\* of the other ramp, and no negative current turns into a large one.
EntreReglas ==
  Escrito => /\ \E i \in Indices : reglas.amp[i] <= amperios
             /\ \E i \in Indices : amperios <= reglas.amp[i]

\* The rules from the lowest to the highest, as the pages ask for them.
DeMenorAMayor(f) == IF fase = "hayDescarga" THEN [i \in Indices |-> f[4 - i]] ELSE f
Escala == DeMenorAMayor(reglas.escala)
Amp == DeMenorAMayor(reglas.amp)

\* They are in the order the pages expect.
Ordenadas == \A i \in 1 .. 4 : Escala[i - 1] < Escala[i]

\* Of ordered rules the current is the proportional one (README.md:43): to
\* half an ampere where it rises, and where it falls not below by more nor
\* above by one and a half or more, since the division is towards zero.
Proporcional ==
  (Escrito /\ Ordenadas) =>
     /\ valor <= Escala[0] => amperios = Amp[0]
     /\ valor >= Escala[4] => amperios = Amp[4]
     /\ \A i \in 1 .. 4 : (Escala[i - 1] <= valor /\ valor <= Escala[i]) =>
          LET ancho == Escala[i] - Escala[i - 1]
              salto == Amp[i] - Amp[i - 1]
              error == ancho * (amperios - Amp[i - 1]) - (valor - Escala[i - 1]) * salto
          IN 2 * error \in -ancho .. (IF salto >= 0 THEN ancho ELSE 3 * ancho - 1)

\* Of ordered rules whose current falls, the current never rises with the
\* value: a fuller battery is not given more.
NoSube ==
  (Escrito /\ Ordenadas /\ \A i \in 1 .. 4 : Amp[i] <= Amp[i - 1]) =>
     \A v \in Valores : v > valor =>
        Amperios(v, getIndexLimit(v, indice, Escala), Escala, Amp) <= amperios
=============================================================================
