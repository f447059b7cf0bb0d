--------------------------- MODULE AlarmaSilencio ---------------------------
(***************************************************************************)
(* What the firmware promises about a silent BMS, seen from outside: an    *)
(* alarm that is never raised before `Minimo' seconds of silence, never    *)
(* still missing after `Maximo' while the clock runs, and that a good      *)
(* frame clears.                                                           *)
(* BmsLink implements it.                                                  *)
(***************************************************************************)
EXTENDS Naturals

CONSTANTS Minimo, Maximo

VARIABLES
  silencio,   \* seconds since the last good frame, or since power on
  alarma

vars == <<silencio, alarma>>

\* The alarm may be the one of before the last restart.
Init == silencio = 0 /\ alarma \in BOOLEAN

\* Time may not pass the limit without the alarm.
Segundo == /\ silencio < Maximo \/ alarma
           /\ silencio' \in {silencio, silencio + 1}
           /\ UNCHANGED alarma

Avisa == /\ silencio >= Minimo
         /\ alarma' = TRUE
         /\ UNCHANGED silencio

Trama == silencio' = 0 /\ alarma' = FALSE

\* The reset button clears it; time does not pass before the restart.
Borra == alarma' = FALSE /\ UNCHANGED silencio

Enciende == silencio' = 0 /\ alarma' \in BOOLEAN

Next == Segundo \/ Avisa \/ Trama \/ Borra \/ Enciende

Spec == Init /\ [][Next]_vars
=============================================================================
