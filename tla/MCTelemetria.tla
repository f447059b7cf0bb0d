---------------------------- MODULE MCTelemetria ----------------------------
(* The ends of every range and a normal value.                             *)
EXTENDS Telemetria

MCTemperaturas == {-40, -1, 0, 20, 21, 25, 99, 100}

\* 10080 are 24 cells at 4.2 V.
MCTensiones == {0, 5359, 5670, 6553, 6554, 10080, 32767}

MCCorrientes == {-32767, -105, -9, -1, 0, 1, 15, 32767}

\* 1514 cycles are 100 % of the life of the battery, 1515 are 101 %.
MCCiclos == {0, 4, 1500, 1514, 1515, 65535}

\* Alarms alone and together.
MCAlarmas == {{a} : a \in Avisos} \cup
  {{}, {"battery_low_temperature", "low_capacity"},
   {"overtemperature_alarm_battery_box", "cell_pressure_difference"},
   {"discharging_overcurrent", "charging_overvoltage"}}
=============================================================================
