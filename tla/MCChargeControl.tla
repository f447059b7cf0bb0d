-------------------------- MODULE MCChargeControl --------------------------
(* Small instances of ChargeControl. *)
EXTENDS ChargeControl, TLC

Bms(soc, v, c, d) == [soc |-> soc, voltaje |-> v, carga |-> c, descarga |-> d]

\* Full, within the charging band and over the stop voltage, middle, empty,
\* and a BMS that opened its charge switch.
MCTramas ==
  {Bms(97, 5500, TRUE, TRUE), Bms(85, 5700, TRUE, TRUE), Bms(50, 5300, TRUE, TRUE),
   Bms(5, 5000, TRUE, TRUE), Bms(15, 5200, FALSE, TRUE)}

\* A form that turns the stop voltage on with badly ordered SOC limits, and
\* one that comes with every box unchecked and nothing else.
MCFormularios ==
  {[valor   |-> ("soc_max_stop_carga" :> 40 @@ "voltajeStopCarga" :> 5600),
    marcado |-> {"stopCargaPorVoltaje"}],
   [valor   |-> <<>>, marcado |-> {}]}
=============================================================================
