--------------------------- MODULE Configuracion ---------------------------
(***************************************************************************)
(* The members of the configuration that the charge control reads and      *)
(* writes: the two permissions and the limits of struct Bateria.  A C bool *)
(* of Bateria is stored as 0 or 1, so that one form field is one number.   *)
(***************************************************************************)
EXTENDS Naturals, Persistencia

CONSTANT
  VoltajeBorrado   \* what an erased EEPROM holds in the two stop voltages

ASSUME VoltajeBorradoEsUint == VoltajeBorrado \in Nat

LimitesSOC == {"soc_max_stop_carga", "soc_min_restart_carga",
               "soc_max_restart_descarga", "soc_min_stop_descarga"}
LimitesVoltaje == {"stopCargaPorVoltaje", "voltajeStopCarga",
                   "stopDescargaPorVoltaje", "voltajeStopDescarga"}
CamposBateria == LimitesSOC \cup LimitesVoltaje

Config == [habilitarCarga    : BOOLEAN,
           habilitarDescarga : BOOLEAN,
           bateria           : [CamposBateria -> Nat]]

\* The assignments of configuracionInicial to members of Bateria, in its order.
AsignacionesIniciales ==
  << <<"soc_max_restart_descarga", 25>>, <<"soc_min_stop_descarga", 8>>,
     <<"soc_max_stop_carga", 95>>, <<"soc_min_restart_carga", 80>>,
     <<"stopCargaPorVoltaje", 0>>, <<"stopDescargaPorVoltaje", 0>> >>

\* Where they leave the limits of an erased struct: the two stop voltages are
\* not assigned.
PorDefecto ==
  [c \in CamposBateria |->
     IF \E i \in DOMAIN AsignacionesIniciales : AsignacionesIniciales[i][1] = c
     THEN (CHOOSE a \in {AsignacionesIniciales[i] : i \in DOMAIN AsignacionesIniciales} :
             a[1] = c)[2]
     ELSE VoltajeBorrado]

ConfigFabrica == [habilitarCarga |-> FALSE, habilitarDescarga |-> FALSE,
                  bateria |-> PorDefecto]

ConfigInit ==
  /\ cfg = ConfigFabrica
  /\ buf = ConfigFabrica
  /\ flash = ConfigFabrica
  /\ abierta = TRUE
=============================================================================
