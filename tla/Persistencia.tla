---------------------------- MODULE Persistencia ----------------------------
(***************************************************************************)
(* The three copies of the configuration.                                  *)
(*                                                                         *)
(* `configuracion' is one global struct (include/configuracion.h) that     *)
(* every task and every web handler reads and writes in place, without a   *)
(* lock.  It is made durable in two steps: EEPROM.put copies the struct    *)
(* into the buffer of the EEPROM library, EEPROM.commit writes that buffer *)
(* to flash.  After a restart the struct is what flash holds.              *)
(*                                                                         *)
(* Which members the struct has is left to the modules that extend this    *)
(* one: each keeps those that its component reads and writes.              *)
(***************************************************************************)

VARIABLES
  cfg,       \* the struct in RAM
  buf,       \* the buffer of the EEPROM library
  flash,     \* what survives a restart
  abierta    \* the library is open: FALSE after EEPROM.end()

cfgVars == <<cfg, buf, flash, abierta>>

\* EEPROM.put(0, configuracion): the closed library ignores it.
Put ==
  /\ buf' = IF abierta THEN cfg ELSE buf
  /\ UNCHANGED <<cfg, flash, abierta>>

\* EEPROM.commit(): the closed library ignores it.
Commit ==
  /\ flash' = IF abierta THEN buf ELSE flash
  /\ UNCHANGED <<cfg, buf, abierta>>

\* EEPROM.end(), after its own commit.
CierraEEPROM ==
  /\ abierta' = FALSE
  /\ flash' = IF abierta THEN buf ELSE flash
  /\ UNCHANGED <<cfg, buf>>

\* EEPROM.begin reads flash into the buffer and configuracionLeerEEPROM
\* the buffer into the struct: what setup() does first.
configuracionLeerEEPROM ==
  /\ cfg' = flash
  /\ buf' = flash
  /\ abierta' = TRUE
  /\ UNCHANGED flash
=============================================================================
