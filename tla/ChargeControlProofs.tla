------------------------ MODULE ChargeControlProofs ------------------------
(***************************************************************************)
(* Theorems about ChargeControl, for every set of frames and of forms and  *)
(* every number of polls before a reset.                                   *)
(***************************************************************************)
EXTENDS ChargeControl, SequenceTheorems, TLAPS

\* What configuracionInicial assigns are values of the fields it names.
LEMMA InicialTipo == AsignacionesIniciales \in Seq(Asignacion)
BY DEF AsignacionesIniciales, Asignacion, CamposBateria, LimitesSOC, LimitesVoltaje

\* A chip that was never configured holds a configuration.
LEMMA FabricaTipo == ConfigFabrica \in Config
<1>1. ASSUME NEW c \in CamposBateria PROVE PorDefecto[c] \in Nat
  <2> DEFINE A == {AsignacionesIniciales[i] : i \in DOMAIN AsignacionesIniciales}
  <2>1. \A a \in A : a[2] \in Nat
    BY InicialTipo, ElementOfSeq DEF Asignacion
  <2>2. CASE \E i \in DOMAIN AsignacionesIniciales : AsignacionesIniciales[i][1] = c
    <3>1. PICK a \in A : a[1] = c
      BY <2>2
    <3>2. (CHOOSE x \in A : x[1] = c) \in A
      BY <3>1
    <3> QED BY <2>1, <2>2, <3>2 DEF PorDefecto
  <2>3. CASE ~ \E i \in DOMAIN AsignacionesIniciales : AsignacionesIniciales[i][1] = c
    BY <2>3, VoltajeBorradoEsUint DEF PorDefecto
  <2> QED BY <2>2, <2>3
<1>2. PorDefecto \in [CamposBateria -> Nat]
  BY <1>1 DEF PorDefecto
<1> QED BY <1>2 DEF ConfigFabrica, Config

\* A field of a form, cut to the width of its member, is an assignment.
LEMMA SiVieneTipo ==
  ASSUME NEW f \in Formularios, NEW c \in CamposBateria
  PROVE  SiViene(f, c) \in Seq(Asignacion)
<1>1. EsFormulario(f)
  BY FormulariosSonFormularios
<1>2. Ancho(c) \in Nat \ {0}
  BY DEF Ancho
<1>3. CASE c \in DOMAIN f.valor
  <2>1. f.valor[c] % Ancho(c) \in Nat
    BY <1>1, <1>2, <1>3 DEF EsFormulario
  <2> QED BY <1>3, <2>1 DEF SiViene, Asignacion
<1>4. CASE c \notin DOMAIN f.valor
  BY <1>4 DEF SiViene
<1> QED BY <1>3, <1>4

\* So are the two of a check box.
LEMMA CasillaTipo ==
  ASSUME NEW f \in Formularios, NEW c \in CamposBateria
  PROVE  Casilla(f, c) \in Seq(Asignacion)
BY DEF Casilla, Asignacion

\* What the page of the SOC limits assigns are values of its fields.
LEMMA AsignacionesTipo ==
  ASSUME NEW f \in Formularios
  PROVE  AsignacionesLimitesSOC(f) \in Seq(Asignacion)
<1>1. \A c \in CamposBateria : SiViene(f, c) \in Seq(Asignacion)
                            /\ Casilla(f, c) \in Seq(Asignacion)
  BY SiVieneTipo, CasillaTipo
<1>2. {"soc_max_stop_carga", "soc_min_restart_carga", "soc_max_restart_descarga",
       "soc_min_stop_descarga", "stopCargaPorVoltaje", "voltajeStopCarga",
       "stopDescargaPorVoltaje", "voltajeStopDescarga"} \subseteq CamposBateria
  BY DEF CamposBateria, LimitesSOC, LimitesVoltaje
<1>3. \A s, t \in Seq(Asignacion) : s \o t \in Seq(Asignacion)
  BY ConcatProperties
<1> QED BY <1>1, <1>2, <1>3 DEF AsignacionesLimitesSOC

\* One assignment of a pending list keeps the types.
LEMMA AsignaTipo ==
  ASSUME TypeOK, NEW pend \in Seq(Asignacion), Asigna(pend)
  PROVE  /\ cfg' \in Config
         /\ Tail(pend) \in Seq(Asignacion)
         /\ cfg'.habilitarCarga = cfg.habilitarCarga
         /\ cfg'.habilitarDescarga = cfg.habilitarDescarga
<1>1. pend # <<>> /\ Head(pend) \in Asignacion /\ Tail(pend) \in Seq(Asignacion)
  BY HeadTailProperties DEF Asigna
<1>2. Head(pend)[1] \in CamposBateria /\ Head(pend)[2] \in Nat
  BY <1>1 DEF Asignacion
<1>3. cfg' = [cfg EXCEPT !.bateria[Head(pend)[1]] = Head(pend)[2]]
  BY DEF Asigna
<1> QED BY <1>1, <1>2, <1>3 DEF TypeOK, Config
----------------------------------------------------------------------------
(* Type correctness. *)

\* Writing a permission keeps the type, the other permission and the limits.
LEMMA PermisoTipo ==
  ASSUME NEW c \in Config, NEW b \in BOOLEAN
  PROVE  /\ [c EXCEPT !.habilitarCarga = b] \in Config
         /\ [c EXCEPT !.habilitarCarga = b].habilitarCarga = b
         /\ [c EXCEPT !.habilitarCarga = b].habilitarDescarga = c.habilitarDescarga
         /\ [c EXCEPT !.habilitarCarga = b].bateria = c.bateria
         /\ [c EXCEPT !.habilitarDescarga = b] \in Config
         /\ [c EXCEPT !.habilitarDescarga = b].habilitarDescarga = b
         /\ [c EXCEPT !.habilitarDescarga = b].habilitarCarga = c.habilitarCarga
         /\ [c EXCEPT !.habilitarDescarga = b].bateria = c.bateria
         /\ c.habilitarCarga \in BOOLEAN /\ c.habilitarDescarga \in BOOLEAN
         /\ c.bateria \in [CamposBateria -> Nat]
BY DEF Config

\* What a restart leaves in the parser and in the pages has its type.
LEMMA NulaTipo == TramaNula \in Trama /\ <<>> \in Seq(Asignacion)
BY DEF TramaNula, Trama

\* Every variable keeps its type, whatever frames and forms arrive.
THEOREM TipoCorrecto == Spec => []TypeOK
<1>1. Init => TypeOK
  <2> SUFFICES ASSUME Init PROVE TypeOK
    OBVIOUS
  <2>1. trama \in Trama /\ pendW \in Seq(Asignacion) /\ pendR \in Seq(Asignacion)
    BY NulaTipo DEF Init, TareasInit
  <2>2. cfg \in Config /\ buf \in Config /\ flash \in Config
    BY FabricaTipo DEF Init, ConfigInit
  <2>3. pulsado \in 0 .. UmbralReset
    BY UmbralResetEsNatural DEF Init, TareasInit
  <2> QED BY <2>1, <2>2, <2>3 DEF Init, ConfigInit, TareasInit, TypeOK
<1>2. TypeOK /\ [Next]_vars => TypeOK'
  <2> SUFFICES ASSUME TypeOK, [Next]_vars PROVE TypeOK'
    OBVIOUS
  <2> USE UmbralResetEsNatural
  <2>1. CASE Recibe
    BY <2>1, TramasSonTramas
       DEF Recibe, TypeOK, cfgVars, locales, webVars, resetVars, Pasa, FinControl, Put, Commit
  <2>2. CASE MiraVoltajeCarga
    BY <2>2
       DEF MiraVoltajeCarga, TypeOK, cfgVars, locales, webVars, resetVars, Pasa, FinControl, Put, Commit
  <2>3. CASE MiraVoltajeDescarga
    BY <2>3
       DEF MiraVoltajeDescarga, TypeOK, cfgVars, locales, webVars, resetVars, Pasa, FinControl, Put, Commit
  <2>4. CASE ConcedeDescarga
    <3>1. /\ cfg \in Config /\ cfg.habilitarDescarga \in BOOLEAN
          /\ [cfg EXCEPT !.habilitarDescarga = TRUE] \in Config
      BY PermisoTipo DEF TypeOK
    <3>2. cfg' \in Config
      BY <2>4, <3>1 DEF ConcedeDescarga
    <3> QED BY <2>4, <3>1, <3>2
          DEF ConcedeDescarga, TypeOK, cfgVars, locales, webVars, resetVars, Pasa
  <2>5. CASE RetiraDescarga
    <3>1. /\ cfg \in Config /\ cfg.habilitarDescarga \in BOOLEAN
          /\ [cfg EXCEPT !.habilitarDescarga = FALSE] \in Config
      BY PermisoTipo DEF TypeOK
    <3>2. cfg' \in Config
      BY <2>5, <3>1 DEF RetiraDescarga
    <3> QED BY <2>5, <3>1, <3>2
          DEF RetiraDescarga, TypeOK, cfgVars, locales, webVars, resetVars, Pasa
  <2>6. CASE ConcedeCarga
    <3>1. /\ cfg \in Config /\ cfg.habilitarCarga \in BOOLEAN
          /\ [cfg EXCEPT !.habilitarCarga = TRUE] \in Config
      BY PermisoTipo DEF TypeOK
    <3>2. cfg' \in Config
      BY <2>6, <3>1 DEF ConcedeCarga
    <3> QED BY <2>6, <3>1, <3>2
          DEF ConcedeCarga, TypeOK, cfgVars, locales, webVars, resetVars, Pasa
  <2>7. CASE RetiraCarga
    <3>1. /\ cfg \in Config /\ cfg.habilitarCarga \in BOOLEAN
          /\ [cfg EXCEPT !.habilitarCarga = FALSE] \in Config
      BY PermisoTipo DEF TypeOK
    <3>2. cfg' \in Config
      BY <2>7, <3>1 DEF RetiraCarga
    <3> QED BY <2>7, <3>1, <3>2
          DEF RetiraCarga, TypeOK, cfgVars, locales, webVars, resetVars, Pasa
  <2>8. CASE Decide
    BY <2>8
       DEF Decide, TypeOK, cfgVars, locales, webVars, resetVars, Pasa, FinControl, Put, Commit
  <2>9. CASE PutParser
    BY <2>9
       DEF PutParser, TypeOK, cfgVars, locales, webVars, resetVars, Pasa, FinControl, Put, Commit
  <2>10. CASE CommitParser
    BY <2>10
       DEF CommitParser, TypeOK, cfgVars, locales, webVars, resetVars, Pasa, FinControl, Put, Commit
  <2>11. CASE salvarlimitesSOC
    BY <2>11, AsignacionesTipo
       DEF salvarlimitesSOC, TypeOK, cfgVars, locales, webVars, resetVars, Asignacion
  <2>12. CASE salvarOtroAjuste
    BY <2>12
       DEF salvarOtroAjuste, TypeOK, cfgVars, locales, webVars, resetVars
  <2>13. CASE salvarWiFi
    BY <2>13
       DEF salvarWiFi, TypeOK, cfgVars, locales, webVars, resetVars
  <2>14. CASE AsignaWeb
    <3>1. pendW \in Seq(Asignacion) /\ Asigna(pendW)
      BY <2>14 DEF AsignaWeb, TypeOK, Asignacion
    <3>2. cfg' \in Config
      BY <3>1, AsignaTipo
    <3>3. pendW' \in Seq(Asignacion)
      <4>1. Tail(pendW) \in Seq(Asignacion)
        BY <3>1, AsignaTipo
      <4> QED BY <2>14, <4>1 DEF AsignaWeb
    <3>4. fresco' \in BOOLEAN /\ UNCHANGED <<buf, flash, abierta>>
      BY <2>14 DEF AsignaWeb, Asigna
    <3>5. UNCHANGED <<pcP, trama, cargar, descargar, hayCambio, pcW, pcR, pendR, pulsado>>
      BY <2>14 DEF AsignaWeb, locales, webVars, resetVars
    <3> QED BY <3>2, <3>3, <3>4, <3>5 DEF TypeOK
  <2>15. CASE PutWeb
    BY <2>15
       DEF PutWeb, TypeOK, cfgVars, locales, webVars, resetVars, Put
  <2>16. CASE CommitWeb
    BY <2>16
       DEF CommitWeb, TypeOK, cfgVars, locales, webVars, resetVars, Commit
  <2>17. CASE EndWeb
    BY <2>17
       DEF EndWeb, TypeOK, cfgVars, locales, webVars, resetVars, CierraEEPROM
  <2>18. CASE PulsaReset
    BY <2>18
       DEF PulsaReset, TypeOK, cfgVars, locales, webVars, resetVars
  <2>19. CASE InicialCarga
    <3>1. /\ cfg \in Config /\ cfg.habilitarCarga \in BOOLEAN
          /\ [cfg EXCEPT !.habilitarCarga = FALSE] \in Config
      BY PermisoTipo DEF TypeOK
    <3>2. cfg' \in Config
      BY <2>19, <3>1 DEF InicialCarga
    <3> QED BY <2>19, <3>1, <3>2
          DEF InicialCarga, TypeOK, cfgVars, locales, webVars, resetVars
  <2>20. CASE InicialDescarga
    <3>1. /\ cfg \in Config /\ cfg.habilitarDescarga \in BOOLEAN
          /\ [cfg EXCEPT !.habilitarDescarga = FALSE] \in Config
      BY PermisoTipo DEF TypeOK
    <3>2. cfg' \in Config
      BY <2>20, <3>1 DEF InicialDescarga
    <3> QED BY <2>20, <3>1, <3>2, InicialTipo
          DEF InicialDescarga, TypeOK, cfgVars, locales, webVars, resetVars, Asignacion
  <2>21. CASE AsignaReset
    <3>1. pendR \in Seq(Asignacion) /\ Asigna(pendR)
      BY <2>21 DEF AsignaReset, TypeOK, Asignacion
    <3>2. cfg' \in Config
      BY <3>1, AsignaTipo
    <3>3. pendR' \in Seq(Asignacion)
      <4>1. Tail(pendR) \in Seq(Asignacion)
        BY <3>1, AsignaTipo
      <4> QED BY <2>21, <4>1 DEF AsignaReset
    <3>4. fresco' \in BOOLEAN /\ UNCHANGED <<buf, flash, abierta>>
      BY <2>21 DEF AsignaReset, Asigna
    <3>5. UNCHANGED <<pcP, trama, cargar, descargar, hayCambio, pcW, pendW, pcR, pulsado>>
      BY <2>21 DEF AsignaReset, locales, webVars, resetVars
    <3> QED BY <3>2, <3>3, <3>4, <3>5 DEF TypeOK
  <2>22. CASE PutReset
    BY <2>22
       DEF PutReset, TypeOK, cfgVars, locales, webVars, resetVars, Put
  <2>23. CASE CommitReset
    BY <2>23
       DEF CommitReset, TypeOK, cfgVars, locales, webVars, resetVars, Commit
  <2>24. CASE Reinicio
    <3>1. trama' \in Trama /\ pendW' \in Seq(Asignacion) /\ pendR' \in Seq(Asignacion)
      BY <2>24, NulaTipo DEF Reinicio
    <3>2. pulsado' \in 0 .. UmbralReset
      BY <2>24 DEF Reinicio
    <3> QED BY <2>24, <3>1, <3>2 DEF Reinicio, configuracionLeerEEPROM, TypeOK
  <2>25. CASE UNCHANGED vars
    BY <2>25 DEF vars, cfgVars, locales, webVars, resetVars, TypeOK
  <2> QED BY <2>1, <2>2, <2>3, <2>4, <2>5, <2>6, <2>7, <2>8, <2>9, <2>10, <2>11, <2>12,
             <2>13, <2>14, <2>15, <2>16, <2>17, <2>18, <2>19, <2>20, <2>21, <2>22, <2>23,
             <2>24, <2>25
     DEF Next, Parser, Web, Reset
<1> QED BY <1>1, <1>2, PTL DEF Spec
----------------------------------------------------------------------------
(* The charge permission in flash. *)

\* RAM, buffer and flash agree on the charge permission.
CargaIgual == /\ buf.habilitarCarga = cfg.habilitarCarga
              /\ flash.habilitarCarga = cfg.habilitarCarga

\* The three copies agree until the charge rules run.  After ConcedeCarga
\* they can differ only with hayCambio set and the charge granted, because
\* hayCambio still says what that rule found; RetiraCarga then either keeps
\* both or finds the charge granted and sets hayCambio itself.
DurableInv ==
  (pcR = "sondea" /\ abierta) =>
     /\ pcP \notin {"retiraCarga", "decide", "put", "commit"} => CargaIgual
     /\ (pcP = "retiraCarga" /\ ~(cfg.habilitarCarga /\ hayCambio)) => CargaIgual
     /\ (pcP = "decide" /\ ~hayCambio) => CargaIgual
     /\ pcP = "commit" => buf.habilitarCarga = cfg.habilitarCarga

\* No step of the parser, of a page, of the button or of a restart breaks what
\* DurableInv says of the copies of the charge permission.
LEMMA CopiasDeLaCarga == Spec => []DurableInv
<1>1. Init => DurableInv
  BY DEF Init, ConfigInit, TareasInit, DurableInv, CargaIgual
<1>2. TypeOK /\ DurableInv /\ [Next]_vars => DurableInv'
  <2> SUFFICES ASSUME TypeOK, DurableInv, [Next]_vars PROVE DurableInv'
    OBVIOUS
  <2> USE DEF DurableInv, CargaIgual
  <2>0. /\ cfg \in Config /\ cfg.habilitarCarga \in BOOLEAN
        /\ hayCambio \in BOOLEAN
        /\ \A b \in BOOLEAN :
             /\ [cfg EXCEPT !.habilitarCarga = b].habilitarCarga = b
             /\ [cfg EXCEPT !.habilitarDescarga = b].habilitarCarga = cfg.habilitarCarga
    <3>1. cfg \in Config /\ hayCambio \in BOOLEAN
      BY DEF TypeOK
    <3>2. ASSUME NEW b \in BOOLEAN
          PROVE  /\ [cfg EXCEPT !.habilitarCarga = b].habilitarCarga = b
                 /\ [cfg EXCEPT !.habilitarDescarga = b].habilitarCarga
                      = cfg.habilitarCarga
      BY <3>1, PermisoTipo
    <3>3. cfg.habilitarCarga \in BOOLEAN
      BY <3>1, PermisoTipo
    <3> QED BY <3>1, <3>2, <3>3
  <2>1. CASE Recibe \/ MiraVoltajeCarga \/ MiraVoltajeDescarga
    BY <2>1 DEF Recibe, MiraVoltajeCarga, MiraVoltajeDescarga, Pasa, cfgVars,
                resetVars
  <2>2. CASE ConcedeDescarga \/ RetiraDescarga
    <3>1. cfg'.habilitarCarga = cfg.habilitarCarga
      BY <2>0, <2>2 DEF ConcedeDescarga, RetiraDescarga
    <3>2. /\ UNCHANGED <<buf, flash, abierta, pcR>>
          /\ pcP \in {"concedeDescarga", "retiraDescarga"}
          /\ pcP' \in {"retiraDescarga", "concedeCarga"}
      BY <2>2 DEF ConcedeDescarga, RetiraDescarga, Pasa, resetVars
    <3> QED BY <3>1, <3>2
  <2>3. CASE ConcedeCarga
    <3>1. \/ UNCHANGED <<hayCambio, cfg>>
          \/ hayCambio' = ~cfg.habilitarCarga /\ cfg'.habilitarCarga = TRUE
      BY <2>0, <2>3 DEF ConcedeCarga
    <3>2. /\ UNCHANGED <<buf, flash, abierta, pcR>>
          /\ pcP = "concedeCarga" /\ pcP' = "retiraCarga"
      BY <2>3 DEF ConcedeCarga, Pasa, resetVars
    <3> QED BY <2>0, <3>1, <3>2
  <2>4. CASE RetiraCarga
    <3>1. \/ UNCHANGED <<hayCambio, cfg>>
          \/ hayCambio' = cfg.habilitarCarga /\ cfg'.habilitarCarga = FALSE
      BY <2>0, <2>4 DEF RetiraCarga
    <3>2. /\ UNCHANGED <<buf, flash, abierta, pcR>>
          /\ pcP = "retiraCarga" /\ pcP' = "decide"
      BY <2>4 DEF RetiraCarga, Pasa, resetVars
    <3> QED BY <2>0, <3>1, <3>2
  <2>5. CASE Decide
    BY <2>5 DEF Decide, FinControl, cfgVars, resetVars
  <2>6. CASE PutParser \/ CommitParser
    BY <2>6 DEF PutParser, CommitParser, Put, Commit, FinControl, Pasa, resetVars
  <2>7. CASE salvarlimitesSOC \/ salvarOtroAjuste \/ salvarWiFi
    BY <2>7 DEF salvarlimitesSOC, salvarOtroAjuste, salvarWiFi, cfgVars, locales,
                resetVars
  <2>8. CASE AsignaWeb
    <3>1. pendW \in Seq(Asignacion) /\ Asigna(pendW)
      BY <2>8 DEF AsignaWeb, TypeOK
    <3>2. cfg'.habilitarCarga = cfg.habilitarCarga
      BY <3>1, AsignaTipo
    <3>3. UNCHANGED <<buf, flash, abierta, pcR, pcP, hayCambio>>
      BY <2>8 DEF AsignaWeb, Asigna, locales, resetVars
    <3> QED BY <3>2, <3>3
  <2>9. CASE AsignaReset
    <3>1. pendR \in Seq(Asignacion) /\ Asigna(pendR)
      BY <2>9 DEF AsignaReset, TypeOK
    <3>2. cfg'.habilitarCarga = cfg.habilitarCarga
      BY <3>1, AsignaTipo
    <3>3. UNCHANGED <<buf, flash, abierta, pcR, pcP, hayCambio>>
      BY <2>9 DEF AsignaReset, Asigna, locales
    <3> QED BY <3>2, <3>3
  <2>10. CASE PutWeb \/ CommitWeb
    BY <2>10 DEF PutWeb, CommitWeb, Put, Commit, locales, resetVars
  <2>11. CASE EndWeb
    BY <2>11 DEF EndWeb, CierraEEPROM
  <2>12. CASE PulsaReset
    BY <2>12 DEF PulsaReset, cfgVars, locales
  <2>13. CASE InicialCarga \/ InicialDescarga \/ PutReset \/ CommitReset
    BY <2>13 DEF InicialCarga, InicialDescarga, PutReset, CommitReset
  <2>14. CASE Reinicio
    BY <2>14 DEF Reinicio, configuracionLeerEEPROM
  <2>15. CASE UNCHANGED vars
    <3>1. UNCHANGED <<cfg, buf, flash, abierta, pcR, pcP, hayCambio>>
      BY <2>15 DEF vars, cfgVars, locales, resetVars
    <3> QED BY <3>1
  <2> QED BY <2>1, <2>2, <2>3, <2>4, <2>5, <2>6, <2>7, <2>8,
             <2>9, <2>10, <2>11, <2>12, <2>13, <2>14, <2>15
     DEF Next, Parser, Web, Reset
<1> QED BY <1>1, <1>2, TipoCorrecto, PTL DEF Spec

\* Between two frames a restart finds in flash the charge permission that
\* controlCargaDescarga left in RAM.
THEOREM CargaDurable == Spec => []PermisoCargaDurable
<1>1. DurableInv => PermisoCargaDurable
  BY DEF DurableInv, CargaIgual, PermisoCargaDurable, EnReposo
<1> QED BY <1>1, CopiasDeLaCarga, PTL

\* Only the rule that grants the charge and a restart can turn the permission
\* on: the other rules, the pages and the hard reset keep it or clear it.
LEMMA QuienConcedeCarga ==
  ASSUME TypeOK, [Next]_vars, ~cfg.habilitarCarga, cfg'.habilitarCarga
  PROVE  ConcedeCarga \/ Reinicio
<1>1. /\ [cfg EXCEPT !.habilitarCarga = FALSE].habilitarCarga = FALSE
      /\ \A b \in BOOLEAN :
           [cfg EXCEPT !.habilitarDescarga = b].habilitarCarga = cfg.habilitarCarga
  BY PermisoTipo DEF TypeOK
<1>2. cfg' # cfg
  OBVIOUS
<1>3. ~AsignaWeb
  <2> SUFFICES ASSUME AsignaWeb PROVE FALSE
    OBVIOUS
  <2>1. pendW \in Seq(Asignacion) /\ Asigna(pendW)
    BY DEF AsignaWeb, TypeOK
  <2>2. cfg'.habilitarCarga = cfg.habilitarCarga
    BY <2>1, AsignaTipo
  <2> QED BY <2>2
<1>4. ~AsignaReset
  <2> SUFFICES ASSUME AsignaReset PROVE FALSE
    OBVIOUS
  <2>1. pendR \in Seq(Asignacion) /\ Asigna(pendR)
    BY DEF AsignaReset, TypeOK
  <2>2. cfg'.habilitarCarga = cfg.habilitarCarga
    BY <2>1, AsignaTipo
  <2> QED BY <2>2
<1>5. ~(ConcedeDescarga \/ RetiraDescarga \/ RetiraCarga)
  BY <1>1, <1>2 DEF ConcedeDescarga, RetiraDescarga, RetiraCarga
<1>6. ~(InicialCarga \/ InicialDescarga)
  BY <1>1 DEF InicialCarga, InicialDescarga
<1>7. ~(Recibe \/ MiraVoltajeCarga \/ MiraVoltajeDescarga \/ Decide \/ PutParser
         \/ CommitParser)
  BY <1>2 DEF Recibe, MiraVoltajeCarga, MiraVoltajeDescarga, Decide, PutParser, CommitParser,
              Put, Commit, cfgVars
<1>8. ~(salvarlimitesSOC \/ salvarOtroAjuste \/ salvarWiFi \/ PutWeb \/ CommitWeb \/ EndWeb)
  BY <1>2 DEF salvarlimitesSOC, salvarOtroAjuste, salvarWiFi, PutWeb, CommitWeb, EndWeb, Put,
              Commit, CierraEEPROM, cfgVars
<1>9. ~(PulsaReset \/ PutReset \/ CommitReset \/ UNCHANGED vars)
  BY <1>2 DEF PulsaReset, PutReset, CommitReset, Put, Commit, cfgVars, vars
<1> QED BY <1>3, <1>4, <1>5, <1>6, <1>7, <1>8, <1>9 DEF Next, Parser, Web, Reset

\* A charge that was withdrawn comes back only with a frame whose SOC is under
\* soc_min_restart_carga: with no save under way, not even a restart grants it,
\* because flash then holds the withdrawal.
THEOREM CargaVuelve == Spec => CargaVuelveBajoRestart
<1>1. TypeOK /\ DurableInv /\ [Next]_vars =>
        [ (~cfg.habilitarCarga /\ cfg'.habilitarCarga /\ ~GuardadoEnCurso)
          => trama.soc < cfg.bateria["soc_min_restart_carga"] ]_vars
  <2> SUFFICES ASSUME TypeOK, DurableInv, [Next]_vars, ~cfg.habilitarCarga,
                      cfg'.habilitarCarga, ~GuardadoEnCurso
               PROVE  trama.soc < cfg.bateria["soc_min_restart_carga"]
    OBVIOUS
  <2>1. CASE ConcedeCarga
    <3>1. cfg' # cfg
      OBVIOUS
    <3> QED BY <2>1, <3>1 DEF ConcedeCarga
  <2>2. CASE Reinicio
    <3>1. flash.habilitarCarga = cfg.habilitarCarga
      BY DEF DurableInv, CargaIgual, GuardadoEnCurso
    <3>2. cfg' = flash
      BY <2>2 DEF Reinicio, configuracionLeerEEPROM
    <3> QED BY <3>1, <3>2
  <2> QED BY <2>1, <2>2, QuienConcedeCarga
<1> QED BY <1>1, CopiasDeLaCarga, TipoCorrecto, PTL DEF Spec, CargaVuelveBajoRestart
----------------------------------------------------------------------------
(* The limits in flash. *)

\* Outside a handler the three copies of the limits agree; between its put and
\* its commit the buffer already has them, whatever the parser saves.  Nothing
\* is left to assign then.
AjustesInv ==
  pcR = "sondea" =>
    /\ pendR = <<>>
    /\ pcW \notin {"put", "putWiFi"} => pendW = <<>>
    /\ (abierta /\ pcW = "espera") =>
          buf.bateria = cfg.bateria /\ flash.bateria = cfg.bateria
    /\ (abierta /\ pcW \in {"commit", "commitWiFi"}) => buf.bateria = cfg.bateria

\* The four rules write a permission and nothing else of the configuration.
LEMMA ReglasSoloPermisos ==
  ASSUME TypeOK, ConcedeDescarga \/ RetiraDescarga \/ ConcedeCarga \/ RetiraCarga
  PROVE  cfg'.bateria = cfg.bateria
<1>1. /\ [cfg EXCEPT !.habilitarCarga = TRUE].bateria = cfg.bateria
      /\ [cfg EXCEPT !.habilitarCarga = FALSE].bateria = cfg.bateria
      /\ [cfg EXCEPT !.habilitarDescarga = TRUE].bateria = cfg.bateria
      /\ [cfg EXCEPT !.habilitarDescarga = FALSE].bateria = cfg.bateria
  BY DEF TypeOK, Config
<1>2. \/ cfg' = cfg
      \/ cfg' = [cfg EXCEPT !.habilitarCarga = TRUE]
      \/ cfg' = [cfg EXCEPT !.habilitarCarga = FALSE]
      \/ cfg' = [cfg EXCEPT !.habilitarDescarga = TRUE]
      \/ cfg' = [cfg EXCEPT !.habilitarDescarga = FALSE]
  BY DEF ConcedeDescarga, RetiraDescarga, ConcedeCarga, RetiraCarga
<1> QED BY <1>1, <1>2

\* The limits that a page saved are those a restart reads back.
THEOREM LimitesDurables == Spec => []AjustesDurables
<1>1. Init => AjustesInv
  BY DEF Init, ConfigInit, TareasInit, AjustesInv
<1>2. TypeOK /\ AjustesInv /\ [Next]_vars => AjustesInv'
  <2> SUFFICES ASSUME TypeOK, AjustesInv, [Next]_vars PROVE AjustesInv'
    OBVIOUS
  <2> USE DEF AjustesInv
  <2>1. CASE Recibe \/ MiraVoltajeCarga \/ MiraVoltajeDescarga \/ Decide
    BY <2>1 DEF Recibe, MiraVoltajeCarga, MiraVoltajeDescarga, Decide, cfgVars, webVars,
                resetVars
  <2>2. CASE ConcedeDescarga \/ RetiraDescarga \/ ConcedeCarga \/ RetiraCarga
    <3>1. cfg'.bateria = cfg.bateria
      BY <2>2, ReglasSoloPermisos
    <3>2. UNCHANGED <<buf, flash, abierta, pcW, pendW, pcR, pendR>>
      BY <2>2 DEF ConcedeDescarga, RetiraDescarga, ConcedeCarga, RetiraCarga, webVars, resetVars
    <3> QED BY <3>1, <3>2
  <2>3. CASE PutParser \/ CommitParser
    BY <2>3 DEF PutParser, CommitParser, Put, Commit, webVars, resetVars
  <2>4. CASE salvarlimitesSOC \/ salvarOtroAjuste \/ salvarWiFi
    BY <2>4 DEF salvarlimitesSOC, salvarOtroAjuste, salvarWiFi, cfgVars, resetVars
  <2>5. CASE AsignaWeb
    BY <2>5 DEF AsignaWeb, Asigna, TypeOK, resetVars
  <2>6. CASE AsignaReset
    BY <2>6 DEF AsignaReset, Asigna
  <2>7. CASE PutWeb \/ CommitWeb
    BY <2>7 DEF PutWeb, CommitWeb, Put, Commit, resetVars
  <2>8. CASE EndWeb
    BY <2>8 DEF EndWeb, CierraEEPROM, resetVars
  <2>9. CASE Reset /\ ~AsignaReset
    BY <2>9 DEF Reset, PulsaReset, InicialCarga, InicialDescarga, PutReset, CommitReset, cfgVars,
                webVars
  <2>10. CASE Reinicio
    BY <2>10 DEF Reinicio, configuracionLeerEEPROM
  <2>11. CASE UNCHANGED vars
    BY <2>11 DEF vars, cfgVars, webVars, resetVars
  <2> QED BY <2>1, <2>2, <2>3, <2>4, <2>5, <2>6, <2>7, <2>8, <2>9, <2>10, <2>11
     DEF Next, Parser, Web, Reset
<1>3. AjustesInv => AjustesDurables
  BY DEF AjustesInv, AjustesDurables
<1> QED BY <1>1, <1>2, <1>3, TipoCorrecto, PTL DEF Spec
----------------------------------------------------------------------------
(* The permissions against the limits. *)

VoltajeParaCarga ==
  /\ cfg.bateria["stopCargaPorVoltaje"] = 1
  /\ trama.voltaje >= cfg.bateria["voltajeStopCarga"]

VoltajeParaDescarga ==
  /\ cfg.bateria["stopDescargaPorVoltaje"] = 1
  /\ trama.voltaje <= cfg.bateria["voltajeStopDescarga"]

\* What each step of an evaluation leaves behind: first the two locals, then
\* the discharge, then the charge.
SeguroInv ==
  fresco =>
    /\ pcP \notin {"espera", "voltajeCarga", "put", "commit"} => cargar = ~VoltajeParaCarga
    /\ pcP \notin {"espera", "voltajeCarga", "voltajeDescarga", "put", "commit"}
         => descargar = ~VoltajeParaDescarga
    /\ pcP \notin {"voltajeCarga", "voltajeDescarga", "concedeDescarga", "retiraDescarga"}
         => (cfg.habilitarDescarga => ~ParaDescarga)
    /\ pcP \in {"decide", "put", "commit", "espera"} => (cfg.habilitarCarga => ~ParaCarga)

\* After an evaluation nobody disturbed no permission stands against a limit.
THEOREM SinPermisoVedado == Spec => []PermisoSeguro
<1>1. Init => SeguroInv
  BY DEF Init, TareasInit, SeguroInv
<1>2. TypeOK /\ SeguroInv /\ [Next]_vars => SeguroInv'
  <2> SUFFICES ASSUME TypeOK, SeguroInv, [Next]_vars PROVE SeguroInv'
    OBVIOUS
  <2> USE DEF SeguroInv
  <2> DEFINE Estable == /\ UNCHANGED trama
                        /\ cfg'.bateria = cfg.bateria
  <2>0. Estable => /\ ParaCarga' = ParaCarga /\ ParaDescarga' = ParaDescarga
                   /\ VoltajeParaCarga' = VoltajeParaCarga
                   /\ VoltajeParaDescarga' = VoltajeParaDescarga
    BY DEF ParaCarga, ParaDescarga, VoltajeParaCarga, VoltajeParaDescarga
  <2>1. CASE Recibe
    BY <2>1 DEF Recibe, Pasa
  <2>2. CASE MiraVoltajeCarga
    <3>1. Estable /\ cargar' = ~VoltajeParaCarga
      BY <2>2 DEF MiraVoltajeCarga, VoltajeParaCarga, cfgVars
    <3> QED BY <2>0, <2>2, <3>1 DEF MiraVoltajeCarga, Pasa
  <2>3. CASE MiraVoltajeDescarga
    <3>1. Estable /\ descargar' = ~VoltajeParaDescarga
      BY <2>3 DEF MiraVoltajeDescarga, VoltajeParaDescarga, cfgVars
    <3>2. UNCHANGED <<cargar, fresco>> /\ pcP = "voltajeDescarga" /\ pcP' = "concedeDescarga"
      BY <2>3 DEF MiraVoltajeDescarga, Pasa
    <3> QED BY <2>0, <3>1, <3>2
  <2>4. CASE ConcedeDescarga
    <3>1. Estable
      BY <2>4, ReglasSoloPermisos DEF ConcedeDescarga
    <3> QED BY <2>0, <2>4, <3>1 DEF ConcedeDescarga, Pasa
  <2>5. CASE RetiraDescarga
    <3>1. Estable
      BY <2>5, ReglasSoloPermisos DEF RetiraDescarga
    <3>2. UNCHANGED <<cargar, descargar, fresco>> /\ pcP = "retiraDescarga" /\ pcP' = "concedeCarga"
      BY <2>5 DEF RetiraDescarga, Pasa
    <3>3. (fresco /\ cfg'.habilitarDescarga) => ~ParaDescarga
      <4>1. \/ ~cfg'.habilitarDescarga
            \/ ~(\/ trama.soc <= cfg.bateria["soc_min_stop_descarga"]
                 \/ ~trama.descarga \/ ~descargar)
        BY <2>5 DEF RetiraDescarga, TypeOK, Config
      <4>2. fresco => descargar = ~VoltajeParaDescarga
        BY <3>2
      <4> QED BY <4>1, <4>2 DEF ParaDescarga, VoltajeParaDescarga
    <3> QED BY <2>0, <3>1, <3>2, <3>3
  <2>6. CASE ConcedeCarga
    <3>1. Estable /\ cfg'.habilitarDescarga = cfg.habilitarDescarga
      BY <2>6, ReglasSoloPermisos DEF ConcedeCarga, TypeOK, Config
    <3> QED BY <2>0, <2>6, <3>1 DEF ConcedeCarga, Pasa
  <2>7. CASE RetiraCarga
    <3>1. Estable /\ cfg'.habilitarDescarga = cfg.habilitarDescarga
      BY <2>7, ReglasSoloPermisos DEF RetiraCarga, TypeOK, Config
    <3>2. UNCHANGED <<cargar, descargar, fresco>> /\ pcP = "retiraCarga" /\ pcP' = "decide"
      BY <2>7 DEF RetiraCarga, Pasa
    <3>3. (fresco /\ cfg'.habilitarCarga) => ~ParaCarga
      <4>1. \/ ~cfg'.habilitarCarga
            \/ ~(\/ trama.soc >= cfg.bateria["soc_max_stop_carga"]
                 \/ ~trama.carga \/ ~cargar)
        BY <2>7 DEF RetiraCarga, TypeOK, Config
      <4>2. fresco => cargar = ~VoltajeParaCarga
        BY <3>2
      <4> QED BY <4>1, <4>2 DEF ParaCarga, VoltajeParaCarga
    <3> QED BY <2>0, <3>1, <3>2, <3>3
  <2>8. CASE Decide \/ PutParser \/ CommitParser
    <3>1. UNCHANGED <<trama, cfg, fresco>>
      BY <2>8 DEF Decide, PutParser, CommitParser, Put, Commit, locales, cfgVars
    <3>2. pcP \in {"decide", "put", "commit"} /\ pcP' \in {"put", "commit", "espera"}
      BY <2>8 DEF Decide, PutParser, CommitParser, FinControl, Pasa
    <3> QED BY <2>0, <3>1, <3>2
  <2>9. CASE AsignaWeb \/ AsignaReset \/ Reinicio
    BY <2>9 DEF AsignaWeb, AsignaReset, Asigna, Reinicio
  <2>10. CASE Web /\ ~AsignaWeb
    <3>1. UNCHANGED <<cfg, pcP, locales, fresco>>
      BY <2>10 DEF Web, salvarlimitesSOC, salvarOtroAjuste, salvarWiFi, PutWeb, CommitWeb,
                   EndWeb, Put, Commit, CierraEEPROM, cfgVars
    <3> QED BY <2>0, <3>1 DEF locales
  <2>11. CASE PulsaReset \/ PutReset \/ CommitReset \/ UNCHANGED vars
    <3>1. UNCHANGED <<cfg, pcP, locales, fresco>>
      BY <2>11 DEF PulsaReset, PutReset, CommitReset, Put, Commit, cfgVars, vars
    <3> QED BY <2>0, <3>1 DEF locales
  <2>12. CASE InicialCarga
    <3>1. Estable /\ cfg'.habilitarDescarga = cfg.habilitarDescarga /\ ~cfg'.habilitarCarga
      BY <2>12 DEF InicialCarga, TypeOK, Config, locales
    <3>2. UNCHANGED <<pcP, cargar, descargar, fresco>>
      BY <2>12 DEF InicialCarga, locales
    <3> QED BY <2>0, <3>1, <3>2
  <2>13. CASE InicialDescarga
    <3>1. Estable /\ cfg'.habilitarCarga = cfg.habilitarCarga /\ ~cfg'.habilitarDescarga
      BY <2>13 DEF InicialDescarga, TypeOK, Config, locales
    <3>2. UNCHANGED <<pcP, cargar, descargar, fresco>>
      BY <2>13 DEF InicialDescarga, locales
    <3> QED BY <2>0, <3>1, <3>2
  <2> QED BY <2>1, <2>2, <2>3, <2>4, <2>5, <2>6, <2>7, <2>8, <2>9, <2>10, <2>11, <2>12, <2>13
     DEF Next, Parser, Web, Reset
<1>3. SeguroInv => PermisoSeguro
  BY DEF SeguroInv, PermisoSeguro
<1> QED BY <1>1, <1>2, <1>3, TipoCorrecto, PTL DEF Spec
=============================================================================
