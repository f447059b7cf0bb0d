-------------------------- MODULE LimitFeedProofs --------------------------
(***************************************************************************)
(* Theorems about the limits, for every set of voltages.                   *)
(***************************************************************************)
EXTENDS LimitFeed, TLAPS

\* No form has a voltage that is not one.
LEMMA FormPaso == ASSUME TypeOK, [Next]_vars PROVE TipoForm'
<1>. USE DEF TypeOK, TipoForm, Formularios, webVars
<1>1. CASE Parser
  BY <1>1 DEF Parser, Recibe, BmsVoltaje, BmsDescarga, BmsCarga, MiraPropio, LeeVoltaje,
    PonVoltaje, RampaCarga, RampaDescarga, Escribe
<1>2. CASE Web
  <2>1. CASE Marca
    BY <2>1 DEF Marca
  <2>2. CASE Desmarca \/ PonMaximo \/ MiraCeros
    BY <2>2 DEF Desmarca, PonMaximo, MiraCeros
  <2>3. CASE Aplica
    BY <2>3 DEF Aplica, SinForm
  <2>. QED
    BY <1>2, <2>1, <2>2, <2>3 DEF Web
<1>3. CASE CambiaBms \/ LeeLimite \/ Entrega \/ Pierde \/ UNCHANGED vars
  BY <1>3 DEF CambiaBms, LeeLimite, Entrega, Pierde, vars
<1>. QED
  BY <1>1, <1>2, <1>3 DEF Next

\* The limits keep to their values.
LEMMA LimitesTipoPaso == ASSUME TypeOK, [Next]_vars PROVE TipoLimites'
<1>. USE DEF TypeOK, TipoLimites, TipoTareas, TipoForm, Formularios, Limites, Valores,
       configVars, parserVars, senderVars
<1>1. CASE Parser
  BY <1>1 DEF Parser, Recibe, BmsVoltaje, BmsDescarga, BmsCarga, MiraPropio, LeeVoltaje,
    PonVoltaje, RampaCarga, RampaDescarga, Escribe
<1>2. CASE Web
  BY <1>2 DEF Web, PasoWeb, Desmarca, Marca, PonMaximo, MiraCeros, Aplica
<1>3. CASE LeeLimite
  BY <1>3 DEF LeeLimite
<1>4. CASE CambiaBms \/ Entrega \/ Pierde \/ UNCHANGED vars
  BY <1>4 DEF CambiaBms, Entrega, Pierde, vars
<1>. QED
  BY <1>1, <1>2, <1>3, <1>4 DEF Next

\* The tasks keep to their statements.
LEMMA TareasPaso == ASSUME TypeOK, [Next]_vars PROVE TipoTareas'
<1>. USE DEF TypeOK, TipoTareas, parserVars, webVars, senderVars
<1>1. CASE Parser
  BY <1>1 DEF Parser, Recibe, BmsVoltaje, BmsDescarga, BmsCarga, MiraPropio, LeeVoltaje,
    PonVoltaje, RampaCarga, RampaDescarga, Escribe
<1>2. CASE Web
  BY <1>2 DEF Web, PasoWeb, Desmarca, Marca, PonMaximo, MiraCeros, Aplica
<1>3. CASE CambiaBms \/ LeeLimite \/ Entrega \/ Pierde \/ UNCHANGED vars
  BY <1>3 DEF CambiaBms, LeeLimite, Entrega, Pierde, vars
<1>. QED
  BY <1>1, <1>2, <1>3 DEF Next

\* The flags are Booleans.
LEMMA BanderasPaso == ASSUME TypeOK, [Next]_vars PROVE TipoBanderas'
<1>. USE DEF TypeOK, TipoBanderas, configVars
<1>1. CASE Parser
  BY <1>1 DEF Parser, Recibe, BmsVoltaje, BmsDescarga, BmsCarga, MiraPropio, LeeVoltaje,
    PonVoltaje, RampaCarga, RampaDescarga, Escribe
<1>2. CASE Web
  BY <1>2 DEF Web, PasoWeb, Desmarca, Marca, PonMaximo, MiraCeros, Aplica
<1>3. CASE CambiaBms \/ LeeLimite \/ Entrega \/ Pierde \/ UNCHANGED vars
  BY <1>3 DEF CambiaBms, LeeLimite, Entrega, Pierde, vars
<1>. QED
  BY <1>1, <1>2, <1>3 DEF Next

\* Type correctness of LimitFeed.
THEOREM TipoCorrecto == Spec => []TypeOK
<1>1. Init => TypeOK
  <2>. SUFFICES ASSUME Init PROVE TypeOK
    OBVIOUS
  <2>. USE DEF Init
  <2>1. TipoLimites
    BY DEF TipoLimites, Limites, SinLimites, Valores
  <2>2. TipoTareas
    BY DEF TipoTareas
  <2>3. TipoForm
    BY DEF TipoForm, Formularios, SinForm
  <2>4. TipoBanderas
    BY DEF TipoBanderas
  <2>. QED
    BY <2>1, <2>2, <2>3, <2>4 DEF TypeOK
<1>2. TypeOK /\ [Next]_vars => TypeOK'
  BY FormPaso, LimitesTipoPaso, TareasPaso, BanderasPaso DEF TypeOK
<1>. QED
  BY <1>1, <1>2, PTL DEF Spec

----------------------------------------------------------------------------
\* The voltage a frame ends with when no handler disturbs it.
Debido == IF propio THEN voltajeMax ELSE "bms"

\* How far the parser has come with such a frame.
AlDiaInv ==
  fresco =>
    /\ pcW = "espera"
    /\ pcP \in {"bmsDescarga", "bmsCarga", "mira"} => limites.voltaje = "bms"
    /\ pcP = "lee" => propio
    /\ pcP = "pon" => propio /\ leido = voltajeMax
    /\ pcP \in {"rampaCarga", "rampaDescarga", "espera"} => limites.voltaje = Debido
    /\ pcP \in {"rampaDescarga", "espera"} => limites.carga = "rampa"
    /\ pcP = "espera" => limites.descarga = "rampa"

\* Between the voltage of the BMS and that of the user the parser is on its way.
PropioInv ==
  (propio /\ pcW = "espera" /\ pcP \in {"espera", "bmsVoltaje", "rampaCarga", "rampaDescarga"})
    => limites.voltaje # "bms"

\* Every step keeps what the parser and the page owe each other.
LEMMA LimitesPaso ==
  ASSUME TypeOK, AlDiaInv, PropioInv, [Next]_vars PROVE AlDiaInv' /\ PropioInv'
<1>. USE VoltajesPropios DEF TypeOK, TipoLimites, TipoTareas, Limites, AlDiaInv, PropioInv, Debido,
       configVars, parserVars, webVars, senderVars
<1>1. CASE Recibe
  BY <1>1 DEF Recibe
<1>2. CASE BmsVoltaje \/ BmsDescarga \/ BmsCarga
  BY <1>2 DEF BmsVoltaje, BmsDescarga, BmsCarga, Escribe
<1>3. CASE MiraPropio
  BY <1>3 DEF MiraPropio
<1>4. CASE LeeVoltaje
  BY <1>4 DEF LeeVoltaje
<1>5. CASE PonVoltaje
  BY <1>5 DEF PonVoltaje
<1>6. CASE RampaCarga \/ RampaDescarga
  BY <1>6 DEF RampaCarga, RampaDescarga, Escribe
<1>7. CASE Web
  BY <1>7 DEF Web, PasoWeb, Desmarca, Marca, PonMaximo, MiraCeros, Aplica
<1>8. CASE CambiaBms \/ LeeLimite \/ Entrega \/ Pierde \/ UNCHANGED vars
  BY <1>8 DEF CambiaBms, LeeLimite, Entrega, Pierde, vars
<1>. QED
  BY <1>1, <1>2, <1>3, <1>4, <1>5, <1>6, <1>7, <1>8 DEF Next, Parser

\* What the parser and the page owe each other holds always.
LEMMA LimitesInv == Spec => [](TypeOK /\ AlDiaInv /\ PropioInv)
<1>1. Init => AlDiaInv /\ PropioInv
  BY DEF Init, AlDiaInv, PropioInv, SinLimites
<1>2. TypeOK /\ AlDiaInv /\ PropioInv /\ [Next]_vars => AlDiaInv' /\ PropioInv'
  BY LimitesPaso
<1>. QED
  BY <1>1, <1>2, TipoCorrecto, PTL DEF Spec

\* After a frame that no handler disturbed every limit is the one configured.
THEOREM LimitesDelUsuario == Spec => []LimitesAlDia
<1>1. TypeOK /\ AlDiaInv => LimitesAlDia
  BY DEF TypeOK, TipoLimites, Limites, AlDiaInv, Debido, LimitesAlDia
<1>. QED
  BY <1>1, LimitesInv, PTL

\* With the user's voltages on, at rest the BMS's own is not in force, however
\* frames and handlers interleaved.
THEOREM PropioSeConserva == Spec => []PropioNoSePierde
<1>1. PropioInv => PropioNoSePierde
  BY DEF PropioInv, PropioNoSePierde, EnReposo
<1>. QED
  BY <1>1, LimitesInv, PTL
=============================================================================
