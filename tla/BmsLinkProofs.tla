--------------------------- MODULE BmsLinkProofs ---------------------------
(***************************************************************************)
(* Theorems about BmsLink, for all periods, thresholds and queue sizes.    *)
(***************************************************************************)
EXTENDS BmsLink, TLAPS

\* The constants are natural numbers, and the counter turns over the threshold.
LEMMA Constantes ==
  /\ Periodo \in Nat \ {0} /\ Espera \in Nat \ {0} /\ Umbral \in Nat \ {0}
  /\ MaxContador \in Nat /\ MaxContador > Umbral
  /\ CapCola \in Nat \ {0}
  /\ CotaSilencio \in Nat
  /\ MaxReinicios \in Nat
BY PlazosPositivos, ContadorCabe, ColaCabe, CotaBasta, ReiniciosAcotados

\* Every variable keeps its type: the counter of empty waits turns in time,
\* the queue is never overrun, and no timer passes its deadline.
THEOREM TipoCorrecto == Spec => []TypeOK
<1>1. Init => TypeOK
  <2> SUFFICES ASSUME Init PROVE TypeOK
    OBVIOUS
  <2>1. TipoRed
    <3>1. respuesta \in BOOLEAN
      BY DEF Init, TareasInit
    <3>2. tPet \in 0 .. Periodo /\ linea \in {"sana", "rota"}
      BY Constantes DEF Init, TareasInit
    <3>3. bufer \in {"nada", "trama", "ruido"} /\ quieto \in 0 .. 1
      BY DEF Init, TareasInit
    <3> QED BY <3>1, <3>2, <3>3 DEF TipoRed
  <2>2. TipoParser
    BY Constantes DEF Init, TareasInit, TipoParser
  <2>3. TipoSistema
    <3>1. reiniciando \in BOOLEAN
      BY DEF Init, TareasInit
    <3>2. comunicar \in BOOLEAN /\ errorFlash \in BOOLEAN /\ reinicios \in 0 .. MaxReinicios
      BY Constantes DEF Init
    <3> QED BY <3>1, <3>2 DEF TipoSistema
  <2>4. TipoAux
    <3>1. ruidoso \in BOOLEAN
      BY DEF Init, TareasInit
    <3>2. silencio \in 0 .. CotaSilencio /\ perdidas \in 0 .. CotaSilencio
      BY Constantes DEF Init, TareasInit
    <3> QED BY <3>1, <3>2 DEF TipoAux
  <2> QED BY <2>1, <2>2, <2>3, <2>4 DEF TypeOK
<1>2. TypeOK /\ [Next]_vars => TypeOK'
  <2> SUFFICES ASSUME TypeOK, [Next]_vars PROVE TypeOK'
    OBVIOUS
  <2> USE Constantes
  <2>1. CASE Peticion
    <3>1. TipoRed'
      <4>1. respuesta' \in BOOLEAN
        BY <2>1 DEF Peticion, TypeOK, TipoRed
      <4>2. tPet' \in 0 .. Periodo /\ UNCHANGED <<linea, bufer, quieto>>
        BY <2>1 DEF Peticion
      <4> QED BY <4>1, <4>2 DEF TypeOK, TipoRed
    <3>2. TipoAux'
      BY <2>1 DEF Peticion, Mas1, TipoAux, TypeOK, redVars, parserVars, sistVars, auxVars
    <3>3. TipoParser' /\ TipoSistema'
      BY <2>1 DEF Peticion, TypeOK, TipoParser, TipoSistema, redVars, parserVars,
         sistVars, auxVars
    <3> QED BY <3>1, <3>2, <3>3 DEF TypeOK
  <2>2. CASE Contesta
    <3>1. TipoRed'
      BY <2>2 DEF Contesta, Llegan, TipoRed, TypeOK, redVars, parserVars, sistVars, auxVars
    <3>2. TipoParser' /\ TipoSistema' /\ TipoAux'
      BY <2>2 DEF Contesta, TypeOK, TipoParser, TipoSistema, TipoAux, redVars, parserVars,
         sistVars, auxVars
    <3> QED BY <3>1, <3>2 DEF TypeOK
  <2>3. CASE Ruido
    <3>1. TipoRed'
      BY <2>3 DEF Ruido, Llegan, TipoRed, TypeOK, redVars, parserVars, sistVars, auxVars
    <3>2. TipoAux'
      BY <2>3 DEF Ruido, Llegan, TipoAux, TypeOK, redVars, parserVars, sistVars, auxVars
    <3>3. TipoParser' /\ TipoSistema'
      BY <2>3 DEF Ruido, TypeOK, TipoParser, TipoSistema, redVars, parserVars, sistVars,
         auxVars
    <3> QED BY <3>1, <3>2, <3>3 DEF TypeOK
  <2>4. CASE CambiaLinea
    <3>1. TipoRed'
      BY <2>4 DEF CambiaLinea, TipoRed, TypeOK, redVars, parserVars, sistVars, auxVars
    <3>2. TipoParser' /\ TipoSistema' /\ TipoAux'
      BY <2>4 DEF CambiaLinea, TypeOK, TipoParser, TipoSistema, TipoAux, redVars,
         parserVars, sistVars, auxVars
    <3> QED BY <3>1, <3>2 DEF TypeOK
  <2>5. CASE Captura
    <3>1. TipoRed'
      BY <2>5 DEF Captura, TipoRed, TypeOK, redVars, parserVars, sistVars, auxVars
    <3>2. TipoParser'
      BY <2>5 DEF Captura, TipoParser, TypeOK, redVars, parserVars, sistVars, auxVars
    <3>3. TipoSistema' /\ TipoAux'
      BY <2>5 DEF Captura, TypeOK, TipoSistema, TipoAux, redVars, parserVars, sistVars,
         auxVars
    <3> QED BY <3>1, <3>2, <3>3 DEF TypeOK
  <2>6. CASE RecibeTrama
    <3>1. TipoParser'
      <4>1. error' \in BOOLEAN
        BY <2>6 DEF RecibeTrama
      <4>2. /\ cola' \in 0 .. CapCola /\ tParser' \in 0 .. Espera
            /\ contador' \in 0 .. MaxContador
        BY <2>6 DEF RecibeTrama, TypeOK, TipoParser
      <4> QED BY <4>1, <4>2 DEF TipoParser
    <3>2. TipoAux'
      BY <2>6 DEF RecibeTrama, TipoAux, TypeOK, redVars, parserVars, sistVars, auxVars
    <3>3. TipoRed' /\ TipoSistema'
      BY <2>6 DEF RecibeTrama, TypeOK, TipoRed, TipoSistema, redVars, parserVars,
         sistVars, auxVars
    <3> QED BY <3>1, <3>2, <3>3 DEF TypeOK
  <2>7. CASE EsperaVacia
    <3>1. TipoParser'
      BY <2>7 DEF EsperaVacia, TipoParser, TypeOK, redVars, parserVars, sistVars, auxVars
    <3>2. TipoRed' /\ TipoSistema' /\ TipoAux'
      BY <2>7 DEF EsperaVacia, TypeOK, TipoRed, TipoSistema, TipoAux, redVars, parserVars,
         sistVars, auxVars
    <3> QED BY <3>1, <3>2 DEF TypeOK
  <2>8. CASE salvarrs485
    <3>1. TipoSistema'
      BY <2>8 DEF salvarrs485, TipoSistema, TipoParser, TypeOK, redVars, parserVars,
         sistVars, auxVars
    <3>2. TipoRed' /\ TipoParser' /\ TipoAux'
      BY <2>8 DEF salvarrs485, TypeOK, TipoRed, TipoParser, TipoAux, redVars, parserVars,
         sistVars, auxVars
    <3> QED BY <3>1, <3>2 DEF TypeOK
  <2>9. CASE Inicial
    <3>1. TipoParser'
      BY <2>9 DEF Inicial, TipoParser, TypeOK, redVars, parserVars, sistVars, auxVars
    <3>2. TipoSistema'
      BY <2>9 DEF Inicial, TipoSistema, TypeOK, redVars, parserVars, sistVars, auxVars
    <3>3. TipoRed' /\ TipoAux'
      BY <2>9 DEF Inicial, TypeOK, TipoRed, TipoAux, redVars, parserVars, sistVars, auxVars
    <3> QED BY <3>1, <3>2, <3>3 DEF TypeOK
  <2>10. CASE Reinicio
    <3>1. TipoRed'
      <4>1. respuesta' \in BOOLEAN
        BY <2>10 DEF Reinicio
      <4>2. tPet' \in 0 .. Periodo /\ linea' \in {"sana", "rota"}
        BY <2>10 DEF Reinicio, TypeOK, TipoRed
      <4>3. bufer' \in {"nada", "trama", "ruido"} /\ quieto' \in 0 .. 1
        BY <2>10 DEF Reinicio
      <4> QED BY <4>1, <4>2, <4>3 DEF TipoRed
    <3>2. TipoParser'
      BY <2>10 DEF Reinicio, TypeOK, TipoParser, TipoSistema
    <3>3. TipoSistema'
      <4>1. reiniciando' \in BOOLEAN
        BY <2>10 DEF Reinicio
      <4>2. /\ comunicar' \in BOOLEAN /\ errorFlash' \in BOOLEAN
            /\ reinicios' \in 0 .. MaxReinicios
        BY <2>10 DEF Reinicio, TypeOK, TipoSistema
      <4> QED BY <4>1, <4>2 DEF TipoSistema
    <3>4. TipoAux'
      <4>1. ruidoso' \in BOOLEAN
        BY <2>10 DEF Reinicio
      <4>2. silencio' \in 0 .. CotaSilencio /\ perdidas' \in 0 .. CotaSilencio
        BY <2>10 DEF Reinicio
      <4> QED BY <4>1, <4>2 DEF TipoAux
    <3> QED BY <3>1, <3>2, <3>3, <3>4 DEF TypeOK
  <2>11. CASE Segundo
    <3>1. TipoRed'
      BY <2>11 DEF Segundo, TipoRed, TypeOK, redVars, parserVars, sistVars, auxVars
    <3>2. TipoParser'
      BY <2>11 DEF Segundo, TipoParser, TypeOK, redVars, parserVars, sistVars, auxVars
    <3>3. TipoAux'
      BY <2>11 DEF Segundo, Mas1, TipoAux, TypeOK, redVars, parserVars, sistVars, auxVars
    <3>4. TipoSistema'
      BY <2>11 DEF Segundo, TypeOK, TipoSistema, redVars, parserVars, sistVars, auxVars
    <3> QED BY <3>1, <3>2, <3>3, <3>4 DEF TypeOK
  <2>12. CASE UNCHANGED vars
    BY <2>12 DEF vars, redVars, parserVars, sistVars, auxVars, TypeOK, TipoRed,
                TipoParser, TipoSistema, TipoAux
  <2> QED BY <2>1, <2>2, <2>3, <2>4, <2>5, <2>6, <2>7, <2>8, <2>9, <2>10, <2>11, <2>12 DEF
             Next
<1> QED BY <1>1, <1>2, PTL DEF Spec

\* What the counter and the clock of the parser know of the silence: all of
\* it until the alarm is due, and from then on that it is due.  Until it is
\* raised the alarm is never overdue, because the counter cannot have passed
\* the threshold.
RelojInv ==
  /\ contador < Umbral => silencio = Espera * contador + tParser
  /\ contador >= Umbral => silencio >= Espera * Umbral + tParser
  /\ (~error /\ ~reiniciando) =>
       /\ contador <= Umbral
       /\ silencio = Espera * contador + tParser

\* The products of two constants and a counter that the steps need.
LEMMA Productos ==
  /\ PlazoAlarma = Espera * Umbral + Espera
  /\ Espera * Umbral \in Nat
  /\ \A c \in Nat : /\ Espera * c \in Nat
                    /\ Espera * (c + 1) = Espera * c + Espera
                    /\ c <= Umbral => Espera * c <= Espera * Umbral
                    /\ c < Umbral => Espera * c + Espera <= Espera * Umbral
  /\ Espera * 0 = 0
BY PlazosPositivos DEF PlazoAlarma

\* The clock invariant holds of the link.
THEOREM RelojCorrecto == Spec => []RelojInv
<1>1. Init => RelojInv
  BY Productos, Constantes DEF Init, TareasInit, RelojInv
<1>2. TypeOK /\ RelojInv /\ [Next]_vars => RelojInv'
  <2> SUFFICES ASSUME TypeOK, RelojInv, [Next]_vars PROVE RelojInv'
    OBVIOUS
  <2>0. /\ contador \in 0 .. MaxContador /\ tParser \in 0 .. Espera
        /\ silencio \in 0 .. CotaSilencio /\ error \in BOOLEAN
    BY DEF TypeOK, TipoParser, TipoAux
  <2> USE Constantes DEF RelojInv, redVars, parserVars, sistVars, auxVars
  <2>1. CASE Peticion \/ Contesta \/ Ruido \/ CambiaLinea \/ Captura \/ salvarrs485
    BY <2>1 DEF Peticion, Contesta, Ruido, CambiaLinea, Captura, salvarrs485
  <2>2. CASE RecibeTrama
    BY <2>2, Productos DEF RecibeTrama
  <2>3. CASE EsperaVacia
    <3>1. /\ contador \in Nat /\ tParser = Espera /\ tParser' = 0
          /\ error' = (error \/ contador >= Umbral)
          /\ UNCHANGED <<silencio, reiniciando>>
          /\ contador' = (IF contador = MaxContador THEN Umbral - 1 ELSE contador) + 1
      BY <2>0, <2>3 DEF EsperaVacia
    <3>2. CASE contador = MaxContador
      <4>1. contador >= Umbral /\ contador' = Umbral
        BY <3>1, <3>2
      <4>2. silencio >= Espera * Umbral
        BY <3>1, <4>1, <2>0, Productos
      <4>3. error'
        BY <3>1, <4>1
      <4> QED BY <3>1, <4>1, <4>2, <4>3, <2>0, Productos
    <3>3. CASE contador # MaxContador
      <4>1. contador' = contador + 1
        BY <3>1, <3>3
      <4>2. CASE contador < Umbral
        BY <3>1, <4>1, <4>2, Productos
      <4>3. CASE contador >= Umbral
        <5>1. silencio >= Espera * Umbral
          BY <3>1, <4>3, <2>0, Productos
        <5>2. error'
          BY <3>1, <4>3
        <5> QED BY <3>1, <4>1, <4>3, <5>1, <5>2, <2>0, Productos
      <4> QED BY <3>1, <4>2, <4>3
    <3> QED BY <3>2, <3>3
  <2>4. CASE Inicial
    BY <2>4 DEF Inicial
  <2>5. CASE Reinicio
    BY <2>5, Productos DEF Reinicio
  <2>6. CASE Segundo
    <3>1. /\ contador \in Nat /\ silencio \in Nat /\ tParser \in Nat
          /\ tParser < Espera /\ tParser' = tParser + 1
          /\ UNCHANGED <<contador, error, reiniciando>>
          /\ silencio' = Mas1(silencio)
      BY <2>0, <2>6 DEF Segundo
    <3>2. Espera * Umbral + Espera < CotaSilencio
      BY Productos, CotaBasta DEF PlazoAlarma
    <3>3. CASE contador < Umbral
      BY <3>1, <3>2, <3>3, Productos DEF Mas1
    <3>4. CASE contador >= Umbral
      BY <3>1, <3>2, <3>4, Productos DEF Mas1
    <3> QED BY <3>1, <3>3, <3>4
  <2>7. CASE UNCHANGED vars
    BY <2>7 DEF vars
  <2> QED BY <2>1, <2>2, <2>3, <2>4, <2>5, <2>6, <2>7 DEF Next
<1> QED BY <1>1, <1>2, TipoCorrecto, PTL DEF Spec

\* No silence of the BMS goes unnoticed for longer than PlazoAlarma.
THEOREM SilencioDetectado == Spec => []DetectaSilencio
<1>1. TypeOK /\ RelojInv => DetectaSilencio
  BY Productos, Constantes DEF TypeOK, TipoParser, RelojInv, DetectaSilencio
<1> QED BY <1>1, TipoCorrecto, RelojCorrecto, PTL
----------------------------------------------------------------------------
\* The link, with its timers, its counter that turns, its queue and its
\* restarts, implements the plain alarm: it is raised exactly when the
\* silence reaches PlazoAlarma, and only then.
THEOREM AlarmaImplementada == Spec => ImplementaAlarma
<1>1. Init => Alarma!Init
  BY DEF Init, TareasInit, Alarma!Init
<1>2. TypeOK /\ RelojInv /\ [Next]_vars => [Alarma!Next]_(Alarma!vars)
  <2> SUFFICES ASSUME TypeOK, RelojInv, [Next]_vars
               PROVE  [Alarma!Next]_(Alarma!vars)
    OBVIOUS
  <2>0. /\ contador \in 0 .. MaxContador /\ tParser \in 0 .. Espera
        /\ silencio \in 0 .. CotaSilencio /\ error \in BOOLEAN
        /\ errorFlash \in BOOLEAN
    BY DEF TypeOK, TipoParser, TipoAux, TipoSistema
  <2> USE DEF redVars, parserVars, sistVars, auxVars
  <2>1. CASE Peticion \/ Contesta \/ Ruido \/ CambiaLinea \/ Captura \/ salvarrs485
    <3>1. silencio' = silencio /\ error' = error
      BY <2>1 DEF Peticion, Contesta, Ruido, CambiaLinea, Captura, salvarrs485
    <3> QED BY <3>1 DEF Alarma!vars
  <2>2. CASE RecibeTrama
    BY <2>2 DEF RecibeTrama, Alarma!Next, Alarma!Trama
  <2>3. CASE EsperaVacia
    <3>1. /\ tParser = Espera /\ silencio' = silencio
          /\ error' = (error \/ contador >= Umbral)
      BY <2>3 DEF EsperaVacia
    <3>2. CASE contador >= Umbral
      <4>1. silencio >= PlazoAlarma
        BY <2>0, <3>1, <3>2, Productos, Constantes DEF RelojInv
      <4>2. error' = TRUE
        BY <3>1, <3>2
      <4> QED BY <3>1, <4>1, <4>2 DEF Alarma!Next, Alarma!Avisa
    <3>3. CASE ~(contador >= Umbral)
      <4>1. error' = error
        BY <2>0, <3>1, <3>3
      <4> QED BY <3>1, <4>1 DEF Alarma!vars
    <3> QED BY <3>2, <3>3
  <2>4. CASE Inicial
    BY <2>4 DEF Inicial, Alarma!Next, Alarma!Borra
  <2>5. CASE Reinicio
    BY <2>0, <2>5 DEF Reinicio, Alarma!Next, Alarma!Enciende
  <2>6. CASE Segundo
    <3>1. /\ silencio' = Mas1(silencio) /\ error' = error
          /\ tParser < Espera /\ ~reiniciando
      BY <2>6 DEF Segundo
    <3>2. silencio < PlazoAlarma \/ error
      <4> SUFFICES ASSUME ~error PROVE silencio < PlazoAlarma
        OBVIOUS
      <4> QED BY <2>0, <3>1, Productos, Constantes DEF RelojInv
    <3>3. silencio' \in {silencio, silencio + 1}
      BY <3>1 DEF Mas1
    <3> QED BY <3>1, <3>2, <3>3 DEF Alarma!Next, Alarma!Segundo
  <2>7. CASE UNCHANGED vars
    BY <2>7 DEF vars, Alarma!vars
  <2> QED BY <2>1, <2>2, <2>3, <2>4, <2>5, <2>6, <2>7 DEF Next
<1> QED BY <1>1, <1>2, TipoCorrecto, RelojCorrecto, PTL
        DEF Spec, ImplementaAlarma, Alarma!Spec
----------------------------------------------------------------------------
\* A request was answered and the parser has not got the frame yet.
Pendiente == respuesta \/ bufer = "trama" \/ cola > 0

\* Without noise a frame is in the queue one second after its request; and a
\* silence is no longer than the turns that were lost, the one that is pending
\* and the time since the last one.  The second more is what the read of the
\* last frame took after its own request.
TurnosInv ==
  ~ruidoso =>
    /\ bufer \in {"nada", "trama"}
    /\ respuesta => tPet = 0
    /\ bufer = "trama" => quieto = tPet
    /\ bufer = "nada" => quieto = 0
    /\ cola > 0 => tPet = 1
    /\ Pendiente => silencio + 1 <= Periodo * perdidas + Periodo + tPet
    /\ ~Pendiente => silencio + 1 <= Periodo * perdidas + tPet

\* The products of the period and the turns that were lost.
LEMMA Perdidas ==
  /\ \A p \in Nat : /\ Periodo * p \in Nat
                    /\ Periodo * (p + 1) = Periodo * p + Periodo
                    /\ p <= 2 => Periodo * p + Periodo <= 3 * Periodo
  /\ Periodo * 0 = 0
  /\ Periodo * CotaSilencio >= CotaSilencio + 1
<1>1. Periodo \in Nat /\ Periodo >= 2 /\ CotaSilencio \in Nat /\ CotaSilencio >= 1
  <2>1. PlazoAlarma \in Nat
    BY Productos, Constantes
  <2> QED BY <2>1, TresTurnos, CotaBasta, Constantes DEF PlazoAlarma
<1>2. \A p \in Nat : /\ Periodo * p \in Nat
                     /\ Periodo * (p + 1) = Periodo * p + Periodo
  BY <1>1, Z3
<1>3. Periodo * 0 = 0 /\ Periodo * 1 = Periodo /\ Periodo * 2 = Periodo + Periodo
      /\ 3 * Periodo = Periodo + Periodo + Periodo
  BY <1>1, Z3
<1>4. \A p \in Nat : p <= 2 => p = 0 \/ p = 1 \/ p = 2
  OBVIOUS
<1>5. Periodo * CotaSilencio >= CotaSilencio + 1
  BY <1>1, Z3
<1> QED BY <1>1, <1>2, <1>3, <1>4, <1>5

\* The link keeps the count of the turns.
THEOREM TurnosContados == Spec => []TurnosInv
<1>1. Init => TurnosInv
  BY Perdidas, Constantes DEF Init, TareasInit, TurnosInv, Pendiente
<1>2. TypeOK /\ TurnosInv /\ [Next]_vars => TurnosInv'
  <2> SUFFICES ASSUME TypeOK, TurnosInv, [Next]_vars, ~ruidoso' PROVE TurnosInv'
    BY DEF TurnosInv
  <2>0. /\ tPet \in 0 .. Periodo /\ respuesta \in BOOLEAN /\ cola \in Nat
        /\ quieto \in 0 .. 1 /\ silencio \in 0 .. CotaSilencio /\ perdidas \in 0 .. CotaSilencio
        /\ Periodo \in Nat /\ Periodo >= 2 /\ CotaSilencio \in Nat
    BY Constantes, TresTurnos DEF TypeOK, TipoRed, TipoParser, TipoAux
  <2>1. CASE Peticion
    <3>1. /\ tPet = Periodo /\ tPet' = 0 /\ ~ruidoso
          /\ UNCHANGED <<bufer, quieto, cola, silencio>>
          /\ \/ respuesta' = TRUE /\ perdidas' = perdidas
             \/ respuesta' = respuesta /\ perdidas' = Mas1(perdidas)
      BY <2>1 DEF Peticion, parserVars
    <3>2. /\ ~respuesta /\ bufer = "nada" /\ ~(cola > 0) /\ quieto = 0
          /\ silencio + 1 <= Periodo * perdidas + Periodo
      BY <2>0, <3>1 DEF TurnosInv, Pendiente
    <3>3. CASE respuesta' = TRUE /\ perdidas' = perdidas
      BY <2>0, <3>1, <3>2, <3>3 DEF TurnosInv, Pendiente
    <3>4. CASE respuesta' = respuesta /\ perdidas' = Mas1(perdidas)
      <4>1. silencio + 1 <= Periodo * Mas1(perdidas)
        BY <2>0, <3>2, Perdidas DEF Mas1
      <4>2. perdidas' \in Nat /\ silencio' \in Nat /\ tPet' = 0
            /\ silencio' + 1 <= Periodo * perdidas'
        BY <2>0, <3>1, <3>4, <4>1 DEF Mas1
      <4>3. Periodo * perdidas' \in Nat
        BY <4>2, Perdidas
      <4>4. ~respuesta' /\ bufer' = "nada" /\ ~(cola' > 0) /\ quieto' = 0
        BY <3>1, <3>2, <3>4
      <4>5. silencio' + 1 <= Periodo * perdidas' + tPet'
        BY <4>2, <4>3
      <4> QED BY <4>4, <4>5, Zenon DEF TurnosInv, Pendiente
    <3> QED BY <3>1, <3>3, <3>4
  <2>2. CASE Contesta
    BY <2>0, <2>2 DEF Contesta, Llegan, TurnosInv, Pendiente, parserVars, auxVars
  <2>3. CASE Ruido
    BY <2>3 DEF Ruido
  <2>4. CASE CambiaLinea
    BY <2>4 DEF CambiaLinea, TurnosInv, Pendiente, parserVars, auxVars
  <2>5. CASE Captura
    <3>1. bufer = "trama" /\ tPet = 1 /\ ~respuesta
      BY <2>0, <2>5 DEF Captura, TurnosInv, auxVars
    <3>2. /\ bufer' = "nada" /\ quieto' = 0 /\ cola' > 0
          /\ UNCHANGED <<tPet, respuesta, silencio, perdidas, ruidoso>>
      BY <2>0, <2>5, <3>1, Constantes DEF Captura, auxVars
    <3> QED BY <2>0, <3>1, <3>2 DEF TurnosInv, Pendiente
  <2>6. CASE RecibeTrama
    <3>1. /\ cola' \in Nat /\ silencio' = 0 /\ perdidas' = 0 /\ ~ruidoso
          /\ UNCHANGED <<tPet, respuesta, bufer, quieto>>
      BY <2>0, <2>6 DEF RecibeTrama, redVars
    <3>2. tPet = 1
      BY <2>6, <3>1 DEF RecibeTrama, TurnosInv
    <3> QED BY <2>0, <3>1, <3>2, Perdidas DEF TurnosInv, Pendiente
  <2>7. CASE EsperaVacia \/ salvarrs485 \/ Inicial
    BY <2>7 DEF EsperaVacia, salvarrs485, Inicial, TurnosInv, Pendiente, redVars, parserVars,
                auxVars
  <2>8. CASE Reinicio
    BY <2>0, <2>8, Perdidas DEF Reinicio, TurnosInv, Pendiente
  <2>9. CASE Segundo
    <3>1. /\ tPet' = tPet + 1 /\ ~respuesta /\ cola = 0 /\ ~ruidoso
          /\ bufer = "nada" \/ quieto < 1
          /\ quieto' = (IF bufer = "nada" THEN quieto ELSE quieto + 1)
          /\ silencio' = Mas1(silencio)
          /\ UNCHANGED <<respuesta, bufer, cola, perdidas>>
      BY <2>9 DEF Segundo
    <3>2. silencio' <= silencio + 1 /\ silencio' \in Nat
      BY <2>0, <3>1 DEF Mas1
    <3>3. Periodo * perdidas \in Nat
      BY <2>0, Perdidas
    <3> QED BY <2>0, <3>1, <3>2, <3>3 DEF TurnosInv, Pendiente
  <2>10. CASE UNCHANGED vars
    BY <2>10 DEF vars, redVars, parserVars, auxVars, TurnosInv, Pendiente
  <2> QED BY <2>1, <2>2, <2>3, <2>4, <2>5, <2>6, <2>7, <2>8, <2>9, <2>10 DEF Next
<1> QED BY <1>1, <1>2, TipoCorrecto, PTL DEF Spec

\* Nothing but three lost turns, noise or a restart raises the alarm: the
\* counter of empty waits, however it turns, does not pass its threshold on
\* fewer.
THEOREM AlarmaConMotivo == Spec => SinFalsaAlarma
<1> DEFINE Paso == (~error /\ error' /\ reinicios' = reinicios) => perdidas >= 3 \/ ruidoso
<1>1. TypeOK /\ RelojInv /\ TurnosInv /\ [Next]_vars => [Paso]_vars
  <2> SUFFICES ASSUME TypeOK, RelojInv, TurnosInv, Next,
                      ~error, error', reinicios' = reinicios, ~ruidoso
               PROVE  perdidas >= 3
    OBVIOUS
  <2>1. EsperaVacia
    <3>1. ~Reinicio
      <4>1. reinicios \in Nat
        BY Constantes DEF TypeOK, TipoSistema
      <4>2. ASSUME Reinicio PROVE FALSE
        <5>1. reinicios' = reinicios + 1
          BY <4>2 DEF Reinicio
        <5> QED BY <4>1, <5>1
      <4> QED BY <4>2
    <3> QED BY <3>1 DEF Next, Peticion, Contesta, Ruido, CambiaLinea, Captura, RecibeTrama,
                        salvarrs485, Inicial, Segundo
  <2>2. /\ tPet \in 0 .. Periodo /\ silencio \in Nat /\ perdidas \in Nat
        /\ contador \in Nat /\ Periodo \in Nat /\ Espera \in Nat
    BY Constantes DEF TypeOK, TipoRed, TipoParser, TipoAux
  <2>3. contador >= Umbral /\ tParser = Espera /\ cola = 0
    BY <2>1 DEF EsperaVacia
  <2>4. silencio >= PlazoAlarma
    BY <2>3, Productos, Constantes DEF RelojInv
  <2>5. silencio >= 3 * Periodo + 1
    BY <2>2, <2>4, TresTurnos, Productos, Constantes
  <2>6. silencio <= Periodo * perdidas + Periodo
    <3>1. Periodo * perdidas \in Nat
      BY <2>2, Perdidas
    <3>2. CASE Pendiente
      <4>1. tPet <= 1
        <5>1. respuesta \/ bufer = "trama"
          BY <2>3, <3>2 DEF Pendiente
        <5> QED BY <2>2, <5>1 DEF TurnosInv, TypeOK, TipoRed
      <4> QED BY <2>2, <3>1, <3>2, <4>1 DEF TurnosInv
    <3>3. CASE ~Pendiente
      BY <2>2, <3>1, <3>3 DEF TurnosInv
    <3> QED BY <3>2, <3>3
  <2>7. ~(perdidas <= 2)
    <3>1. Periodo * perdidas \in Nat /\ perdidas <= 2 => Periodo * perdidas + Periodo <= 3 * Periodo
      BY <2>2, Perdidas
    <3> QED BY <2>2, <2>5, <2>6, <3>1
  <2> QED BY <2>2, <2>7
<1> QED BY <1>1, TipoCorrecto, RelojCorrecto, TurnosContados, PTL DEF Spec, SinFalsaAlarma
=============================================================================
