---------------------------- MODULE CanBusProofs ----------------------------
(***************************************************************************)
(* The inverter is never kept waiting for longer than CotaHV or CotaLV     *)
(* ticks, for queues of any size and any times.                            *)
(*                                                                         *)
(* Neither bound is inductive.  What is: the ticks gone by and the ticks   *)
(* the sender still needs, counted from the statement it is at, are        *)
(* together within the bound (PlazoLV, PlazoHV).                           *)
(***************************************************************************)
EXTENDS CanBus, Integers, TLAPS

\* A wait is no longer than the statement that began it asks for.
Esperas ==
  /\ pcE \in {"esperaHV", "vacia"} => tE <= 1
  /\ pcE = "pausa" => tE <= Pausa
  /\ pcE \in {"responde", "envia"} => tE <= Transmision
  /\ pcE = "envia" => restan <= TramasLV

\* The sender finds something to take from the queue before time passes.
Llegando == cola # <<>> \/ mano # Nada \/ rx # <<>>

\* The ticks the LV loop may still wait: those of one more message when the
\* bus can bring one before the wait is over.  While the receiver sleeps none
\* comes out of the driver.
Silencio ==
  IF pcR = "duerme" THEN IF cola # <<>> \/ tE = 1 THEN 1 ELSE 0
  ELSE IF Llegando \/ tE = 1 THEN IF tBus + 1 >= PeriodoBus THEN 2 ELSE 1
  ELSE IF tBus = PeriodoBus THEN 1 ELSE 0

\* The frames of this answer or cycle that are still to come.
PorEnviar == tE + (restan - 1) * Transmision

\* The ticks until the last frame of an LV cycle, under LV.
RestaLV ==
  CASE pcE = "envia"    -> PorEnviar
    [] pcE = "vacia"    -> Silencio + TramasLV * Transmision
    [] pcE = "pausa"    -> tE + 2 + TramasLV * Transmision
    [] pcE = "responde" -> PorEnviar + 2 + TramasLV * Transmision
    [] pcE = "esperaHV" -> tE + Respuesta + 2 + TramasLV * Transmision
    [] OTHER            -> 2 + TramasLV * Transmision

\* The ticks until the sender takes the next request, under HV, while there
\* is one.
RestaHV ==
  CASE pcE = "envia"    -> PorEnviar + Pausa
    [] pcE = "responde" -> PorEnviar
    [] pcE = "pausa"    -> tE
    [] OTHER            -> 0

\* The clocks of the two promises stand while nothing is waited for.
Relojes ==
  /\ ~(comunicar /\ protocolo = "LV") => sinCiclo = 0
  /\ ~(comunicar /\ protocolo = "HV" /\ EnCola) => edad = 0

\* The receiver fell asleep when there was no protocol: it wakes up within Sueno
\* ticks of LV being chosen.
Dormido == pcR = "duerme" => sinCiclo + tR <= Sueno

\* The time that went by and the time still to come stay within the bound.
PlazoLV == sinCiclo + RestaLV <= CotaLV

PlazoHV ==
  \A i \in 1 .. Len(cola) :
     cola[i].seguido => edad + RestaHV + (i - 1) * Respuesta <= CotaHV

\* One request at a time is followed.
UnoSeguido ==
  /\ mano # Nada => (mano.seguido => ~EnCola)
  /\ \A i \in 1 .. Len(rx) : rx[i].seguido =>
       /\ ~EnCola /\ (mano # Nada => ~mano.seguido)
       /\ \A j \in 1 .. Len(rx) : rx[j].seguido => i = j
----------------------------------------------------------------------------
\* A queue that is not empty, without its first message.
LEMMA SinElPrimero ==
  ASSUME NEW s \in Seq(Mensaje), s # <<>>
  PROVE  /\ Head(s) \in Mensaje /\ Head(s) = s[1]
         /\ Tail(s) \in Seq(Mensaje) /\ Len(s) \in Nat /\ Len(s) >= 1
         /\ Len(Tail(s)) = Len(s) - 1
         /\ \A i \in 1 .. Len(Tail(s)) : i + 1 \in 1 .. Len(s) /\ Tail(s)[i] = s[i + 1]
OBVIOUS

\* A queue with a message more.
LEMMA UnoMas ==
  ASSUME NEW s \in Seq(Mensaje), NEW m \in Mensaje
  PROVE  /\ Append(s, m) \in Seq(Mensaje) /\ Append(s, m) # <<>>
         /\ Len(s) \in Nat /\ Len(Append(s, m)) = Len(s) + 1
         /\ \A i \in 1 .. Len(s) : Append(s, m)[i] = s[i]
         /\ Append(s, m)[Len(s) + 1] = m
OBVIOUS

\* No message is the empty hand of the receiver.
LEMMA NadaNoEsMensaje ==
  ASSUME NEW m \in Mensaje
  PROVE  m # Nada /\ m.tipo \in Tipos /\ m.seguido \in BOOLEAN
BY DEF Nada, Mensaje

\* The waits of the statements lie within the longest one.
LEMMA EsperasCaben ==
  /\ Pausa \in 0 .. Mayor(Pausa, Mayor(Transmision, 1))
  /\ Transmision \in 0 .. Mayor(Pausa, Mayor(Transmision, 1))
  /\ {0, 1} \subseteq 0 .. Mayor(Pausa, Mayor(Transmision, 1))
BY TiemposPositivos DEF Mayor

\* What becomes of a request the sender takes under HV.
LEMMA AtiendeUna ==
  ASSUME TypeOK, Atiende
  PROVE  /\ pcE = "esperaHV" /\ cola # <<>> /\ cola' = Tail(cola) /\ Apunta
         /\ UNCHANGED <<webVars, rx, recibeVars, tBus>>
         /\ \/ pcE' = "responde" /\ tE' = Transmision /\ restan' \in {RespuestaEstado, RespuestaInfo}
            \/ pcE' \in {"vuelta", "lv"} /\ tE' = 0 /\ restan' = 0
<1>1. cola \in Seq(Mensaje) /\ cola # <<>>
  BY DEF TypeOK, TipoCAN, Atiende
<1>2. Head(cola).tipo \in {"estado", "info", "control", "otro"}
  BY <1>1, SinElPrimero, NadaNoEsMensaje DEF Tipos
<1>3. CASE Head(cola).tipo = "estado"
  BY <1>3 DEF Atiende, Pasa
<1>4. CASE Head(cola).tipo = "info"
  BY <1>4 DEF Atiende, Pasa
<1>5. CASE Head(cola).tipo = "control"
  BY <1>5 DEF Atiende, Pasa
<1>6. CASE Head(cola).tipo = "otro"
  BY <1>6 DEF Atiende, Pasa
<1> QED BY <1>2, <1>3, <1>4, <1>5, <1>6

\* The settings, the queues and the receiver stay what they are.
LEMMA TipoPasaCAN ==
  ASSUME TypeOK, [Next]_vars
  PROVE  TipoCAN'
<1> USE DEF TypeOK, TipoCAN
<1>1. CASE Web
  <2>1. CASE DesactivaCAN
    <3>1. guardados' \in 0 .. MaxGuardados
      BY <2>1, GuardadosAcotados DEF DesactivaCAN
    <3>2. comunicar' = FALSE /\ pcW' = "protocolo"
      BY <2>1 DEF DesactivaCAN, PasoWeb
    <3>3. UNCHANGED <<protocolo, rx, pcR, mano, tR, cola>>
      BY <2>1 DEF DesactivaCAN, PasoWeb, recibeVars
    <3> QED BY <3>1, <3>2, <3>3, Zenon
  <2>2. CASE QuitaProtocolo
    BY <2>2 DEF QuitaProtocolo, PasoWeb, recibeVars
  <2>3. CASE ActivaCAN
    <3>1. comunicar' \in BOOLEAN /\ pcW' = "pon"
      BY <2>3 DEF ActivaCAN, PasoWeb
    <3>2. UNCHANGED <<protocolo, guardados, rx, pcR, mano, tR, cola>>
      BY <2>3 DEF ActivaCAN, PasoWeb, recibeVars
    <3> QED BY <3>1, <3>2, Zenon
  <2>4. CASE PonProtocolo
    BY <2>4 DEF PonProtocolo, PasoWeb, recibeVars
  <2> QED BY <1>1, <2>1, <2>2, <2>3, <2>4 DEF Web
<1>2. CASE Llega
  <2>1. PICK m \in Mensaje : rx' = IF Len(rx) < CapDriver THEN Append(rx, m) ELSE rx
    BY <1>2 DEF Llega
  <2>2. rx' \in Seq(Mensaje) /\ Len(rx') <= CapDriver
    BY <2>1, UnoMas, ColasCaben
  <2> QED BY <1>2, <2>2 DEF Llega, webVars, recibeVars
<1>3. CASE MiraCAN \/ Despierta
  BY <1>3, TiemposPositivos DEF MiraCAN, Despierta, webVars
<1>4. CASE RecibeCAN
  <2>1. /\ Head(rx) \in Mensaje /\ Tail(rx) \in Seq(Mensaje)
        /\ Len(Tail(rx)) <= CapDriver
    BY <1>4, SinElPrimero, ColasCaben DEF RecibeCAN
  <2>2. Head(rx) # Nada
    BY <2>1, NadaNoEsMensaje
  <2> QED BY <1>4, <2>1, <2>2 DEF RecibeCAN, webVars
<1>5. CASE Encola
  <2>1. mano \in Mensaje
    BY <1>5 DEF Encola
  <2>2. cola' \in Seq(Mensaje) /\ Len(cola') <= CapCola
    BY <1>5, <2>1, UnoMas, ColasCaben DEF Encola
  <2> QED BY <1>5, <2>2 DEF Encola, webVars
<1>6. CASE ColaLlena
  BY <1>6 DEF ColaLlena, webVars
<1>7. CASE Envio
  <2>1. /\ UNCHANGED <<webVars, rx, recibeVars>>
        /\ cola' = cola \/ (cola # <<>> /\ cola' = Tail(cola))
    BY <1>7, AtiendeUna DEF Envio, MiraConfiguracion, MiraHV, SinPeticion, MiraLV, Vacia, EmpiezaLV,
      MiraNoConfigurado, FinPausa, Transmite, TerminaHV, TerminaLV, Pasa, SinCola
  <2>2. cola' \in Seq(Mensaje) /\ Len(cola') <= CapCola
    BY <2>1, SinElPrimero, ColasCaben
  <2> QED BY <2>1, <2>2 DEF webVars, recibeVars
<1>8. CASE Tick
  <2>1. UNCHANGED <<comunicar, protocolo, pcW, guardados, rx, pcR, mano, cola>>
    BY <1>8 DEF Tick, webVars
  <2>2. tR' \in Nat /\ tR' <= (IF pcR = "duerme" THEN Sueno ELSE 1)
    BY <1>8, TiemposPositivos DEF Tick
  <2> QED BY <2>1, <2>2
<1>9. CASE UNCHANGED vars
  BY <1>9 DEF vars, webVars, recibeVars
<1> QED BY <1>1, <1>2, <1>3, <1>4, <1>5, <1>6, <1>7, <1>8, <1>9 DEF Next, Receptor

\* The bookkeeping of a step that takes no time.
LEMMA ApuntaTipo ==
  ASSUME TypeOK, Apunta
  PROVE  edad' \in {0, edad} /\ sinCiclo' \in {0, sinCiclo} /\ edad' \in Nat /\ sinCiclo' \in Nat
BY DEF Apunta, TypeOK, TipoEnvio

\* The sender waits no longer than it should and has frames while it sends.
LEMMA TipoPasaEnvio ==
  ASSUME TypeOK, Esperas, [Next]_vars
  PROVE  TipoEnvio' /\ Esperas'
<1> USE DEF TypeOK, TipoEnvio, Esperas, TramasLV, RespuestaEstado, RespuestaInfo
<1> USE TiemposPositivos, BusConHuecos, EsperasCaben
<1>1. CASE Web
  <2>1. Apunta /\ UNCHANGED <<envioVars, tBus>>
    BY <1>1 DEF Web, DesactivaCAN, QuitaProtocolo, ActivaCAN, PonProtocolo, PasoWeb
  <2> QED BY <2>1, ApuntaTipo DEF envioVars
<1>2. CASE Llega
  BY <1>2 DEF Llega, envioVars, auxVars
<1>3. CASE Receptor
  <2>1. UNCHANGED <<envioVars, tBus>> /\ (Apunta \/ UNCHANGED auxVars)
    BY <1>3 DEF Receptor, MiraCAN, Despierta, RecibeCAN, Encola, ColaLlena
  <2> QED BY <2>1, ApuntaTipo DEF envioVars, auxVars
<1>4. CASE Envio
  <2>1. CASE Atiende
    <3>1. UNCHANGED tBus /\ edad' \in Nat /\ sinCiclo' \in Nat
      BY <2>1, AtiendeUna, ApuntaTipo
    <3> QED BY <2>1, <3>1, AtiendeUna
  <2>2. CASE Vacia
    <3>1. UNCHANGED tBus /\ edad' \in Nat /\ sinCiclo' \in Nat
      BY <2>2, ApuntaTipo DEF Vacia, Pasa
    <3> QED BY <2>2, <3>1 DEF Vacia, Pasa
  <2>3. CASE MiraConfiguracion \/ MiraHV \/ SinPeticion \/ MiraLV \/ MiraNoConfigurado \/ FinPausa
    <3>1. /\ UNCHANGED <<tBus, restan, edad, sinCiclo>>
          /\ pcE \notin {"responde", "envia"} /\ pcE' \notin {"responde", "envia"}
          /\ \/ pcE' \in {"esperaHV", "vacia"} /\ tE' = 1
             \/ pcE' = "pausa" /\ tE' = Pausa
             \/ pcE' \in {"vuelta", "hv", "lv", "no"} /\ tE' = 0
      BY <2>3 DEF MiraConfiguracion, MiraHV, SinPeticion, MiraLV, MiraNoConfigurado, FinPausa,
        Pasa, SinCola, auxVars
    <3> QED BY <3>1
  <2>5. CASE EmpiezaLV \/ TerminaHV
    BY <2>5 DEF EmpiezaLV, TerminaHV, Pasa, auxVars
  <2>6. CASE Transmite
    BY <2>6 DEF Transmite, auxVars
  <2>7. CASE TerminaLV
    BY <2>7 DEF TerminaLV, Pasa
  <2> QED BY <1>4, <2>1, <2>2, <2>3, <2>5, <2>6, <2>7 DEF Envio
<1>5. CASE Tick
  <2>1. /\ UNCHANGED <<pcE, restan>> /\ tE' = tE - 1 /\ tE > 0
    BY <1>5 DEF Tick
  <2>2. tBus' \in 0 .. PeriodoBus /\ edad' \in Nat /\ sinCiclo' \in Nat
    BY <1>5 DEF Tick
  <2>3. tE' \in 0 .. Mayor(Pausa, Mayor(Transmision, 1)) /\ tE' <= tE
    BY <2>1, EsperasCaben DEF Mayor
  <2> QED BY <2>1, <2>2, <2>3
<1>6. CASE UNCHANGED vars
  BY <1>6 DEF vars, envioVars, auxVars
<1> QED BY <1>1, <1>2, <1>3, <1>4, <1>5, <1>6 DEF Next

\* The types at power on.
LEMMA TipoAlPrincipio ==
  ASSUME Init
  PROVE  TypeOK /\ Esperas
<1>1. TipoCAN
  <2>1. /\ guardados \in 0 .. MaxGuardados /\ tR \in Nat /\ tR <= 1
        /\ rx \in Seq(Mensaje) /\ Len(rx) <= CapDriver
        /\ cola \in Seq(Mensaje) /\ Len(cola) <= CapCola
    BY ColasCaben, GuardadosAcotados DEF Init
  <2>2. /\ comunicar \in BOOLEAN /\ protocolo \in {"no", "LV", "HV"}
        /\ pcW = "espera" /\ pcR = "mira" /\ mano = Nada
    BY DEF Init
  <2>3. pcR # "encola" /\ pcR # "duerme"
    BY <2>2
  <2> QED BY <2>1, <2>2, <2>3, Zenon DEF TipoCAN
<1>2. TipoEnvio /\ Esperas
  <2>1. pcE = "vuelta" /\ tE = 0 /\ restan = 0 /\ tBus = PeriodoBus /\ edad = 0 /\ sinCiclo = 0
    BY DEF Init
  <2>2. tE \in 0 .. Mayor(Pausa, Mayor(Transmision, 1)) /\ tBus \in 0 .. PeriodoBus
    BY <2>1, EsperasCaben, BusConHuecos
  <2>3. restan \in 0 .. RespuestaEstado /\ ~(restan > 0) /\ edad \in Nat /\ sinCiclo \in Nat
    BY <2>1 DEF RespuestaEstado
  <2>4. pcE \notin {"responde", "envia", "esperaHV", "vacia", "pausa"}
    BY <2>1
  <2>5. TipoEnvio
    BY <2>1, <2>2, <2>3, <2>4, SMT DEF TipoEnvio
  <2>6. Esperas
    BY <2>4 DEF Esperas
  <2> QED BY <2>5, <2>6
<1> QED BY <1>1, <1>2 DEF TypeOK

\* The types hold in every state.
THEOREM TipoCorrecto == Spec => []TypeOK /\ []Esperas
<1> DEFINE Tipos2 == TypeOK /\ Esperas
<1>1. Init => Tipos2
  BY TipoAlPrincipio
<1>2. Tipos2 /\ [Next]_vars => Tipos2'
  BY TipoPasaCAN, TipoPasaEnvio DEF Tipos2, TypeOK
<1> QED BY <1>1, <1>2, PTL DEF Spec
----------------------------------------------------------------------------
\* At most one followed request is on its way, whatever the step.
LEMMA UnoSeguidoPasa ==
  ASSUME TypeOK, UnoSeguido, [Next]_vars
  PROVE  UnoSeguido'
<1> USE DEF TypeOK, TipoCAN
<1>1. CASE Web
  <2>1. UNCHANGED <<rx, mano, cola>>
    BY <1>1 DEF Web, DesactivaCAN, QuitaProtocolo, ActivaCAN, PonProtocolo, PasoWeb, recibeVars
  <2> QED BY <2>1 DEF UnoSeguido, EnCola
<1>2. CASE Llega
  <2>1. PICK m \in Mensaje :
          /\ m.seguido => ~EnCola /\ mano = Nada /\ rx = <<>>
          /\ rx' = IF Len(rx) < CapDriver THEN Append(rx, m) ELSE rx
    BY <1>2 DEF Llega
  <2>2. UNCHANGED <<mano, cola>>
    BY <1>2 DEF Llega, recibeVars
  <2>3. EnCola' = EnCola
    BY <2>2 DEF EnCola
  <2>4. CASE rx' = rx
    BY <2>2, <2>3, <2>4 DEF UnoSeguido
  <2>5. CASE rx' = Append(rx, m)
    <3>1. ASSUME NEW i \in 1 .. Len(rx'), rx'[i].seguido
          PROVE  /\ ~EnCola /\ (mano # Nada => ~mano.seguido)
                 /\ \A j \in 1 .. Len(rx') : rx'[j].seguido => i = j
      <4>1. CASE m.seguido
        <5>1. Len(rx') = 1
          BY <2>1, <2>5, <4>1, UnoMas
        <5> QED BY <2>1, <4>1, <5>1, <3>1
      <4>2. CASE ~m.seguido
        <5>1. i \in 1 .. Len(rx) /\ rx[i].seguido
          BY <2>5, <3>1, <4>2, UnoMas
        <5>2. \A j \in 1 .. Len(rx') : rx'[j].seguido => j \in 1 .. Len(rx) /\ rx[j].seguido
          BY <2>5, <4>2, UnoMas
        <5> QED BY <5>1, <5>2 DEF UnoSeguido
      <4> QED BY <4>1, <4>2
    <3> QED BY <2>2, <2>3, <3>1 DEF UnoSeguido
  <2> QED BY <2>1, <2>4, <2>5
<1>3. CASE MiraCAN \/ Despierta
  BY <1>3 DEF MiraCAN, Despierta, UnoSeguido, EnCola
<1>4. CASE RecibeCAN
  <2>1. /\ rx \in Seq(Mensaje) /\ rx # <<>> /\ mano' = rx[1] /\ rx' = Tail(rx)
        /\ UNCHANGED cola
    BY <1>4, SinElPrimero DEF RecibeCAN
  <2>2. EnCola' = EnCola
    BY <2>1 DEF EnCola
  <2>3. 1 \in 1 .. Len(rx)
    BY <2>1, SinElPrimero
  <2>4. rx[1].seguido => ~EnCola
    BY <2>3 DEF UnoSeguido
  <2>5. ASSUME NEW i \in 1 .. Len(rx'), rx'[i].seguido
        PROVE  /\ ~EnCola /\ ~rx[1].seguido
               /\ \A j \in 1 .. Len(rx') : rx'[j].seguido => i = j
    <3>1. i \in Nat /\ i + 1 \in 1 .. Len(rx) /\ rx[i + 1].seguido
      BY <2>1, <2>5, SinElPrimero
    <3>2. \A j \in 1 .. Len(rx') : rx'[j].seguido => j + 1 \in 1 .. Len(rx) /\ rx[j + 1].seguido
      BY <2>1, SinElPrimero
    <3>3. ~EnCola /\ \A j \in 1 .. Len(rx) : rx[j].seguido => i + 1 = j
      BY <3>1 DEF UnoSeguido
    <3> QED BY <2>3, <3>1, <3>2, <3>3
  <2> QED BY <2>1, <2>2, <2>4, <2>5 DEF UnoSeguido
<1>5. CASE Encola
  <2>1. mano \in Mensaje /\ mano # Nada /\ mano' = Nada /\ UNCHANGED rx /\ cola' = Append(cola, mano)
    BY <1>5 DEF Encola
  <2>2. ASSUME NEW i \in 1 .. Len(rx), rx[i].seguido
        PROVE  ~EnCola' /\ \A j \in 1 .. Len(rx) : rx[j].seguido => i = j
    <3>1. /\ ~EnCola /\ ~mano.seguido
          /\ \A j \in 1 .. Len(rx) : rx[j].seguido => i = j
      BY <2>1, <2>2 DEF UnoSeguido
    <3>2. ~EnCola'
      BY <2>1, <3>1, UnoMas DEF EnCola
    <3> QED BY <3>1, <3>2
  <2> QED BY <2>1, <2>2 DEF UnoSeguido
<1>6. CASE ColaLlena
  BY <1>6 DEF ColaLlena, UnoSeguido, EnCola
<1>7. CASE Envio
  <2>1. /\ UNCHANGED <<rx, mano>>
        /\ cola' = cola \/ (cola # <<>> /\ cola' = Tail(cola))
    BY <1>7, AtiendeUna DEF Envio, MiraConfiguracion, MiraHV, SinPeticion, MiraLV, Vacia, EmpiezaLV,
      MiraNoConfigurado, FinPausa, Transmite, TerminaHV, TerminaLV, Pasa, SinCola, recibeVars
  <2>2. EnCola' => EnCola
    <3>1. CASE cola' = cola
      BY <3>1 DEF EnCola
    <3>2. CASE cola # <<>> /\ cola' = Tail(cola)
      <4>1. \A i \in 1 .. Len(cola') : i + 1 \in 1 .. Len(cola) /\ cola'[i] = cola[i + 1]
        BY <3>2, SinElPrimero
      <4> QED BY <4>1 DEF EnCola
    <3> QED BY <2>1, <3>1, <3>2
  <2> QED BY <2>1, <2>2 DEF UnoSeguido
<1>8. CASE Tick
  BY <1>8 DEF Tick, UnoSeguido, EnCola
<1>9. CASE UNCHANGED vars
  BY <1>9 DEF vars, recibeVars, UnoSeguido, EnCola
<1> QED BY <1>1, <1>2, <1>3, <1>4, <1>5, <1>6, <1>7, <1>8, <1>9 DEF Next, Receptor
----------------------------------------------------------------------------
\* n frames that all block, the first of them for t ticks more.
LEMMA Ocupacion ==
  ASSUME NEW n \in 1 .. 10, NEW t \in 0 .. Transmision
  PROVE  /\ (n - 1) * Transmision \in Nat
         /\ t + (n - 1) * Transmision \in Nat
         /\ t + (n - 1) * Transmision <= 10 * Transmision
         /\ n <= 6 => t + (n - 1) * Transmision <= 6 * Transmision
         /\ n > 1 => Transmision + (n - 1 - 1) * Transmision = (n - 1) * Transmision
<1> DEFINE p == (n - 1) * Transmision
<1>1. p \in Nat
  BY TiemposPositivos, Z3
<1>2. p <= 9 * Transmision /\ (n <= 6 => p <= 5 * Transmision)
  BY TiemposPositivos, Z3
<1>3. n > 1 => (n - 1 - 1) * Transmision = p - Transmision
  BY TiemposPositivos, Z3
<1> HIDE DEF p
<1>4. /\ t + p \in Nat /\ t + p <= 10 * Transmision
      /\ n <= 6 => t + p <= 6 * Transmision
      /\ n > 1 => Transmision + (p - Transmision) = p
  BY <1>1, <1>2, TiemposPositivos
<1> QED BY <1>1, <1>3, <1>4 DEF p

\* The requests before the one followed.
LEMMA Delante ==
  ASSUME NEW i \in Nat, i >= 1
  PROVE  /\ Respuesta \in Nat /\ (i - 1) * Respuesta \in Nat
         /\ (i + 1 - 1) * Respuesta = (i - 1) * Respuesta + Respuesta
         /\ i <= CapCola => (i - 1) * Respuesta <= (CapCola - 1) * Respuesta
         /\ (CapCola - 1) * Respuesta \in Nat
<1>1. Respuesta \in Nat
  BY TiemposPositivos DEF Respuesta, RespuestaEstado
<1> HIDE DEF Respuesta
<1> QED BY <1>1, ColasCaben, Z3

\* How long what the sender is at can last, whatever it is.
LEMMA RestaCabe ==
  ASSUME TypeOK', Esperas'
  PROVE  /\ RestaLV' \in Nat /\ RestaLV' <= CotaLV
         /\ RestaHV' \in Nat /\ RestaHV' <= Mayor(Respuesta, CicloLV)
<1> DEFINE q == tE' + (restan' - 1) * Transmision
<1>1. /\ tE' \in Nat /\ tBus' \in Nat
      /\ pcE' \in {"vuelta", "hv", "esperaHV", "lv", "vacia", "no", "pausa", "responde", "envia"}
  BY DEF TypeOK, TipoEnvio
<1>2. PorEnviar' = q
  BY DEF PorEnviar
<1>3. ASSUME pcE' \in {"responde", "envia"}
      PROVE  q \in Nat /\ q <= 10 * Transmision /\ (pcE' = "envia" => q <= 6 * Transmision)
  <2>1. restan' \in 1 .. 10 /\ tE' \in 0 .. Transmision /\ (pcE' = "envia" => restan' <= 6)
    BY <1>3, TiemposPositivos DEF TypeOK, TipoEnvio, Esperas, RespuestaEstado, TramasLV
  <2> QED BY <2>1, Ocupacion
<1> HIDE DEF q
<1>4. Silencio' \in 0 .. 2
  BY DEF Silencio
<1>5. /\ pcE' \in {"esperaHV", "vacia"} => tE' <= 1
      /\ pcE' = "pausa" => tE' <= Pausa
  BY DEF Esperas
<1> USE TiemposPositivos DEF CotaLV, CicloLV, Respuesta, RespuestaEstado, TramasLV, Mayor
<1>6. RestaLV' \in Nat /\ RestaLV' <= CotaLV
  BY <1>1, <1>2, <1>3, <1>4, <1>5 DEF RestaLV
<1>7. RestaHV' \in Nat /\ RestaHV' <= Mayor(Respuesta, CicloLV)
  BY <1>1, <1>2, <1>3, <1>5 DEF RestaHV
<1> QED BY <1>6, <1>7

\* A step of the sender that takes no time, under LV: the end of the cycle does
\* not move away, or is reached.
LEMMA EnvioBajoLV ==
  ASSUME TypeOK, Esperas, TypeOK', Esperas', Rige("LV"), Envio
  PROVE  sinCiclo' = 0 \/ (sinCiclo' = sinCiclo /\ RestaLV' <= RestaLV)
<1> DEFINE K == TramasLV * Transmision
<1> USE DEF TypeOK, TipoEnvio, Rige
<1>1. tE \in Nat
  OBVIOUS
<1>2. Silencio \in 0 .. 2 /\ Silencio' \in 0 .. 2
  BY DEF Silencio
<1>3. K \in Nat /\ K = 6 * Transmision /\ Respuesta \in Nat /\ Respuesta = 10 * Transmision
  BY TiemposPositivos DEF Respuesta, RespuestaEstado, TramasLV
<1> HIDE DEF K
<1>4. CASE MiraConfiguracion \/ MiraHV
  <2>1. RestaLV = 2 + K /\ RestaLV' = 2 + K /\ sinCiclo' = sinCiclo
    BY <1>4 DEF MiraConfiguracion, MiraHV, Pasa, SinCola, auxVars, RestaLV, K
  <2> QED BY <1>3, <2>1
<1>5. CASE Atiende
  <2>1. sinCiclo' \in {0, sinCiclo}
    BY <1>5, ApuntaTipo, AtiendeUna
  <2>2. RestaLV = tE + Respuesta + 2 + K
    BY <1>5, AtiendeUna DEF RestaLV, K
  <2>3. CASE pcE' = "responde" /\ tE' = Transmision /\ restan' \in {RespuestaEstado, RespuestaInfo}
    <3> DEFINE q == Transmision + (restan' - 1) * Transmision
    <3>1. restan' \in 1 .. 10 /\ Transmision \in 0 .. Transmision
      BY <2>3, TiemposPositivos DEF RespuestaEstado, RespuestaInfo
    <3>2. q \in Nat /\ q <= Respuesta
      BY <1>3, <3>1, Ocupacion
    <3>3. RestaLV' = q + 2 + K
      BY <2>3 DEF RestaLV, PorEnviar, K
    <3> HIDE DEF q
    <3> QED BY <1>1, <1>3, <2>1, <2>2, <3>2, <3>3
  <2>4. CASE pcE' \in {"vuelta", "lv"} /\ tE' = 0 /\ restan' = 0
    <3>1. RestaLV' = 2 + K
      BY <2>4 DEF RestaLV, K
    <3> QED BY <1>1, <1>3, <2>1, <2>2, <3>1
  <2> QED BY <1>5, <2>3, <2>4, AtiendeUna
<1>6. CASE SinPeticion
  <2>1. RestaLV = tE + Respuesta + 2 + K /\ RestaLV' = 2 + K /\ sinCiclo' = sinCiclo
    BY <1>6 DEF SinPeticion, Pasa, SinCola, auxVars, RestaLV, K
  <2> QED BY <1>1, <1>3, <2>1
<1>7. CASE MiraLV
  <2>1. RestaLV = 2 + K /\ RestaLV' = Silencio' + K /\ sinCiclo' = sinCiclo
    BY <1>7 DEF MiraLV, Pasa, SinCola, auxVars, RestaLV, K
  <2> QED BY <1>2, <1>3, <2>1
<1>8. CASE Vacia
  <2>1. sinCiclo' \in {0, sinCiclo}
    BY <1>8, ApuntaTipo DEF Vacia
  <2>2. RestaLV = Silencio + K /\ RestaLV' = Silencio' + K
    BY <1>8 DEF Vacia, Pasa, RestaLV, K
  <2>3. cola # <<>> /\ Llegando /\ tE' = 1 /\ tBus' = tBus /\ pcR' = pcR
    BY <1>8 DEF Vacia, Pasa, Llegando, recibeVars
  <2>4. Silencio' = Silencio
    BY <2>3 DEF Silencio
  <2> QED BY <1>2, <1>3, <2>1, <2>2, <2>4
<1>9. CASE EmpiezaLV
  <2>1. RestaLV = Silencio + K /\ sinCiclo' = sinCiclo
    BY <1>9 DEF EmpiezaLV, Pasa, RestaLV, auxVars, K
  <2>2. RestaLV' = Transmision + (TramasLV - 1) * Transmision
    BY <1>9 DEF EmpiezaLV, Pasa, RestaLV, PorEnviar
  <2>3. Transmision + (TramasLV - 1) * Transmision = K
    BY <1>3, TiemposPositivos DEF TramasLV
  <2> QED BY <1>2, <1>3, <2>1, <2>2, <2>3
<1>10. CASE MiraNoConfigurado
  <2>1. RestaLV = 2 + K /\ RestaLV' = 2 + K /\ sinCiclo' = sinCiclo
    BY <1>10 DEF MiraNoConfigurado, Pasa, SinCola, auxVars, RestaLV, K
  <2> QED BY <1>3, <2>1
<1>11. CASE FinPausa
  <2>1. RestaLV = tE + 2 + K /\ RestaLV' = 2 + K /\ sinCiclo' = sinCiclo
    BY <1>11 DEF FinPausa, Pasa, SinCola, auxVars, RestaLV, K
  <2> QED BY <1>1, <1>3, <2>1
<1>12. CASE Transmite
  <2> DEFINE p == (restan - 1) * Transmision
  <2>1. restan \in 1 .. 10 /\ restan > 1 /\ tE \in 0 .. Transmision
    BY <1>12, TiemposPositivos DEF Transmite, Esperas, RespuestaEstado
  <2>2. p \in Nat /\ Transmision + (restan - 1 - 1) * Transmision = p
    BY <2>1, Ocupacion
  <2>3. PorEnviar' = p /\ PorEnviar = tE + p
    BY <1>12, <2>2 DEF Transmite, PorEnviar
  <2>4. sinCiclo' = sinCiclo /\ pcE' = pcE /\ pcE \in {"responde", "envia"}
    BY <1>12 DEF Transmite, auxVars
  <2> HIDE DEF p
  <2>5. CASE pcE = "responde"
    <3>1. RestaLV = PorEnviar + 2 + K /\ RestaLV' = PorEnviar' + 2 + K
      BY <2>4, <2>5 DEF RestaLV, K
    <3> QED BY <1>1, <1>3, <2>2, <2>3, <2>4, <3>1
  <2>6. CASE pcE = "envia"
    <3>1. RestaLV = PorEnviar /\ RestaLV' = PorEnviar'
      BY <2>4, <2>6 DEF RestaLV
    <3> QED BY <1>1, <1>3, <2>2, <2>3, <2>4, <3>1
  <2> QED BY <2>4, <2>5, <2>6
<1>13. CASE TerminaHV
  <2>1. RestaLV = PorEnviar + 2 + K /\ RestaLV' = 2 + K /\ sinCiclo' = sinCiclo
    BY <1>13 DEF TerminaHV, Pasa, auxVars, RestaLV, K
  <2>2. PorEnviar = tE
    BY <1>13, <1>1, TiemposPositivos DEF TerminaHV, PorEnviar
  <2> QED BY <1>1, <1>3, <2>1, <2>2
<1>14. CASE TerminaLV
  BY <1>14 DEF TerminaLV
<1> QED BY <1>4, <1>5, <1>6, <1>7, <1>8, <1>9, <1>10, <1>11, <1>12, <1>13, <1>14 DEF Envio

\* A tick under LV brings the end of the cycle a tick nearer: in the wait for
\* the queue, since a message that comes at its end is the last one before the
\* next tick.
LEMMA TickBajoLV ==
  ASSUME TypeOK, Esperas, Rige("LV"), Tick
  PROVE  RestaLV' = RestaLV - 1
<1> DEFINE K == TramasLV * Transmision
           p == (restan - 1) * Transmision
<1> USE DEF TypeOK, TipoEnvio
<1>1. K \in Nat /\ Respuesta \in Nat
  BY TiemposPositivos DEF Respuesta, RespuestaEstado, TramasLV
<1>2. pcE' = pcE /\ restan' = restan /\ tE' = tE - 1 /\ tE \in Nat /\ tE > 0
  BY DEF Tick
<1>3. p \in Int
  BY TiemposPositivos
<1>4. PorEnviar = tE + p /\ PorEnviar' = tE - 1 + p
  BY <1>2 DEF PorEnviar
<1> HIDE DEF K, p
<1>5. CASE pcE = "vacia"
  <2>1. cola = <<>> /\ tE = 1 /\ tE' = 0 /\ UNCHANGED <<cola, pcR, rx, mano>>
    BY <1>2, <1>5 DEF Tick, Esperas
  <2>2. /\ tBus \in 0 .. PeriodoBus
        /\ tBus' = IF tBus < PeriodoBus THEN tBus + 1 ELSE tBus
    BY DEF Tick
  <2>3. Silencio' = Silencio - 1
    <3>1. CASE pcR = "duerme"
      BY <2>1, <3>1 DEF Silencio
    <3>2. CASE pcR # "duerme"
      <4>1. rx = <<>> /\ mano = Nada
        BY <2>1, <3>2, ColasCaben DEF Tick, TipoCAN
      <4>2. ~Llegando /\ ~Llegando'
        BY <2>1, <4>1 DEF Llegando
      <4> QED BY <2>1, <2>2, <3>2, <4>2, BusConHuecos DEF Silencio
    <3> QED BY <3>1, <3>2
  <2>4. Silencio \in Nat
    BY DEF Silencio
  <2>5. RestaLV = Silencio + K /\ RestaLV' = Silencio' + K
    BY <1>2, <1>5 DEF RestaLV, K
  <2> QED BY <1>1, <2>3, <2>4, <2>5
<1>6. CASE pcE = "pausa"
  <2>1. RestaLV = tE + 2 + K /\ RestaLV' = tE' + 2 + K
    BY <1>2, <1>6 DEF RestaLV, K
  <2> QED BY <1>1, <1>2, <2>1
<1>7. CASE pcE = "esperaHV"
  <2>1. RestaLV = tE + Respuesta + 2 + K /\ RestaLV' = tE' + Respuesta + 2 + K
    BY <1>2, <1>7 DEF RestaLV, K
  <2> QED BY <1>1, <1>2, <2>1
<1>8. CASE pcE = "responde"
  <2>1. RestaLV = PorEnviar + 2 + K /\ RestaLV' = PorEnviar' + 2 + K
    BY <1>2, <1>8 DEF RestaLV, K
  <2> QED BY <1>1, <1>2, <1>3, <1>4, <2>1
<1>9. CASE pcE = "envia"
  <2>1. RestaLV = PorEnviar /\ RestaLV' = PorEnviar'
    BY <1>2, <1>9 DEF RestaLV
  <2> QED BY <1>2, <1>3, <1>4, <2>1
<1> QED BY <1>5, <1>6, <1>7, <1>8, <1>9 DEF Tick

\* The clocks of a step that takes no time.
LEMMA RelojesDeApunta ==
  ASSUME TypeOK, Apunta
  PROVE  Relojes'
BY DEF Relojes, Apunta, Rige

\* The clocks stand when they should after any step.
LEMMA RelojesPasan ==
  ASSUME TypeOK, Relojes, [Next]_vars
  PROVE  Relojes'
<1>1. CASE Apunta
  BY <1>1, RelojesDeApunta
<1>2. CASE UNCHANGED <<comunicar, protocolo, cola, edad>> /\ sinCiclo' \in {0, sinCiclo}
  <2>1. EnCola' = EnCola
    BY <1>2 DEF EnCola
  <2> QED BY <1>2, <2>1 DEF Relojes
<1>3. CASE Tick
  <2>1. UNCHANGED <<comunicar, protocolo, cola>>
    BY <1>3 DEF Tick, webVars
  <2>2. EnCola' = EnCola
    BY <2>1 DEF EnCola
  <2> QED BY <1>3, <2>1, <2>2 DEF Relojes, Tick, Rige
<1>4. CASE Web
  BY <1>1, <1>4 DEF Web, DesactivaCAN, QuitaProtocolo, ActivaCAN, PonProtocolo, PasoWeb
<1>5. CASE Llega \/ Receptor
  BY <1>1, <1>2, <1>5 DEF Llega, Receptor, MiraCAN, Despierta, RecibeCAN, Encola, ColaLlena, webVars, auxVars
<1>6. CASE Envio
  <2>1. CASE Atiende \/ Vacia
    BY <1>1, <2>1 DEF Atiende, Vacia
  <2>2. CASE MiraConfiguracion \/ MiraHV \/ SinPeticion \/ MiraLV
    BY <1>2, <2>2 DEF MiraConfiguracion, MiraHV, SinPeticion, MiraLV, Pasa, SinCola, webVars, auxVars
  <2>3. CASE EmpiezaLV \/ MiraNoConfigurado \/ FinPausa
    BY <1>2, <2>3 DEF EmpiezaLV, MiraNoConfigurado, FinPausa, Pasa, SinCola, webVars, auxVars
  <2>4. CASE Transmite \/ TerminaHV \/ TerminaLV
    BY <1>2, <2>4 DEF Transmite, TerminaHV, TerminaLV, Pasa, webVars, auxVars
  <2> QED BY <1>6, <2>1, <2>2, <2>3, <2>4 DEF Envio
<1>7. CASE UNCHANGED vars
  BY <1>2, <1>7 DEF vars, webVars, auxVars
<1> QED BY <1>3, <1>4, <1>5, <1>6, <1>7 DEF Next

\* The frames of LV come in time after any step.
LEMMA PlazoLVPasa ==
  ASSUME TypeOK, Esperas, TypeOK', Esperas', Relojes, Relojes', Dormido, PlazoLV, [Next]_vars
  PROVE  PlazoLV'
<1>0. PICK c \in Nat, a \in Nat, b \in Int :
        /\ a = RestaLV' /\ b = RestaLV /\ a <= c /\ sinCiclo + b <= c
        /\ sinCiclo' + a <= c => PlazoLV'
  <2>1. CotaLV \in Nat /\ RestaLV' \in Nat /\ RestaLV' <= CotaLV /\ sinCiclo + RestaLV <= CotaLV
    BY RestaCabe, TiemposPositivos DEF PlazoLV, CotaLV, Respuesta, RespuestaEstado, TramasLV, Mayor
  <2>2. sinCiclo' + RestaLV' <= CotaLV => PlazoLV'
    BY DEF PlazoLV, CotaLV, Respuesta, RespuestaEstado, TramasLV, Mayor
  <2>3. RestaLV \in Int
    <3>1. Silencio \in 0 .. 2
      BY DEF Silencio
    <3> QED BY <3>1, TiemposPositivos
          DEF RestaLV, PorEnviar, TypeOK, TipoEnvio, TramasLV, Respuesta, RespuestaEstado
  <2> QED BY <2>1, <2>2, <2>3
<1>1. a <= c /\ sinCiclo + b <= c
  BY <1>0
<1>2. sinCiclo \in Nat /\ sinCiclo' \in Nat
  BY DEF TypeOK, TipoEnvio
<1>3. ASSUME sinCiclo' = 0 PROVE PlazoLV'
  <2>1. sinCiclo' + a <= c
    BY <1>1, <1>3
  <2> QED BY <1>0, <2>1
<1>4. ASSUME sinCiclo' \in {0, sinCiclo}, RestaLV' <= RestaLV PROVE PlazoLV'
  <2>1. a <= b
    BY <1>0, <1>4
  <2>2. sinCiclo + a <= c
    BY <1>1, <1>2, <2>1
  <2>3. CASE sinCiclo' = sinCiclo
    BY <1>0, <2>2, <2>3
  <2> QED BY <1>3, <1>4, <2>3
<1>5. ASSUME sinCiclo' \in {0, sinCiclo}, RestaLV' = RestaLV PROVE PlazoLV'
  <2>1. a = b
    BY <1>0, <1>5
  <2>2. sinCiclo + a <= c
    BY <1>1, <1>2, <2>1
  <2>3. CASE sinCiclo' = sinCiclo
    BY <1>0, <2>2, <2>3
  <2> QED BY <1>3, <1>5, <2>3
<1>6. CASE Web
  <2>1. Apunta /\ UNCHANGED <<rx, pcR, mano, cola, pcE, tE, restan, tBus>>
    BY <1>6 DEF Web, DesactivaCAN, QuitaProtocolo, ActivaCAN, PonProtocolo, PasoWeb, recibeVars, envioVars
  <2>2. RestaLV' = RestaLV
    BY <2>1 DEF RestaLV, PorEnviar, Silencio, Llegando
  <2> QED BY <1>5, <2>1, <2>2, ApuntaTipo
<1>7. CASE Llega
  <2>1. UNCHANGED <<pcR, mano, cola, pcE, tE, restan, sinCiclo>>
    BY <1>7 DEF Llega, recibeVars, envioVars, auxVars
  <2>2. tBus = PeriodoBus /\ tBus' = 0 /\ (rx # <<>> => rx' # <<>>) /\ (rx' = rx => rx # <<>>)
    <3>1. PICK m \in Mensaje : rx' = IF Len(rx) < CapDriver THEN Append(rx, m) ELSE rx
      BY <1>7 DEF Llega
    <3>2. rx' # <<>>
      <4>1. CASE rx' = Append(rx, m)
        BY <4>1, UnoMas DEF TypeOK, TipoCAN
      <4>2. CASE Len(rx) >= CapDriver
        BY <3>1, <4>2, ColasCaben DEF TypeOK, TipoCAN
      <4> QED BY <3>1, <4>1, <4>2, ColasCaben DEF TypeOK, TipoCAN
    <3> QED BY <1>7, <3>2 DEF Llega
  <2>3. Silencio' <= Silencio /\ Silencio \in Nat
    BY <2>1, <2>2, BusConHuecos DEF Silencio, Llegando
  <2>4. TramasLV * Transmision \in Nat /\ Silencio' \in Nat
    BY TiemposPositivos DEF TramasLV, Silencio
  <2>5. CASE pcE = "vacia"
    <3>1. RestaLV' = Silencio' + TramasLV * Transmision /\ RestaLV = Silencio + TramasLV * Transmision
      BY <2>1, <2>5 DEF RestaLV
    <3>2. RestaLV' <= RestaLV
      BY <2>3, <2>4, <3>1
    <3> QED BY <1>4, <2>1, <3>2
  <2>6. CASE pcE # "vacia"
    <3>1. RestaLV' = RestaLV
      BY <2>1, <2>6 DEF RestaLV, PorEnviar
    <3> QED BY <1>5, <2>1, <3>1
  <2> QED BY <2>5, <2>6
<1>8. CASE MiraCAN
  <2>1. UNCHANGED <<comunicar, protocolo, rx, mano, cola, pcE, tE, restan, tBus, sinCiclo>>
    BY <1>8 DEF MiraCAN, webVars, auxVars, envioVars
  <2>2. CASE comunicar
    <3>1. pcR # "duerme" /\ pcR' # "duerme"
      BY <1>8, <2>2 DEF MiraCAN
    <3>2. RestaLV' = RestaLV
      BY <2>1, <3>1 DEF RestaLV, PorEnviar, Silencio, Llegando
    <3> QED BY <1>5, <2>1, <3>2
  <2>3. CASE ~comunicar
    <3>1. sinCiclo' = 0
      BY <2>1, <2>3 DEF Relojes
    <3> QED BY <1>3, <3>1
  <2> QED BY <2>2, <2>3
<1>12. CASE Despierta
  <2>1. UNCHANGED <<rx, mano, cola, pcE, tE, restan, tBus, sinCiclo>> /\ pcR = "duerme" /\ tR = 0
    BY <1>12 DEF Despierta, auxVars, envioVars
  <2>2. CASE pcE = "vacia"
    <3>1. sinCiclo <= Sueno
      BY <1>2, <2>1 DEF Dormido
    <3>2. Silencio' \in 0 .. 2
      BY DEF Silencio
    <3>3. RestaLV' = Silencio' + TramasLV * Transmision
      BY <2>1, <2>2 DEF RestaLV
    <3>4. CotaLV >= Sueno + 2 + TramasLV * Transmision
      BY TiemposPositivos DEF CotaLV, Respuesta, RespuestaEstado, TramasLV, Mayor
    <3>5. sinCiclo' + RestaLV' <= CotaLV
      <4>1. CotaLV \in Nat /\ TramasLV * Transmision \in Nat /\ Sueno \in Nat
        BY TiemposPositivos DEF CotaLV, Respuesta, RespuestaEstado, TramasLV, Mayor
      <4> HIDE DEF CotaLV
      <4> QED BY <1>2, <2>1, <3>1, <3>2, <3>3, <3>4, <4>1
    <3> QED BY <3>5 DEF PlazoLV
  <2>3. CASE pcE # "vacia"
    <3>1. RestaLV' = RestaLV
      BY <2>1, <2>3 DEF RestaLV, PorEnviar
    <3> QED BY <1>5, <2>1, <3>1
  <2> QED BY <2>2, <2>3
<1>13. CASE RecibeCAN \/ Encola \/ ColaLlena
  <2>1. UNCHANGED <<pcE, tE, restan, tBus>> /\ sinCiclo' \in {0, sinCiclo}
    BY <1>13, ApuntaTipo DEF RecibeCAN, Encola, ColaLlena, auxVars, envioVars
  <2>2. Llegando' = Llegando
    <3>2. CASE RecibeCAN
      <4>1. mano' # Nada /\ rx # <<>>
        BY <3>2, SinElPrimero, NadaNoEsMensaje DEF RecibeCAN, TypeOK, TipoCAN
      <4> QED BY <4>1 DEF Llegando
    <3>3. CASE Encola
      <4>1. mano # Nada /\ cola' # <<>>
        BY <3>3, UnoMas DEF Encola, TypeOK, TipoCAN
      <4> QED BY <4>1 DEF Llegando
    <3>4. CASE ColaLlena
      <4>1. cola # <<>> /\ cola' = cola
        BY <3>4, ColasCaben DEF ColaLlena, TypeOK, TipoCAN
      <4> QED BY <4>1 DEF Llegando
    <3> QED BY <1>13, <3>2, <3>3, <3>4
  <2>3. pcR # "duerme" /\ pcR' # "duerme"
    BY <1>13 DEF RecibeCAN, Encola, ColaLlena
  <2>4. RestaLV' = RestaLV
    BY <2>1, <2>2, <2>3 DEF RestaLV, PorEnviar, Silencio
  <2> QED BY <1>5, <2>1, <2>4
<1>9. CASE Envio
  <2>1. CASE Rige("LV")
    <3>1. CASE sinCiclo' = 0
      BY <1>3, <3>1
    <3>2. CASE sinCiclo' = sinCiclo /\ RestaLV' <= RestaLV
      BY <1>4, <3>2
    <3> QED BY <1>9, <2>1, <3>1, <3>2, EnvioBajoLV
  <2>2. CASE ~Rige("LV")
    <3>1. UNCHANGED <<comunicar, protocolo>>
      BY <1>9, AtiendeUna DEF Envio, MiraConfiguracion, MiraHV, SinPeticion, MiraLV, Vacia, EmpiezaLV,
        MiraNoConfigurado, FinPausa, Transmite, TerminaHV, TerminaLV, Pasa, webVars
    <3>2. sinCiclo' = 0
      BY <2>2, <3>1 DEF Rige, Relojes
    <3> QED BY <1>3, <3>2
  <2> QED BY <2>1, <2>2
<1>10. CASE Tick
  <2>1. CASE Rige("LV")
    <3>1. sinCiclo' = sinCiclo + 1
      BY <1>10, <2>1 DEF Tick
    <3>2. RestaLV' = RestaLV - 1
      BY <1>10, <2>1, TickBajoLV
    <3>3. a = b - 1
      BY <1>0, <3>2
    <3>4. sinCiclo' + a <= c
      BY <1>1, <1>2, <3>1, <3>3
    <3> QED BY <1>0, <3>4
  <2>2. CASE ~Rige("LV")
    BY <1>3, <1>10, <2>2 DEF Tick
  <2> QED BY <2>1, <2>2
<1>11. CASE UNCHANGED vars
  <2>1. UNCHANGED <<rx, pcR, mano, cola, pcE, tE, restan, tBus, sinCiclo>>
    BY <1>11 DEF vars, recibeVars, envioVars, auxVars
  <2>2. RestaLV' = RestaLV
    BY <2>1 DEF RestaLV, PorEnviar, Silencio, Llegando
  <2> QED BY <1>5, <2>1, <2>2
<1> QED BY <1>6, <1>7, <1>8, <1>9, <1>10, <1>11, <1>12, <1>13 DEF Next, Receptor

\* A sleep that began is a tick shorter after every tick, and none begins under
\* a protocol.
LEMMA DormidoPasa ==
  ASSUME TypeOK, Relojes, Dormido, [Next]_vars
  PROVE  Dormido'
<1>1. sinCiclo \in Nat /\ tR \in Nat /\ Sueno \in Nat
  BY TiemposPositivos DEF TypeOK, TipoCAN, TipoEnvio
<1>2. ASSUME pcR' = pcR, tR' = tR, sinCiclo' \in {0, sinCiclo} PROVE Dormido'
  <2>1. pcR = "duerme" => 0 + tR <= Sueno /\ sinCiclo + tR <= Sueno
    BY <1>1 DEF Dormido
  <2>2. CASE sinCiclo' = 0
    BY <1>2, <2>1, <2>2 DEF Dormido
  <2>3. CASE sinCiclo' = sinCiclo
    BY <1>2, <2>1, <2>3 DEF Dormido
  <2> QED BY <1>2, <2>2, <2>3
<1>3. CASE MiraCAN
  <2>1. comunicar => pcR' # "duerme"
    BY <1>3 DEF MiraCAN
  <2>2. ~comunicar => sinCiclo' = 0 /\ tR' = Sueno
    BY <1>3 DEF MiraCAN, Relojes, auxVars
  <2> QED BY <1>1, <2>1, <2>2 DEF Dormido
<1>4. CASE Despierta \/ RecibeCAN \/ Encola \/ ColaLlena
  <2>1. pcR' # "duerme"
    BY <1>4 DEF Despierta, RecibeCAN, Encola, ColaLlena
  <2> QED BY <2>1 DEF Dormido
<1>5. CASE Tick
  <2>1. pcR' = pcR /\ sinCiclo' \in {0, sinCiclo + 1}
    BY <1>5 DEF Tick
  <2>2. pcR = "duerme" => tR' = tR - 1
    BY <1>5 DEF Tick
  <2> QED BY <1>1, <1>5, <2>1, <2>2 DEF Dormido, Tick
<1>6. CASE Web
  BY <1>2, <1>6, ApuntaTipo
    DEF Web, DesactivaCAN, QuitaProtocolo, ActivaCAN, PonProtocolo, PasoWeb, recibeVars
<1>7. CASE Llega
  BY <1>2, <1>7 DEF Llega, recibeVars, auxVars
<1>8. CASE Envio
  <2>1. UNCHANGED <<pcR, tR>>
    BY <1>8, AtiendeUna DEF Envio, MiraConfiguracion, MiraHV, SinPeticion, MiraLV, Vacia, EmpiezaLV,
      MiraNoConfigurado, FinPausa, Transmite, TerminaHV, TerminaLV, Pasa, recibeVars
  <2>2. sinCiclo' \in {0, sinCiclo}
    BY <1>8, AtiendeUna, ApuntaTipo DEF Envio, MiraConfiguracion, MiraHV, SinPeticion, MiraLV, Vacia,
      EmpiezaLV, MiraNoConfigurado, FinPausa, Transmite, TerminaHV, TerminaLV, SinCola, auxVars
  <2> QED BY <1>2, <2>1, <2>2
<1>9. CASE UNCHANGED vars
  BY <1>2, <1>9 DEF vars, recibeVars, auxVars
<1> QED BY <1>3, <1>4, <1>5, <1>6, <1>7, <1>8, <1>9 DEF Next, Receptor
----------------------------------------------------------------------------
\* The bound of the requests under HV, as a sum.
LEMMA CotaHVEs ==
  \E r \in Nat, m \in Nat, c \in Nat :
     /\ Respuesta = r /\ Mayor(Respuesta, CicloLV) = m /\ CotaHV = c
     /\ c = m + (CapCola - 1) * r
<1>1. Respuesta \in Nat /\ Mayor(Respuesta, CicloLV) \in Nat
  BY TiemposPositivos DEF Mayor, CicloLV, Respuesta, RespuestaEstado, TramasLV
<1> DEFINE r == Respuesta
           m == Mayor(Respuesta, CicloLV)
<1>2. CotaHV = m + (CapCola - 1) * r
  BY DEF CotaHV
<1> HIDE DEF r, m
<1>3. r \in Nat /\ m \in Nat
  BY <1>1 DEF r, m
<1>4. (CapCola - 1) * r \in Nat
  BY <1>3, ColasCaben, Z3
<1>5. m + (CapCola - 1) * r \in Nat
  BY <1>3, <1>4
<1> QED BY <1>2, <1>3, <1>5 DEF r, m

\* With a clock that stands at zero a request has all the time of the bound.
LEMMA HVDesdeCero ==
  ASSUME TypeOK', Esperas', edad' = 0
  PROVE  PlazoHV'
<1>1. PICK r \in Nat, m \in Nat, c \in Nat :
        /\ Respuesta = r /\ Mayor(Respuesta, CicloLV) = m /\ CotaHV = c
        /\ c = m + (CapCola - 1) * r
  BY CotaHVEs
<1>2. PICK h \in Nat : RestaHV' = h /\ h <= m
  BY <1>1, RestaCabe
<1>3. ASSUME NEW i \in 1 .. Len(cola') PROVE edad' + RestaHV' + (i - 1) * Respuesta <= CotaHV
  <2>1. i \in Nat /\ i >= 1 /\ i <= CapCola
    BY ColasCaben DEF TypeOK, TipoCAN
  <2>2. (i - 1) * r \in Nat /\ (i - 1) * r <= (CapCola - 1) * r
    BY <1>1, <2>1, Delante
  <2>3. (CapCola - 1) * r \in Nat
    BY <1>1, <2>1, Delante
  <2>4. 0 + h + (i - 1) * r <= c
    BY <1>1, <1>2, <2>2, <2>3
  <2> QED BY <1>1, <1>2, <2>4
<1> QED BY <1>3 DEF PlazoHV

\* As long as the queue stays and no time is lost, the bound holds.
LEMMA HVMasCerca ==
  ASSUME TypeOK, PlazoHV, cola' = cola,
         NEW e \in Nat, NEW h \in Int, NEW f \in Nat, NEW g \in Int,
         edad = e, RestaHV = h, edad' = f, RestaHV' = g, f + g <= e + h
  PROVE  PlazoHV'
<1>1. PICK r \in Nat, m \in Nat, c \in Nat :
        /\ Respuesta = r /\ Mayor(Respuesta, CicloLV) = m /\ CotaHV = c
        /\ c = m + (CapCola - 1) * r
  BY CotaHVEs
<1>2. ASSUME NEW i \in 1 .. Len(cola'), cola'[i].seguido
      PROVE  edad' + RestaHV' + (i - 1) * Respuesta <= CotaHV
  <2>1. i \in Nat /\ i >= 1 /\ i \in 1 .. Len(cola) /\ cola[i].seguido
    BY <1>2 DEF TypeOK, TipoCAN
  <2>2. e + h + (i - 1) * r <= c
    BY <1>1, <2>1 DEF PlazoHV
  <2>3. (i - 1) * r \in Nat
    BY <1>1, <2>1, Delante
  <2> DEFINE x == (i - 1) * r
  <2> HIDE DEF x
  <2>4. e + h + x <= c /\ x \in Nat
    BY <2>2, <2>3 DEF x
  <2>5. f + g + x <= c
    BY <2>4
  <2>6. f + g + (i - 1) * r <= c
    BY <2>5 DEF x
  <2> QED BY <1>1, <2>6
<1> QED BY <1>2 DEF PlazoHV

\* When the sender takes one from the queue, those behind it come nearer by
\* the time of an answer.
LEMMA HVUnoMenos ==
  ASSUME TypeOK, PlazoHV, cola # <<>>, cola' = Tail(cola),
         NEW e \in Nat, NEW g \in Nat, NEW f \in Nat,
         edad = e, RestaHV = 0, RestaHV' = g, edad' = f, f <= e, g <= Respuesta
  PROVE  PlazoHV'
<1>1. PICK r \in Nat, m \in Nat, c \in Nat :
        /\ Respuesta = r /\ Mayor(Respuesta, CicloLV) = m /\ CotaHV = c
        /\ c = m + (CapCola - 1) * r
  BY CotaHVEs
<1>2. ASSUME NEW i \in 1 .. Len(cola'), cola'[i].seguido
      PROVE  edad' + RestaHV' + (i - 1) * Respuesta <= CotaHV
  <2>1. i \in Nat /\ i >= 1 /\ i + 1 \in 1 .. Len(cola) /\ cola[i + 1].seguido
    BY <1>2, SinElPrimero DEF TypeOK, TipoCAN
  <2>2. e + 0 + (i + 1 - 1) * r <= c
    BY <1>1, <2>1 DEF PlazoHV
  <2>3. (i - 1) * r \in Nat /\ (i + 1 - 1) * r = (i - 1) * r + r
    BY <1>1, <2>1, Delante
  <2> DEFINE x == (i - 1) * r
  <2> HIDE DEF x
  <2>4. e + (x + r) <= c /\ x \in Nat
    BY <2>2, <2>3 DEF x
  <2>5. g <= r
    BY <1>1
  <2>6. f + g + x <= c
    BY <2>4, <2>5
  <2>7. f + g + (i - 1) * r <= c
    BY <2>6 DEF x
  <2> QED BY <1>1, <2>7
<1> QED BY <1>2 DEF PlazoHV

\* A step of the sender under HV brings the answer no further away.
LEMMA EnvioBajoHV ==
  ASSUME TypeOK, Esperas, TypeOK', Esperas', PlazoHV, Rige("HV"), Envio
  PROVE  PlazoHV'
<1> USE DEF TypeOK, TipoEnvio
<1>1. PICK e \in Nat : edad = e
  OBVIOUS
<1>2. PICK t \in Nat : tE = t
  OBVIOUS
<1>3. Transmision \in Nat /\ Pausa \in Nat
  BY TiemposPositivos
<1>4. ASSUME cola' = cola, edad' = edad, NEW h \in Nat, RestaHV = h, RestaHV' = 0
      PROVE  PlazoHV'
  BY <1>1, <1>4, HVMasCerca
<1>5. CASE MiraConfiguracion \/ MiraHV \/ SinPeticion \/ MiraLV \/ MiraNoConfigurado
  <2>1. cola' = cola /\ edad' = edad /\ RestaHV = 0 /\ RestaHV' = 0
    BY <1>5 DEF MiraConfiguracion, MiraHV, SinPeticion, MiraLV, MiraNoConfigurado, Pasa, SinCola,
      auxVars, RestaHV, Rige
  <2> QED BY <1>4, <2>1
<1>6. CASE FinPausa
  <2>1. cola' = cola /\ edad' = edad /\ RestaHV = t /\ RestaHV' = 0
    BY <1>2, <1>6 DEF FinPausa, Pasa, SinCola, auxVars, RestaHV
  <2> QED BY <1>4, <2>1
<1>7. CASE EmpiezaLV
  <2>1. cola' = <<>>
    BY <1>7 DEF EmpiezaLV
  <2>2. Len(cola') = 0
    BY <2>1
  <2> QED BY <2>2 DEF PlazoHV
<1>8. CASE TerminaHV
  <2>1. cola' = cola /\ edad' = edad /\ RestaHV = PorEnviar /\ RestaHV' = 0
    BY <1>8 DEF TerminaHV, Pasa, auxVars, RestaHV
  <2>2. PorEnviar = t
    BY <1>2, <1>3, <1>8 DEF TerminaHV, PorEnviar
  <2>3. RestaHV = t
    BY <2>1, <2>2
  <2> QED BY <1>4, <2>1, <2>3
<1>9. CASE TerminaLV
  <2>1. cola' = cola /\ edad' = edad /\ RestaHV = PorEnviar + Pausa /\ RestaHV' \in {0, Pausa}
    BY <1>9 DEF TerminaLV, Pasa, RestaHV
  <2>2. PorEnviar = t
    BY <1>2, <1>3, <1>9 DEF TerminaLV, PorEnviar
  <2>3. RestaHV = t + Pausa
    BY <2>1, <2>2
  <2>4. CASE RestaHV' = 0
    BY <1>3, <1>4, <2>1, <2>3, <2>4
  <2>5. CASE RestaHV' = Pausa
    <3>1. t + Pausa \in Nat /\ e + Pausa <= e + (t + Pausa)
      BY <1>3
    <3>2. edad' = e
      BY <1>1, <2>1
    <3> QED BY <1>1, <1>3, <2>1, <2>3, <2>5, <3>1, <3>2, HVMasCerca
  <2> QED BY <2>1, <2>4, <2>5
<1>10. CASE Transmite
  <2> DEFINE p == (restan - 1) * Transmision
  <2>1. restan \in 1 .. 10 /\ restan > 1 /\ tE \in 0 .. Transmision
    BY <1>3, <1>10 DEF Transmite, Esperas, RespuestaEstado
  <2>2. p \in Nat /\ Transmision + (restan - 1 - 1) * Transmision = p
    BY <2>1, Ocupacion
  <2>3. PorEnviar' = p /\ PorEnviar = t + p
    BY <1>2, <1>10, <2>2 DEF Transmite, PorEnviar
  <2>4. cola' = cola /\ edad' = edad /\ pcE' = pcE /\ pcE \in {"responde", "envia"}
    BY <1>10 DEF Transmite, auxVars
  <2> HIDE DEF p
  <2>5. edad' = e
    BY <1>1, <2>4
  <2>6. CASE pcE = "responde"
    <3>1. RestaHV = t + p /\ RestaHV' = p
      BY <2>3, <2>4, <2>6 DEF RestaHV
    <3>2. t + p \in Nat /\ e + p <= e + (t + p)
      BY <2>2
    <3> QED BY <1>1, <2>2, <2>4, <2>5, <3>1, <3>2, HVMasCerca
  <2>7. CASE pcE = "envia"
    <3>1. RestaHV = t + p + Pausa /\ RestaHV' = p + Pausa
      BY <2>3, <2>4, <2>7 DEF RestaHV
    <3>2. /\ t + p + Pausa \in Nat /\ p + Pausa \in Nat
          /\ e + (p + Pausa) <= e + (t + p + Pausa)
      BY <1>3, <2>2
    <3> QED BY <1>1, <2>4, <2>5, <3>1, <3>2, HVMasCerca
  <2> QED BY <2>4, <2>6, <2>7
<1>11. ASSUME Apunta PROVE \E f \in Nat : edad' = f /\ f <= e
  <2>1. edad' = 0 \/ edad' = e
    BY <1>1, <1>11, ApuntaTipo
  <2> QED BY <2>1
<1>12. CASE Atiende
  <2>1. cola # <<>> /\ cola' = Tail(cola) /\ RestaHV = 0
    BY <1>12, AtiendeUna DEF RestaHV
  <2>2. PICK f \in Nat : edad' = f /\ f <= e
    BY <1>11, <1>12, AtiendeUna
  <2>3. PICK g \in Nat : RestaHV' = g /\ g <= Respuesta
    <3>1. CASE pcE' = "responde" /\ tE' = Transmision /\ restan' \in {RespuestaEstado, RespuestaInfo}
      <4> DEFINE q == Transmision + (restan' - 1) * Transmision
      <4>1. restan' \in 1 .. 10 /\ Transmision \in 0 .. Transmision
        BY <1>3, <3>1 DEF RespuestaEstado, RespuestaInfo
      <4>2. q \in Nat /\ q <= 10 * Transmision
        BY <4>1, Ocupacion
      <4>3. RestaHV' = q
        BY <3>1 DEF RestaHV, PorEnviar
      <4> HIDE DEF q
      <4>4. Respuesta = 10 * Transmision
        BY DEF Respuesta, RespuestaEstado
      <4> QED BY <4>2, <4>3, <4>4
    <3>2. CASE pcE' \in {"vuelta", "lv"} /\ tE' = 0 /\ restan' = 0
      <4>1. RestaHV' = 0 /\ 0 <= Respuesta
        BY <1>3, <3>2 DEF RestaHV, Respuesta, RespuestaEstado
      <4> QED BY <4>1
    <3> QED BY <1>12, <3>1, <3>2, AtiendeUna
  <2> QED BY <1>1, <2>1, <2>2, <2>3, HVUnoMenos
<1>13. CASE Vacia
  <2>1. cola # <<>> /\ cola' = Tail(cola) /\ RestaHV = 0 /\ RestaHV' = 0
    BY <1>13 DEF Vacia, Pasa, RestaHV
  <2>2. PICK f \in Nat : edad' = f /\ f <= e
    BY <1>11, <1>13 DEF Vacia
  <2>3. 0 <= Respuesta
    BY <1>3 DEF Respuesta, RespuestaEstado
  <2> QED BY <1>1, <2>1, <2>2, <2>3, HVUnoMenos
<1> QED BY <1>5, <1>6, <1>7, <1>8, <1>9, <1>10, <1>12, <1>13 DEF Envio

\* The answers of HV come in time after any step.
LEMMA PlazoHVPasa ==
  ASSUME TypeOK, Esperas, TypeOK', Esperas', Relojes, Relojes', UnoSeguido, PlazoHV, [Next]_vars
  PROVE  PlazoHV'
<1>1. PICK e \in Nat : edad = e
  BY DEF TypeOK, TipoEnvio
<1>2. PICK h \in Int : RestaHV = h
  <2>1. RestaHV \in Int
    BY TiemposPositivos DEF RestaHV, PorEnviar, TypeOK, TipoEnvio
  <2> QED BY <2>1
<1>3. CASE edad' = 0
  BY <1>3, HVDesdeCero
<1>4. CASE UNCHANGED <<cola, pcE, tE, restan, edad>>
  <2>1. RestaHV' = RestaHV
    BY <1>4 DEF RestaHV, PorEnviar
  <2>2. edad' = e /\ RestaHV' = h
    BY <1>1, <1>2, <1>4, <2>1
  <2> QED BY <1>1, <1>2, <1>4, <2>2, HVMasCerca
<1>5. CASE Web
  <2>1. UNCHANGED <<cola, pcE, tE, restan>> /\ edad' \in {0, edad}
    BY <1>5, ApuntaTipo DEF Web, DesactivaCAN, QuitaProtocolo, ActivaCAN, PonProtocolo, PasoWeb, envioVars
  <2> QED BY <1>3, <1>4, <2>1
<1>6. CASE Llega \/ MiraCAN \/ Despierta \/ RecibeCAN \/ ColaLlena
  BY <1>4, <1>6 DEF Llega, MiraCAN, Despierta, RecibeCAN, ColaLlena, envioVars, auxVars
<1>7. CASE Encola
  <2>1. mano \in Mensaje /\ cola' = Append(cola, mano) /\ edad' \in {0, edad}
    BY <1>7, ApuntaTipo DEF Encola, TypeOK, TipoCAN
  <2>2. CASE mano.seguido
    <3>1. ~EnCola
      BY <1>7, <2>2 DEF UnoSeguido, Encola, TypeOK, TipoCAN
    <3>2. edad = 0
      BY <3>1 DEF Relojes
    <3> QED BY <1>3, <2>1, <3>2
  <2>3. CASE ~mano.seguido /\ edad' = edad
    <3>1. RestaHV' = RestaHV
      BY <1>7 DEF Encola, envioVars, RestaHV, PorEnviar
    <3>2. ASSUME NEW i \in 1 .. Len(cola'), cola'[i].seguido
          PROVE  i \in 1 .. Len(cola) /\ cola[i].seguido
      <4>1. i \in 1 .. Len(cola) \/ i = Len(cola) + 1
        BY <2>1, UnoMas DEF TypeOK, TipoCAN
      <4>2. i # Len(cola) + 1
        BY <2>1, <2>3, <3>2, UnoMas DEF TypeOK, TipoCAN
      <4> QED BY <2>1, <3>2, <4>1, <4>2, UnoMas DEF TypeOK, TipoCAN
    <3>3. \A i \in 1 .. Len(cola') : cola'[i].seguido =>
            edad' + RestaHV' + (i - 1) * Respuesta <= CotaHV
      BY <2>3, <3>1, <3>2 DEF PlazoHV
    <3> QED BY <3>3 DEF PlazoHV
  <2> QED BY <1>3, <2>1, <2>2, <2>3
<1>8. CASE Envio
  <2>1. CASE Rige("HV")
    BY <1>8, <2>1, EnvioBajoHV
  <2>2. CASE ~Rige("HV")
    <3>1. UNCHANGED <<comunicar, protocolo>>
      BY <1>8, AtiendeUna DEF Envio, MiraConfiguracion, MiraHV, SinPeticion, MiraLV, Vacia, EmpiezaLV,
        MiraNoConfigurado, FinPausa, Transmite, TerminaHV, TerminaLV, Pasa, webVars
    <3>2. edad' = 0
      BY <2>2, <3>1 DEF Rige, Relojes
    <3> QED BY <1>3, <3>2
  <2> QED BY <2>1, <2>2
<1>9. CASE Tick
  <2>1. CASE Rige("HV") /\ EnCola
    <3>1. edad' = e + 1 /\ cola' = cola /\ pcE' = pcE /\ restan' = restan /\ tE' = tE - 1
      BY <1>1, <1>9, <2>1 DEF Tick
    <3>2. cola # <<>>
      BY <2>1 DEF EnCola
    <3>3. pcE \in {"pausa", "responde", "envia"}
      BY <1>9, <3>2 DEF Tick
    <3>4. PICK t \in Nat : tE = t
      BY DEF TypeOK, TipoEnvio
    <3>5. PICK p \in Int : (restan - 1) * Transmision = p
      <4>1. (restan - 1) * Transmision \in Int
        BY TiemposPositivos DEF TypeOK, TipoEnvio
      <4> QED BY <4>1
    <3>6. PorEnviar = t + p /\ PorEnviar' = t - 1 + p
      BY <3>1, <3>4, <3>5 DEF PorEnviar
    <3>7. RestaHV' = h - 1
      <4>1. CASE pcE = "pausa"
        <5>1. RestaHV = t /\ RestaHV' = t - 1
          BY <3>1, <3>4, <4>1 DEF RestaHV
        <5> QED BY <1>2, <5>1
      <4>2. CASE pcE = "responde"
        <5>1. RestaHV = t + p /\ RestaHV' = t - 1 + p
          BY <3>1, <3>6, <4>2 DEF RestaHV
        <5>2. h = t + p
          BY <1>2, <5>1
        <5>3. h - 1 = t - 1 + p
          BY <5>2
        <5> QED BY <5>1, <5>3
      <4>3. CASE pcE = "envia"
        <5>1. RestaHV = t + p + Pausa /\ RestaHV' = t - 1 + p + Pausa
          BY <3>1, <3>6, <4>3 DEF RestaHV
        <5>2. h = t + p + Pausa
          BY <1>2, <5>1
        <5>3. h - 1 = t - 1 + p + Pausa
          BY <5>2, TiemposPositivos
        <5> QED BY <5>1, <5>3
      <4> QED BY <3>3, <4>1, <4>2, <4>3
    <3>8. e + 1 \in Nat /\ h - 1 \in Int /\ e + 1 + (h - 1) <= e + h
      OBVIOUS
    <3> QED BY <1>1, <1>2, <3>1, <3>7, <3>8, HVMasCerca
  <2>2. CASE ~(Rige("HV") /\ EnCola)
    BY <1>3, <1>9, <2>2 DEF Tick
  <2> QED BY <2>1, <2>2
<1>10. CASE UNCHANGED vars
  BY <1>4, <1>10 DEF vars, envioVars, auxVars
<1> QED BY <1>5, <1>6, <1>7, <1>8, <1>9, <1>10 DEF Next, Receptor
----------------------------------------------------------------------------
\* What holds in every state, and what it rests on.
Inv == TypeOK /\ Esperas /\ Relojes /\ UnoSeguido /\ Dormido /\ PlazoLV /\ PlazoHV

\* The promise of LV, in every state.
LEMMA CicloDeInv ==
  ASSUME TypeOK, Esperas, PlazoLV
  PROVE  CicloAcotado
<1>1. PICK n \in Nat : sinCiclo = n
  BY DEF TypeOK, TipoEnvio
<1>2. PICK c \in Nat : CotaLV = c
  <2>1. CotaLV \in Nat
    BY TiemposPositivos DEF CotaLV, Respuesta, RespuestaEstado, TramasLV, Mayor
  <2> QED BY <2>1
<1>3. PICK r \in Nat : RestaLV = r
  <2>1. Silencio \in 0 .. 2
    BY DEF Silencio
  <2>2. RestaLV \in Int
    BY <2>1, TiemposPositivos
      DEF RestaLV, PorEnviar, TypeOK, TipoEnvio, TramasLV, Respuesta, RespuestaEstado
  <2>3. RestaLV >= 0
    BY <2>1, TiemposPositivos
      DEF RestaLV, PorEnviar, TypeOK, TipoEnvio, TramasLV, Respuesta, RespuestaEstado
  <2> QED BY <2>2, <2>3
<1>4. n + r <= c
  BY <1>1, <1>2, <1>3 DEF PlazoLV
<1>5. n <= c
  BY <1>4
<1> QED BY <1>1, <1>2, <1>5 DEF CicloAcotado

\* The promise of HV, in every state.
LEMMA RespuestaDeInv ==
  ASSUME TypeOK, Esperas, Relojes, PlazoHV
  PROVE  RespuestaAcotada
<1>1. PICK e \in Nat : edad = e
  BY DEF TypeOK, TipoEnvio
<1>2. PICK r \in Nat, m \in Nat, c \in Nat :
        /\ Respuesta = r /\ Mayor(Respuesta, CicloLV) = m /\ CotaHV = c
        /\ c = m + (CapCola - 1) * r
  BY CotaHVEs
<1>3. PICK h \in Nat : RestaHV = h
  <2>1. RestaHV \in Int /\ RestaHV >= 0
    BY TiemposPositivos DEF RestaHV, PorEnviar, TypeOK, TipoEnvio
  <2> QED BY <2>1
<1>4. CASE EnCola
  <2>1. PICK i \in 1 .. Len(cola) : cola[i].seguido
    BY <1>4 DEF EnCola
  <2>2. i \in Nat /\ i >= 1
    BY DEF TypeOK, TipoCAN
  <2>3. e + h + (i - 1) * r <= c
    BY <1>1, <1>2, <1>3, <2>1 DEF PlazoHV
  <2> DEFINE x == (i - 1) * r
  <2>4. x \in Nat
    BY <1>2, <2>2, Delante
  <2> HIDE DEF x
  <2>5. e + h + x <= c
    BY <2>3 DEF x
  <2>6. e <= c
    BY <2>4, <2>5
  <2> QED BY <1>1, <1>2, <2>6 DEF RespuestaAcotada
<1>5. CASE ~EnCola
  <2>1. edad = 0
    BY <1>5 DEF Relojes
  <2> QED BY <1>2, <2>1 DEF RespuestaAcotada
<1> QED BY <1>4, <1>5

\* At power on nothing is queued, and the sender is about to look.
LEMMA InvAlPrincipio ==
  ASSUME Init, TypeOK, Esperas
  PROVE  Relojes /\ UnoSeguido /\ Dormido /\ PlazoLV /\ PlazoHV
<1>1. Relojes
  BY DEF Init, Relojes
<1>2. rx = <<>> /\ cola = <<>> /\ mano = Nada
  BY DEF Init
<1>3. UnoSeguido
  BY <1>2 DEF UnoSeguido
<1>4. PlazoLV
  <2>1. pcE = "vuelta" /\ sinCiclo = 0
    BY DEF Init
  <2>2. RestaLV = 2 + TramasLV * Transmision
    BY <2>1 DEF RestaLV
  <2> QED BY <2>1, <2>2, TiemposPositivos
        DEF PlazoLV, CotaLV, Respuesta, RespuestaEstado, TramasLV, Mayor
<1>5. PlazoHV
  BY <1>2 DEF PlazoHV
<1>6. Dormido
  BY DEF Init, Dormido
<1> QED BY <1>1, <1>3, <1>4, <1>5, <1>6

\* For queues of any size and any times of the bus and of the pause: under HV a
\* request in the queue is taken within CotaHV ticks, and under LV the frames
\* are tried again within CotaLV, whatever the bus brings, however many frames
\* are lost, and whenever and however often the page changes the settings.
THEOREM EsperasAcotadas == Spec => []RespuestaAcotada /\ []CicloAcotado
<1>1. Init => Inv
  <2>1. Init => TypeOK /\ Esperas
    BY TipoAlPrincipio
  <2> QED BY <2>1, InvAlPrincipio DEF Inv
<1>2. Inv /\ [Next]_vars => Inv'
  <2> SUFFICES ASSUME Inv, [Next]_vars PROVE Inv'
    OBVIOUS
  <2>1. TypeOK /\ Esperas /\ Relojes /\ UnoSeguido /\ Dormido /\ PlazoLV /\ PlazoHV
    BY DEF Inv
  <2>2. TypeOK' /\ Esperas'
    BY <2>1, TipoPasaCAN, TipoPasaEnvio DEF TypeOK
  <2>3. Relojes' /\ UnoSeguido' /\ Dormido'
    BY <2>1, RelojesPasan, UnoSeguidoPasa, DormidoPasa
  <2>4. PlazoLV'
    BY <2>1, <2>2, <2>3, PlazoLVPasa
  <2>5. PlazoHV'
    BY <2>1, <2>2, <2>3, PlazoHVPasa
  <2> QED BY <2>2, <2>3, <2>4, <2>5 DEF Inv
<1>3. Inv => RespuestaAcotada /\ CicloAcotado
  BY RespuestaDeInv, CicloDeInv DEF Inv
<1> QED BY <1>1, <1>2, <1>3, PTL DEF Spec
=============================================================================
