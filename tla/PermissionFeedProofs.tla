------------------------ MODULE PermissionFeedProofs ------------------------
(***************************************************************************)
(* Proofs about the feed of the permissions, for every capacity of the     *)
(* transmit queue and any number of restarts.                              *)
(***************************************************************************)
EXTENDS PermissionFeed, Integers, TLAPS

USE DEF Sentidos

\* The frame that leaves the queue is one of those that were put into it.
LEMMA Cabeza ==
  ASSUME NEW S, NEW s \in Seq(S), s # <<>>
  PROVE  /\ Head(s) = s[1] /\ Head(s) \in S
         /\ Tail(s) \in Seq(S) /\ Len(Tail(s)) = Len(s) - 1 /\ Len(s) \in Nat \ {0}
         /\ \A i \in 1 .. Len(Tail(s)) : Tail(s)[i] = s[i + 1]
OBVIOUS

\* The frame that enters it is the last.
LEMMA Final ==
  ASSUME NEW S, NEW s \in Seq(S), NEW x \in S
  PROVE  /\ Append(s, x) \in Seq(S) /\ Len(Append(s, x)) = Len(s) + 1 /\ Len(s) \in Nat
         /\ \A i \in 1 .. Len(s) : Append(s, x)[i] = s[i]
         /\ Append(s, x)[Len(s) + 1] = x
OBVIOUS

\* The variables keep their types, whatever the tasks do.
THEOREM TipoCorrecto == Spec => []TypeOK
<1>. USE DEF Observa, Olvida, parserVars, senderVars, aux, cuenta
<1>1. Init => TypeOK
  <2>1. Init => TipoBanderas
    BY DEF Init, TipoBanderas
  <2>2. Init => TipoPermisos
    BY DEF Init, TipoPermisos
  <2>3. Init => TipoTareas
    BY ReiniciosAcotados DEF Init, TipoTareas
  <2>4. Init => TipoCola
    BY CapTxEsNatural DEF Init, TipoCola
  <2>. QED  BY <2>1, <2>2, <2>3, <2>4 DEF TypeOK
<1>2. ASSUME TypeOK, [Next]_vars PROVE TypeOK'
  <2>. USE <1>2 DEF TypeOK
  <2>1. CASE CambiaBms
    <3>1. TipoBanderas'
      BY <2>1 DEF CambiaBms, TipoBanderas
    <3>2. TipoPermisos'
      BY <2>1 DEF CambiaBms, TipoPermisos
    <3>3. TipoTareas'
      BY <2>1 DEF CambiaBms, TipoTareas
    <3>4. TipoCola'
      BY <2>1 DEF CambiaBms, TipoCola
    <3>. QED  BY <3>1, <3>2, <3>3, <3>4
  <2>2. CASE Recibe
    <3>1. TipoBanderas'
      BY <2>2 DEF Recibe, TipoBanderas
    <3>2. TipoPermisos'
      BY <2>2 DEF Recibe, TipoPermisos
    <3>3. TipoTareas'
      BY <2>2 DEF Recibe, TipoTareas
    <3>4. TipoCola'
      BY <2>2 DEF Recibe, TipoCola
    <3>. QED  BY <3>1, <3>2, <3>3, <3>4
  <2>3. CASE EvaluaDescarga
    <3>1. TipoBanderas'
      BY <2>3 DEF EvaluaDescarga, EvaluaPaso, TipoBanderas
    <3>2. TipoPermisos'
      BY <2>3 DEF EvaluaDescarga, EvaluaPaso, TipoPermisos
    <3>3. TipoTareas'
      BY <2>3 DEF EvaluaDescarga, EvaluaPaso, TipoTareas
    <3>4. TipoCola'
      BY <2>3 DEF EvaluaDescarga, EvaluaPaso, TipoCola
    <3>. QED  BY <3>1, <3>2, <3>3, <3>4
  <2>4. CASE EvaluaCarga
    <3>1. TipoBanderas'
      BY <2>4 DEF EvaluaCarga, EvaluaPaso, TipoBanderas
    <3>2. TipoPermisos'
      BY <2>4 DEF EvaluaCarga, EvaluaPaso, TipoPermisos
    <3>3. TipoTareas'
      BY <2>4 DEF EvaluaCarga, EvaluaPaso, TipoTareas
    <3>4. TipoCola'
      BY <2>4 DEF EvaluaCarga, EvaluaPaso, TipoCola
    <3>. QED  BY <3>1, <3>2, <3>3, <3>4
  <2>5. CASE FinTrama
    <3>1. TipoBanderas'
      BY <2>5 DEF FinTrama, TipoBanderas
    <3>2. TipoPermisos'
      BY <2>5 DEF FinTrama, TipoPermisos
    <3>3. TipoTareas'
      BY <2>5 DEF FinTrama, TipoTareas
    <3>4. TipoCola'
      BY <2>5 DEF FinTrama, TipoCola
    <3>. QED  BY <3>1, <3>2, <3>3, <3>4
  <2>6. CASE EsperaVacia
    <3>1. TipoBanderas'
      BY <2>6 DEF EsperaVacia, TipoBanderas
    <3>2. TipoPermisos'
      BY <2>6 DEF EsperaVacia, TipoPermisos
    <3>3. TipoTareas'
      BY <2>6 DEF EsperaVacia, TipoTareas
    <3>4. TipoCola'
      BY <2>6 DEF EsperaVacia, TipoCola
    <3>. QED  BY <3>1, <3>2, <3>3, <3>4
  <2>7. CASE InicialCarga
    <3>1. TipoBanderas'
      BY <2>7 DEF InicialCarga, TipoBanderas
    <3>2. TipoPermisos'
      BY <2>7 DEF InicialCarga, TipoPermisos
    <3>3. TipoTareas'
      BY <2>7 DEF InicialCarga, TipoTareas
    <3>4. TipoCola'
      BY <2>7 DEF InicialCarga, TipoCola
    <3>. QED  BY <3>1, <3>2, <3>3, <3>4
  <2>8. CASE InicialDescarga
    <3>1. TipoBanderas'
      BY <2>8 DEF InicialDescarga, TipoBanderas
    <3>2. TipoPermisos'
      BY <2>8 DEF InicialDescarga, TipoPermisos
    <3>3. TipoTareas'
      BY <2>8 DEF InicialDescarga, TipoTareas
    <3>4. TipoCola'
      BY <2>8 DEF InicialDescarga, TipoCola
    <3>. QED  BY <3>1, <3>2, <3>3, <3>4
  <2>9. CASE InicialError
    <3>1. TipoBanderas'
      BY <2>9 DEF InicialError, TipoBanderas
    <3>2. TipoPermisos'
      BY <2>9 DEF InicialError, TipoPermisos
    <3>3. TipoTareas'
      BY <2>9 DEF InicialError, TipoTareas
    <3>4. TipoCola'
      BY <2>9 DEF InicialError, TipoCola
    <3>. QED  BY <3>1, <3>2, <3>3, <3>4
  <2>10. CASE Reinicio
    <3>1. TipoBanderas'
      BY <2>10 DEF Reinicio, TipoBanderas
    <3>2. TipoPermisos'
      BY <2>10 DEF Reinicio, TipoPermisos
    <3>3. TipoTareas'
      BY <2>10, ReiniciosAcotados DEF Reinicio, TipoTareas
    <3>4. TipoCola'
      BY <2>10, CapTxEsNatural DEF Reinicio, TipoCola
    <3>. QED  BY <3>1, <3>2, <3>3, <3>4
  <2>11. CASE Empieza
    <3>1. TipoBanderas'
      BY <2>11 DEF Empieza, TipoBanderas
    <3>2. TipoPermisos'
      BY <2>11 DEF Empieza, TipoPermisos
    <3>3. TipoTareas'
      BY <2>11 DEF Empieza, TipoTareas
    <3>4. TipoCola'
      BY <2>11 DEF Empieza, TipoCola
    <3>. QED  BY <3>1, <3>2, <3>3, <3>4
  <2>12. CASE LeeCarga
    <3>1. TipoBanderas'
      BY <2>12 DEF LeeCarga, LeePaso, TipoBanderas
    <3>2. TipoPermisos'
      BY <2>12 DEF LeeCarga, LeePaso, TipoPermisos
    <3>3. TipoTareas'
      BY <2>12 DEF LeeCarga, LeePaso, TipoTareas
    <3>4. TipoCola'
      BY <2>12 DEF LeeCarga, LeePaso, TipoCola
    <3>. QED  BY <3>1, <3>2, <3>3, <3>4
  <2>13. CASE LeeDescarga
    <3>1. TipoBanderas'
      BY <2>13 DEF LeeDescarga, LeePaso, TipoBanderas
    <3>2. TipoPermisos'
      BY <2>13 DEF LeeDescarga, LeePaso, TipoPermisos
    <3>3. TipoTareas'
      BY <2>13 DEF LeeDescarga, LeePaso, TipoTareas
    <3>4. TipoCola'
      BY <2>13 DEF LeeDescarga, LeePaso, TipoCola
    <3>. QED  BY <3>1, <3>2, <3>3, <3>4
  <2>14. CASE LeeError
    <3>1. TipoBanderas'
      BY <2>14 DEF LeeError, TipoBanderas
    <3>2. TipoPermisos'
      BY <2>14 DEF LeeError, TipoPermisos
    <3>3. TipoTareas'
      BY <2>14 DEF LeeError, TipoTareas
    <3>4. TipoCola'
      BY <2>14 DEF LeeError, TipoCola
    <3>. QED  BY <3>1, <3>2, <3>3, <3>4
  <2>15. CASE Envia
    <3>1. TipoBanderas'
      BY <2>15 DEF Envia, TipoBanderas
    <3>2. TipoPermisos'
      BY <2>15 DEF Envia, TipoPermisos
    <3>3. TipoTareas'
      BY <2>15 DEF Envia, TipoTareas
    <3>4. TipoCola'
      <4>1. cola' \in Seq(SUBSET Sentidos) /\ Len(cola') = Len(cola) + 1 /\ Len(cola) \in Nat
        BY <2>15, Final DEF Envia, TipoCola, TipoPermisos
      <4>. QED  BY <2>15, <4>1, CapTxEsNatural DEF Envia, TipoCola
    <3>. QED  BY <3>1, <3>2, <3>3, <3>4
  <2>16. CASE Pierde
    <3>1. TipoBanderas'
      BY <2>16 DEF Pierde, TipoBanderas
    <3>2. TipoPermisos'
      BY <2>16 DEF Pierde, TipoPermisos
    <3>3. TipoTareas'
      BY <2>16 DEF Pierde, TipoTareas
    <3>4. TipoCola'
      BY <2>16 DEF Pierde, TipoCola
    <3>. QED  BY <3>1, <3>2, <3>3, <3>4
  <2>17. CASE Entrega
    <3>1. TipoBanderas'
      BY <2>17 DEF Entrega, TipoBanderas
    <3>2. TipoPermisos'
      <4>1. Head(cola) \in SUBSET Sentidos
        BY <2>17, Cabeza DEF Entrega, TipoCola
      <4>. QED  BY <2>17, <4>1 DEF Entrega, TipoPermisos
    <3>3. TipoTareas'
      BY <2>17 DEF Entrega, TipoTareas
    <3>4. TipoCola'
      <4>1. /\ cola' \in Seq(SUBSET Sentidos) /\ Len(cola') = Len(cola) - 1
            /\ Len(cola) \in Nat \ {0}
        BY <2>17, Cabeza DEF Entrega, TipoCola
      <4>2. nuevas' \in 0 .. Len(cola')
        <5>1. /\ nuevas \in 0 .. Len(cola)
              /\ \/ nuevas = Len(cola) /\ nuevas' = nuevas - 1
                 \/ nuevas # Len(cola) /\ nuevas' = nuevas
          BY <2>17 DEF Entrega, TipoCola
        <5>. QED  BY <4>1, <5>1
      <4>3. tardias' \in Nat
        BY <2>17 DEF Entrega, TipoCola
      <4>4. Len(cola') <= CapTx
        BY <4>1, CapTxEsNatural DEF TipoCola
      <4>. QED  BY <4>1, <4>2, <4>3, <4>4 DEF TipoCola
    <3>. QED  BY <3>1, <3>2, <3>3, <3>4
  <2>18. CASE UNCHANGED vars
    <3>1. TipoBanderas'
      BY <2>18 DEF vars, TipoBanderas
    <3>2. TipoPermisos'
      BY <2>18 DEF vars, TipoPermisos
    <3>3. TipoTareas'
      BY <2>18 DEF vars, TipoTareas
    <3>4. TipoCola'
      BY <2>18 DEF vars, TipoCola
    <3>. QED  BY <3>1, <3>2, <3>3, <3>4
  <2>. QED
    BY <2>1, <2>2, <2>3, <2>4, <2>5, <2>6, <2>7, <2>8, <2>9, <2>10,
       <2>11, <2>12, <2>13, <2>14, <2>15, <2>16, <2>17, <2>18
       DEF Next, Parser, Inicial, Sender
<1>. QED  BY <1>1, <1>2, PTL DEF Spec

----------------------------------------------------------------------------
\* A frame begun under an error that is still up allows nothing; once one is
\* in the queue, so is what is being built; once one arrived, the queue has
\* no other kind.
MarcaInv ==
  /\ pcS = "listo" => ~enError
  /\ enError => error /\ (pcS = "envia" => trama = {})
  /\ nuevas # 0 => error /\ (pcS = "listo" \/ enError)
  /\ (avisado /\ error) => nuevas = Len(cola) /\ (pcS = "listo" \/ enError)
  /\ Parado

\* The frames of that kind are the last ones of the queue.
ColaInv == \A i \in 1 .. Len(cola) : i > Len(cola) - nuevas => cola[i] = {}

AvisoInv == MarcaInv /\ ColaInv

\* The kind of the frames in the queue only changes with the queue, or when
\* the error is cleared and none counts any more.
LEMMA ColaQuieta ==
  ASSUME TypeOK, ColaInv, cola' = cola, nuevas' = nuevas \/ nuevas' = 0
  PROVE  ColaInv'
<1>1. CASE nuevas' = nuevas
  BY <1>1 DEF ColaInv
<1>2. CASE nuevas' = 0
  <2>1. Len(cola) \in Nat
    BY DEF TypeOK, TipoCola
  <2>. QED  BY <1>2, <2>1 DEF ColaInv
<1>. QED  BY <1>1, <1>2

\* Whatever the step, the newest frames of the queue go on allowing nothing.
LEMMA ColaConserva ==
  ASSUME TypeOK, MarcaInv, ColaInv, [Next]_vars
  PROVE  ColaInv'
<1>1. CASE Envia
  <2>1. trama \in SUBSET Sentidos /\ cola \in Seq(SUBSET Sentidos)
        /\ nuevas \in 0 .. Len(cola)
    BY DEF TypeOK, TipoPermisos, TipoCola
  <2>2. /\ cola' = Append(cola, trama) /\ (enError => trama = {})
        /\ nuevas' = IF enError THEN nuevas + 1 ELSE nuevas
        /\ ~enError => nuevas = 0
    BY <1>1 DEF Envia, MarcaInv
  <2>3. /\ Len(cola') = Len(cola) + 1 /\ Len(cola) \in Nat
        /\ \A i \in 1 .. Len(cola) : cola'[i] = cola[i]
        /\ cola'[Len(cola) + 1] = trama
    BY <2>1, <2>2, Final
  <2>4. CASE enError
    <3>1. SUFFICES ASSUME NEW i \in 1 .. Len(cola'), i > Len(cola') - nuevas'
                   PROVE  cola'[i] = {}
      BY DEF ColaInv
    <3>2. nuevas' = nuevas + 1
      BY <2>2, <2>4
    <3>3. CASE i = Len(cola) + 1
      BY <2>2, <2>3, <2>4, <3>3
    <3>4. CASE i # Len(cola) + 1
      <4>1. i \in 1 .. Len(cola) /\ i > Len(cola) - nuevas
        BY <2>1, <2>3, <3>1, <3>2, <3>4
      <4>. QED  BY <2>3, <4>1 DEF ColaInv
    <3>. QED  BY <3>3, <3>4
  <2>5. CASE ~enError
    <3>1. nuevas' = 0
      BY <2>1, <2>2, <2>3, <2>5
    <3>. QED  BY <2>3, <3>1 DEF ColaInv
  <2>. QED  BY <2>4, <2>5
<1>2. CASE Entrega
  <2>1. cola \in Seq(SUBSET Sentidos) /\ nuevas \in 0 .. Len(cola)
    BY DEF TypeOK, TipoCola
  <2>2. /\ cola # <<>> /\ cola' = Tail(cola)
        /\ \/ nuevas = Len(cola) /\ nuevas' = nuevas - 1
           \/ nuevas # Len(cola) /\ nuevas' = nuevas
    BY <1>2 DEF Entrega
  <2>3. /\ Len(cola') = Len(cola) - 1 /\ Len(cola) \in Nat \ {0}
        /\ \A i \in 1 .. Len(cola') : cola'[i] = cola[i + 1]
    BY <2>1, <2>2, Cabeza
  <2>4. SUFFICES ASSUME NEW i \in 1 .. Len(cola'), i > Len(cola') - nuevas'
                 PROVE  cola'[i] = {}
    BY DEF ColaInv
  <2>5. i + 1 \in 1 .. Len(cola) /\ i + 1 > Len(cola) - nuevas
    <3>1. nuevas' \in Int /\ nuevas' <= nuevas
      BY <2>1, <2>2
    <3>. QED  BY <2>1, <2>3, <2>4, <3>1
  <2>. QED  BY <2>3, <2>5 DEF ColaInv
<1>3. CASE Reinicio
  <2>1. Len(cola') = 0
    BY <1>3 DEF Reinicio
  <2>. QED  BY <2>1 DEF ColaInv
<1>4. CASE ~Envia /\ ~Entrega /\ ~Reinicio
  <2>1. cola' = cola /\ (nuevas' = nuevas \/ nuevas' = 0)
    <3>1. CASE CambiaBms \/ UNCHANGED vars \/ Pierde \/ Sender
      BY <3>1 DEF CambiaBms, vars, Pierde, Sender, Empieza, LeeCarga, LeeDescarga,
                  LeePaso, LeeError, senderVars, aux
    <3>2. CASE Parser
      BY <3>2 DEF Parser, Recibe, EvaluaDescarga, EvaluaCarga, EvaluaPaso, FinTrama,
                  Observa, senderVars, aux
    <3>3. CASE Inicial \/ EsperaVacia
      BY <3>3 DEF Inicial, InicialCarga, InicialDescarga, InicialError, EsperaVacia,
                  Observa, senderVars
    <3>. QED  BY <1>4, <3>1, <3>2, <3>3 DEF Next
  <2>. QED  BY <2>1, ColaQuieta
<1>. QED  BY <1>1, <1>2, <1>3, <1>4

\* The invariant that carries the three theorems below.
LEMMA Avisos == Spec => []AvisoInv
<1>1. Init => AvisoInv
  BY DEF Init, AvisoInv, MarcaInv, ColaInv, Parado
<1>2. ASSUME TypeOK, AvisoInv, [Next]_vars PROVE MarcaInv'
  <2>0. /\ nuevas \in Nat /\ nuevas <= Len(cola) /\ Len(cola) \in Nat
        /\ error \in BOOLEAN /\ enError \in BOOLEAN /\ avisado \in BOOLEAN
    BY <1>2 DEF TypeOK, TipoCola, TipoBanderas
  <2>. USE <1>2, <2>0 DEF AvisoInv, MarcaInv, Parado, parserVars, senderVars, aux, cuenta
  <2>1. CASE CambiaBms
    BY <2>1 DEF CambiaBms
  <2>2. CASE Recibe
    BY <2>2 DEF Recibe
  <2>3. ASSUME NEW x, NEW a, NEW b, EvaluaPaso(x, a, b) PROVE MarcaInv'
    BY <2>3 DEF EvaluaPaso, Observa
  <2>4. CASE FinTrama
    BY <2>4 DEF FinTrama, Observa
  <2>5. CASE EsperaVacia
    BY <2>5 DEF EsperaVacia, Observa
  <2>6. CASE Inicial
    <3>1. CASE InicialCarga
      BY <3>1 DEF InicialCarga, Observa
    <3>2. CASE InicialDescarga
      BY <3>2 DEF InicialDescarga, Observa
    <3>3. CASE InicialError
      BY <3>3 DEF InicialError, Observa
    <3>. QED  BY <2>6, <3>1, <3>2, <3>3 DEF Inicial
  <2>7. CASE Reinicio
    BY <2>7 DEF Reinicio, Olvida
  <2>8. CASE Empieza
    BY <2>8 DEF Empieza
  <2>9. ASSUME NEW x, NEW a \in {"carga", "descarga"}, NEW b \in {"descarga", "error"},
               LeePaso(x, a, b)
        PROVE  MarcaInv'
    BY <2>9 DEF LeePaso
  <2>10. CASE LeeError
    BY <2>10 DEF LeeError
  <2>11. CASE Envia
    <3>1. Len(cola') = Len(cola) + 1
      BY <2>11, Final DEF Envia, TypeOK, TipoCola, TipoPermisos
    <3>. QED  BY <2>11, <3>1 DEF Envia, Olvida
  <2>12. CASE Pierde
    BY <2>12 DEF Pierde, Olvida
  <2>13. CASE Entrega
    <3>1. Head(cola) = cola[1] /\ Len(cola') = Len(cola) - 1 /\ Len(cola) # 0
      BY <2>13, Cabeza DEF Entrega, TypeOK, TipoCola
    <3>2. nuevas = Len(cola) => Head(cola) = {}
      BY <2>13, <3>1 DEF ColaInv
    <3>. QED  BY <2>13, <3>1, <3>2 DEF Entrega
  <2>14. CASE UNCHANGED vars
    BY <2>14 DEF vars
  <2>. QED
    BY <2>1, <2>2, <2>3, <2>4, <2>5, <2>6, <2>7, <2>8, <2>9, <2>10, <2>11,
       <2>12, <2>13, <2>14
       DEF Next, Parser, EvaluaDescarga, EvaluaCarga, Sender, LeeCarga, LeeDescarga
<1>3. TypeOK /\ AvisoInv /\ [Next]_vars => AvisoInv'
  BY <1>2, ColaConserva DEF AvisoInv
<1>. QED  BY <1>1, <1>3, TipoCorrecto, PTL DEF Spec

\* Once a frame that was built under the error arrived, the inverter is
\* stopped, and stays so while the error is up.
THEOREM SiempreParado == Spec => []Parado
<1>1. AvisoInv => Parado
  BY DEF AvisoInv, MarcaInv
<1>. QED  BY <1>1, Avisos, PTL

----------------------------------------------------------------------------
\* The frame under construction that was not begun under the error.
Pendiente == IF pcS = "listo" \/ enError THEN 0 ELSE 1

\* What arrived late and what may still do so, the queue and the frame under
\* construction, is never more than they hold.
RetrasoInv == error => tardias + (Len(cola) - nuevas) + Pendiente <= CapTx + 1

\* However long the cable was off, no more than the frames that were in the
\* queue and the one under construction arrive late, for every queue.
THEOREM RetrasoAcotado == Spec => []AtrasoAcotado
<1>1. Init => RetrasoInv
  BY CapTxEsNatural DEF Init, RetrasoInv, Pendiente
<1>2. ASSUME TypeOK, AvisoInv, RetrasoInv, [Next]_vars PROVE RetrasoInv'
  <2>0. /\ nuevas \in Nat /\ nuevas <= Len(cola) /\ Len(cola) \in Nat /\ Len(cola) <= CapTx
        /\ tardias \in Nat /\ CapTx \in Nat
        /\ error \in BOOLEAN /\ enError \in BOOLEAN
        /\ enError => error
        /\ nuevas # 0 => error /\ (pcS = "listo" \/ enError)
    BY <1>2, CapTxEsNatural DEF TypeOK, TipoCola, TipoBanderas, AvisoInv, MarcaInv
  <2>1. ASSUME cola' = cola, tardias' = tardias, pcS' = pcS, error => error',
               error' => error, Observa
        PROVE  RetrasoInv'
    BY <1>2, <2>0, <2>1 DEF RetrasoInv, Pendiente, Observa
  <2>2. CASE EsperaVacia
    <3>1. CASE error
      BY <2>1, <2>2, <3>1 DEF EsperaVacia, senderVars
    <3>2. CASE ~error
      <4>1. cola' = cola /\ pcS' = pcS /\ tardias' = 0 /\ nuevas' = nuevas /\ nuevas = 0
        BY <2>0, <2>2, <3>2 DEF EsperaVacia, senderVars, Observa
      <4>. QED  BY <2>0, <4>1 DEF RetrasoInv, Pendiente
    <3>. QED  BY <3>1, <3>2
  <2>3. CASE Inicial
    <3>1. CASE InicialCarga \/ InicialDescarga
      BY <2>1, <3>1 DEF InicialCarga, InicialDescarga, senderVars, cuenta
    <3>2. CASE InicialError
      BY <3>2 DEF InicialError, RetrasoInv
    <3>. QED  BY <2>3, <3>1, <3>2 DEF Inicial
  <2>4. CASE Parser
    <3>1. CASE Recibe
      BY <1>2, <2>0, <3>1 DEF Recibe, RetrasoInv, Pendiente, senderVars, aux, cuenta
    <3>2. CASE EvaluaDescarga \/ EvaluaCarga
      BY <2>1, <3>2 DEF EvaluaDescarga, EvaluaCarga, EvaluaPaso, senderVars
    <3>3. CASE FinTrama
      BY <3>3 DEF FinTrama, RetrasoInv
    <3>. QED  BY <2>4, <3>1, <3>2, <3>3 DEF Parser
  <2>5. CASE Reinicio
    <3>1. Len(cola') = 0 /\ nuevas' = 0 /\ tardias' = 0 /\ pcS' = "listo"
      BY <2>5 DEF Reinicio
    <3>. QED  BY <2>0, <3>1 DEF RetrasoInv, Pendiente
  <2>6. CASE Sender
    <3>1. CASE Empieza
      BY <1>2, <2>0, <3>1 DEF Empieza, RetrasoInv, Pendiente, cuenta
    <3>2. CASE LeeCarga \/ LeeDescarga \/ LeeError
      <4>1. /\ pcS # "listo" /\ pcS' # "listo" /\ enError' = enError /\ error' = error
            /\ cola' = cola /\ nuevas' = nuevas /\ tardias' = tardias
        BY <3>2 DEF LeeCarga, LeeDescarga, LeePaso, LeeError, aux, cuenta
      <4>. QED  BY <1>2, <2>0, <4>1 DEF RetrasoInv, Pendiente
    <3>. QED  BY <2>6, <3>1, <3>2 DEF Sender
  <2>7. CASE Envia
    <3>1. Len(cola') = Len(cola) + 1
      BY <1>2, <2>7, Final DEF Envia, TypeOK, TipoCola, TipoPermisos
    <3>2. /\ pcS = "envia" /\ pcS' = "listo" /\ error' = error /\ tardias' = tardias
          /\ nuevas' = IF enError THEN nuevas + 1 ELSE nuevas
      BY <2>7 DEF Envia, cuenta
    <3>. QED  BY <1>2, <2>0, <3>1, <3>2 DEF RetrasoInv, Pendiente
  <2>8. CASE Pierde
    BY <1>2, <2>0, <2>8 DEF Pierde, Olvida, RetrasoInv, Pendiente, cuenta
  <2>9. CASE Entrega
    <3>1. Head(cola) = cola[1] /\ Len(cola') = Len(cola) - 1 /\ Len(cola) # 0
      BY <1>2, <2>9, Cabeza DEF Entrega, TypeOK, TipoCola
    <3>2. nuevas = Len(cola) => Head(cola) = {}
      BY <1>2, <2>0, <3>1 DEF AvisoInv, ColaInv
    <3>3. /\ pcS' = pcS /\ enError' = enError /\ error' = error
          /\ \/ nuevas = Len(cola) /\ nuevas' = nuevas - 1 /\ tardias' = tardias
             \/ /\ nuevas # Len(cola) /\ nuevas' = nuevas
                /\ tardias' = tardias \/ tardias' = tardias + 1
      BY <2>9, <3>2 DEF Entrega
    <3>4. Pendiente' = Pendiente /\ Pendiente \in 0 .. 1
      BY <3>3 DEF Pendiente
    <3>. QED  BY <1>2, <2>0, <3>1, <3>3, <3>4 DEF RetrasoInv
  <2>10. CASE CambiaBms \/ UNCHANGED vars
    <3>1. /\ cola' = cola /\ tardias' = tardias /\ nuevas' = nuevas /\ pcS' = pcS
          /\ error' = error /\ enError' = enError
      BY <2>10 DEF CambiaBms, vars, senderVars, aux, cuenta
    <3>. QED  BY <1>2, <3>1 DEF RetrasoInv, Pendiente
  <2>. QED
    BY <1>2, <2>2, <2>3, <2>4, <2>5, <2>6, <2>7, <2>8, <2>9, <2>10 DEF Next
<1>3. TypeOK /\ RetrasoInv => AtrasoAcotado
  <2>1. Pendiente \in 0 .. 1
    BY DEF Pendiente
  <2>. QED
    BY <2>1, CapTxEsNatural DEF TypeOK, TipoCola, RetrasoInv, AtrasoAcotado
<1>. QED  BY <1>1, <1>2, <1>3, Avisos, TipoCorrecto, PTL DEF Spec

----------------------------------------------------------------------------
SinReset == pcR \in {"sondea", "descarga", "error"}

\* How far the parser is with a frame says what was evaluated, and the error
\* of which the inverter was told is only cleared at the end of a frame.
EvaluaInv ==
  /\ pcP = "carga" => "descarga" \in evaluados
  /\ pcP = "fin" => evaluados = Sentidos
  /\ (avisado /\ SinReset) => error \/ evaluados = Sentidos

\* A permission of before the silence does not come back to the inverter
\* before the BMS is back and both permissions were evaluated again.
THEOREM SoloTrasEvaluar == Spec => []ConcedeTrasEvaluar
<1>1. Init => EvaluaInv
  BY DEF Init, EvaluaInv
<1>2. ASSUME TypeOK, AvisoInv, EvaluaInv, [Next]_vars PROVE EvaluaInv'
  <2>. USE <1>2 DEF TypeOK, TipoPermisos, AvisoInv, MarcaInv, EvaluaInv, SinReset,
                    parserVars, senderVars, aux, cuenta
  <2>1. CASE CambiaBms
    BY <2>1 DEF CambiaBms
  <2>2. CASE Recibe
    BY <2>2 DEF Recibe
  <2>3. CASE EvaluaDescarga
    BY <2>3 DEF EvaluaDescarga, EvaluaPaso, Observa
  <2>4. CASE EvaluaCarga
    BY <2>4 DEF EvaluaCarga, EvaluaPaso, Observa
  <2>5. CASE FinTrama
    BY <2>5 DEF FinTrama, Observa
  <2>6. CASE EsperaVacia
    BY <2>6 DEF EsperaVacia, Observa
  <2>7. CASE Inicial
    <3>1. CASE InicialCarga
      BY <3>1 DEF InicialCarga, Observa
    <3>2. CASE InicialDescarga
      BY <3>2 DEF InicialDescarga, Observa
    <3>3. CASE InicialError
      BY <3>3 DEF InicialError, Observa
    <3>. QED  BY <2>7, <3>1, <3>2, <3>3 DEF Inicial
  <2>8. CASE Reinicio
    BY <2>8 DEF Reinicio, Olvida
  <2>9. CASE Empieza
    BY <2>9 DEF Empieza
  <2>10. ASSUME NEW x, NEW a, NEW b, LeePaso(x, a, b) PROVE EvaluaInv'
    BY <2>10 DEF LeePaso
  <2>11. CASE LeeError
    BY <2>11 DEF LeeError
  <2>12. CASE Envia
    BY <2>12 DEF Envia, Olvida
  <2>13. CASE Pierde
    BY <2>13 DEF Pierde, Olvida
  <2>14. CASE Entrega
    <3>1. nuevas = Len(cola) => error
      BY <2>14, Cabeza DEF Entrega, TipoCola
    <3>. QED  BY <2>14, <3>1 DEF Entrega
  <2>15. CASE UNCHANGED vars
    BY <2>15 DEF vars
  <2>. QED
    BY <2>1, <2>2, <2>3, <2>4, <2>5, <2>6, <2>7, <2>8, <2>9, <2>10, <2>11,
       <2>12, <2>13, <2>14, <2>15
       DEF Next, Parser, Sender, LeeCarga, LeeDescarga
<1>3. TypeOK /\ AvisoInv /\ EvaluaInv => ConcedeTrasEvaluar
  BY DEF TypeOK, TipoPermisos, AvisoInv, MarcaInv, Parado, EvaluaInv, SinReset, ConcedeTrasEvaluar
<1>. QED  BY <1>1, <1>2, <1>3, Avisos, TipoCorrecto, PTL DEF Spec
=============================================================================
