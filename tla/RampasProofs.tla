---------------------------- MODULE RampasProofs ----------------------------
(***************************************************************************)
(* For any rules, in any order, of any scale: a ramp gives a current that  *)
(* lies between two of its own.  Of rules in the order the pages ask for   *)
(* it is the proportional current, and falls where they fall.              *)
(***************************************************************************)
EXTENDS Rampas, TLAPS

\* The first and the last index of a set of them exist.
LEMMA PrimeroEsta ==
  ASSUME NEW S \in SUBSET Indices, S # {}
  PROVE  Primero(S) \in S
<1> DEFINE P(i) == i \in S /\ \A j \in S : i <= j
<1>1. \E i \in S : P(i)
  <2>1. CASE 0 \in S
    BY <2>1 DEF Indices
  <2>2. CASE 0 \notin S /\ 1 \in S
    BY <2>2 DEF Indices
  <2>3. CASE 0 \notin S /\ 1 \notin S /\ 2 \in S
    BY <2>3 DEF Indices
  <2>4. CASE 0 \notin S /\ 1 \notin S /\ 2 \notin S /\ 3 \in S
    BY <2>4 DEF Indices
  <2>5. CASE 0 \notin S /\ 1 \notin S /\ 2 \notin S /\ 3 \notin S
    <3>1. PICK x \in S : TRUE
      OBVIOUS
    <3>2. \A j \in S : j = 4
      BY <2>5 DEF Indices
    <3> QED BY <3>1, <3>2 DEF Indices
  <2> QED BY <2>1, <2>2, <2>3, <2>4, <2>5
<1> QED BY <1>1 DEF Primero

\* The greatest index too is one of the set.
LEMMA UltimoEsta ==
  ASSUME NEW S \in SUBSET Indices, S # {}
  PROVE  Ultimo(S) \in S
<1> DEFINE P(i) == i \in S /\ \A j \in S : j <= i
<1>1. \E i \in S : P(i)
  <2>1. CASE 4 \in S
    BY <2>1 DEF Indices
  <2>2. CASE 4 \notin S /\ 3 \in S
    BY <2>2 DEF Indices
  <2>3. CASE 4 \notin S /\ 3 \notin S /\ 2 \in S
    BY <2>3 DEF Indices
  <2>4. CASE 4 \notin S /\ 3 \notin S /\ 2 \notin S /\ 1 \in S
    BY <2>4 DEF Indices
  <2>5. CASE 4 \notin S /\ 3 \notin S /\ 2 \notin S /\ 1 \notin S
    <3>1. PICK x \in S : TRUE
      OBVIOUS
    <3>2. \A j \in S : j = 0
      BY <2>5 DEF Indices
    <3> QED BY <3>1, <3>2 DEF Indices
  <2> QED BY <2>1, <2>2, <2>3, <2>4, <2>5
<1> QED BY <1>1 DEF Ultimo

\* Five numbers of which the first is not above v and the last not below it
\* have v among them, or a neighbouring pair around it.
LEMMA Cruce ==
  ASSUME NEW v \in Nat, NEW e \in [Indices -> Nat],
         ~(v < e[0]), ~(v > e[4]), Iguales(v, e) = {}
  PROVE  Entre(v, e) # {}
<1>1. \A i \in Indices : e[i] \in Nat /\ e[i] # v
  BY DEF Iguales
<1>2. e[0] < v /\ v < e[4]
  BY <1>1 DEF Indices
<1>3. \E i \in 1 .. 4 : e[i - 1] < v /\ v < e[i]
  <2>1. CASE v < e[1]
    BY <1>1, <1>2, <2>1 DEF Indices
  <2>2. CASE e[1] < v /\ v < e[2]
    BY <1>1, <1>2, <2>2 DEF Indices
  <2>3. CASE e[2] < v /\ v < e[3]
    BY <1>1, <1>2, <2>3 DEF Indices
  <2>4. CASE e[3] < v
    BY <1>1, <1>2, <2>4 DEF Indices
  <2> QED BY <1>1, <2>1, <2>2, <2>3, <2>4 DEF Indices
<1> QED BY <1>3 DEF Entre

\* What getIndexLimit returns, whatever was in the array: one rule, or two
\* neighbours with the value between them.
LEMMA IndicesAlrededor ==
  ASSUME NEW v \in Nat, NEW e \in [Indices -> Nat], NEW antes
  PROVE  LET r == getIndexLimit(v, antes, e) IN
         /\ r \in Indices \X Indices
         /\ \/ r[2] = r[1]
            \/ r[2] = r[1] + 1 /\ e[r[1]] <= v /\ v <= e[r[2]]
<1> DEFINE r == getIndexLimit(v, antes, e)
<1>1. CASE v < e[0]
  BY <1>1 DEF getIndexLimit, Indices
<1>2. CASE ~(v < e[0]) /\ v > e[4]
  BY <1>2 DEF getIndexLimit, Indices
<1>3. CASE ~(v < e[0]) /\ ~(v > e[4]) /\ Iguales(v, e) # {}
  <2>1. Iguales(v, e) \in SUBSET Indices
    BY DEF Iguales
  <2>2. Primero(Iguales(v, e)) \in Indices
    BY <1>3, <2>1, PrimeroEsta
  <2>3. r = <<Primero(Iguales(v, e)), Primero(Iguales(v, e))>>
    BY <1>3 DEF getIndexLimit
  <2> QED BY <2>2, <2>3
<1>4. CASE ~(v < e[0]) /\ ~(v > e[4]) /\ Iguales(v, e) = {}
  <2> DEFINE i == Ultimo(Entre(v, e))
  <2>1. Entre(v, e) # {}
    BY <1>4, Cruce
  <2>2. Entre(v, e) \in SUBSET Indices
    BY DEF Entre, Indices
  <2>3. i \in Entre(v, e)
    BY <2>1, <2>2, UltimoEsta
  <2>4. i \in 1 .. 4 /\ e[i - 1] < v /\ v < e[i]
    BY <2>3 DEF Entre
  <2>5. r = <<i - 1, i>>
    BY <1>4, <2>1 DEF getIndexLimit
  <2>6. i \in Indices /\ i - 1 \in Indices /\ e[i] \in Nat /\ e[i - 1] \in Nat
    BY <2>4 DEF Indices
  <2> QED BY <2>4, <2>5, <2>6
<1> QED BY <1>1, <1>2, <1>3, <1>4
----------------------------------------------------------------------------
\* Division, for positive divisors.
LEMMA Division ==
  ASSUME NEW a \in Int, NEW b \in Nat, b > 0
  PROVE  /\ a \div b \in Int
         /\ b * (a \div b) <= a
         /\ a < b * (a \div b) + b
BY Z3

\* A product is not more than the product with a larger factor.
LEMMA Producto ==
  ASSUME NEW d \in Nat, NEW D \in Nat, d <= D, NEW S \in Nat
  PROVE  d * S \in Nat /\ D * S \in Nat /\ d * S <= D * S
BY Z3

\* From products with the divisor to the quotient.
LEMMA Cociente ==
  ASSUME NEW q \in Int, NEW b \in Nat, b > 0, NEW k \in Int
  PROVE  /\ b * q < b * (k + 1) => q <= k
         /\ b * q + b > 0 => q >= 0
BY Z3

\* The rounded quotient of a part of S lies between 0 and S.
LEMMA CocienteAcotado ==
  ASSUME NEW D \in Nat, D > 0, NEW d \in Nat, d <= D, NEW S \in Nat
  PROVE  /\ (d * S + D \div 2) \div D \in 0 .. S
         /\ d * S >= D \div 2 => (d * S - D \div 2) \div D \in 0 .. S
<1> DEFINE h == D \div 2
           p == d * S
<1>1. h \in Nat /\ h < D
  BY Z3
<1>2. p \in Nat /\ D * S \in Nat /\ p <= D * S
  BY Producto
<1>3. D * (S + 1) = D * S + D
  BY Z3
<1> HIDE DEF h, p
<1>4. (p + h) \div D \in 0 .. S
  <2> DEFINE q == (p + h) \div D
  <2>1. p + h \in Int
    BY <1>1, <1>2
  <2>2. q \in Int /\ D * q <= p + h /\ p + h < D * q + D
    BY <2>1, Division
  <2>3. D * q \in Int
    BY <2>2
  <2> HIDE DEF q
  <2>4. D * q < D * (S + 1) /\ D * q + D > 0
    BY <1>1, <1>2, <1>3, <2>2, <2>3
  <2>5. q <= S /\ q >= 0
    BY <2>2, <2>4, Cociente
  <2>6. q \in 0 .. S
    BY <2>2, <2>5
  <2> QED BY <2>6 DEF q
<1>5. ASSUME p >= h PROVE (p - h) \div D \in 0 .. S
  <2> DEFINE q == (p - h) \div D
  <2>1. p - h \in Int
    BY <1>1, <1>2
  <2>2. q \in Int /\ D * q <= p - h /\ p - h < D * q + D
    BY <2>1, Division
  <2>3. D * q \in Int
    BY <2>2
  <2> HIDE DEF q
  <2>4. D * q < D * (S + 1) /\ D * q + D > 0
    BY <1>1, <1>2, <1>3, <1>5, <2>2, <2>3
  <2>5. q <= S /\ q >= 0
    BY <2>2, <2>4, Cociente
  <2>6. q \in 0 .. S
    BY <2>2, <2>5
  <2> QED BY <2>6 DEF q
<1> QED BY <1>4, <1>5 DEF h, p

\* Between two outputs, for a value between two inputs.
LEMMA InterpolacionEntre ==
  ASSUME NEW x \in Nat, NEW inMin \in Nat, NEW inMax \in Nat,
         NEW outMin \in Nat, NEW outMax \in Nat,
         inMin <= x, x <= inMax
  PROVE  LET r == interpolacion(x, inMin, inMax, outMin, outMax) IN
         /\ r \in Int
         /\ (outMin <= r /\ r <= outMax) \/ (outMax <= r /\ r <= outMin)
<1> DEFINE D == inMax - inMin
           d == x - inMin
           h == D \div 2
<1>1. CASE D = 0
  BY <1>1 DEF interpolacion
<1>2. CASE D # 0
  <2>1. D \in Nat /\ D > 0 /\ d \in Nat /\ d <= D
    BY <1>2
  <2>2. h \in Nat /\ h < D
    BY <2>1, Z3
  <2>3. interpolacion(x, inMin, inMax, outMin, outMax)
          = DivC(d * (outMax - outMin) + h, D) + outMin
    BY <1>2 DEF interpolacion
  <2>4. CASE outMax >= outMin
    <3> DEFINE S == outMax - outMin
               N == d * S + h
    <3>1. S \in Nat
      BY <2>4
    <3>2. d * S \in Nat
      BY <2>1, <3>1, Producto
    <3>3. N >= 0 /\ N \div D \in 0 .. S
      BY <2>1, <2>2, <3>1, <3>2, CocienteAcotado
    <3>4. DivC(N, D) \in 0 .. S
      BY <3>3 DEF DivC
    <3> HIDE DEF N, D
    <3> QED BY <2>3, <3>1, <3>4 DEF N
  <2>5. CASE outMax < outMin
    <3> DEFINE S == outMin - outMax
               N == d * (outMax - outMin) + h
    <3>1. S \in Nat
      BY <2>5
    <3>2. d * S \in Nat /\ d * (outMax - outMin) = -(d * S)
      BY <2>1, <3>1, Z3
    <3>3. N \in Int /\ N = -(d * S) + h
      BY <2>2, <3>2
    <3>4. CASE N >= 0
      <4>1. N < D
        BY <2>2, <3>2, <3>3
      <4>2. N \div D = 0
        BY <2>1, <3>3, <3>4, <4>1, Z3
      <4>3. DivC(N, D) = 0
        BY <3>4, <4>2 DEF DivC
      <4> QED BY <2>3, <2>5, <4>3
    <3>5. CASE ~(N >= 0)
      <4>1. d * S >= h /\ -N = d * S - h
        BY <2>2, <3>2, <3>3, <3>5
      <4>2. (d * S - h) \div D \in 0 .. S
        BY <2>1, <3>1, <4>1, CocienteAcotado
      <4>3. DivC(N, D) = -((d * S - h) \div D)
        BY <3>5, <4>1 DEF DivC
      <4> HIDE DEF N, D, h
      <4> QED BY <2>3, <3>1, <4>2, <4>3 DEF N
    <3> QED BY <3>4, <3>5
  <2> QED BY <2>4, <2>5
<1> QED BY <1>1, <1>2

\* Between the currents of two rules, when it is one and the same or the
\* value lies between them.
LEMMA EntreDosReglas ==
  ASSUME NEW v \in Nat, NEW e \in [Indices -> Nat], NEW amp \in [Indices -> Nat],
         NEW i \in Indices, NEW j \in Indices,
         j = i \/ (e[i] <= v /\ v <= e[j]),
         NEW p, p = interpolacion(v, e[i], e[j], amp[i], amp[j])
  PROVE  /\ p \in Nat
         /\ \E k \in Indices : amp[k] <= p
         /\ \E k \in Indices : p <= amp[k]
<1>1. e[i] \in Nat /\ e[j] \in Nat
  OBVIOUS
<1>3. amp[i] \in Nat /\ amp[j] \in Nat
  OBVIOUS
<1>4. p \in Int /\ ((amp[i] <= p /\ p <= amp[j]) \/ (amp[j] <= p /\ p <= amp[i]))
  <2>1. CASE j = i
    <3>1. p = amp[i]
      BY <1>1, <2>1 DEF interpolacion
    <3> QED BY <1>3, <2>1, <3>1
  <2>2. CASE e[i] <= v /\ v <= e[j]
    BY <1>1, <1>3, <2>2, InterpolacionEntre
  <2> QED BY <2>1, <2>2
<1>5. p \in Nat
  BY <1>3, <1>4
<1>6. (\E k \in Indices : amp[k] <= p) /\ (\E k \in Indices : p <= amp[k])
  BY <1>4
<1> QED BY <1>5, <1>6

\* One ramp, for any rules.
LEMMA RampaEntreReglas ==
  ASSUME NEW v \in Nat, NEW e \in [Indices -> Nat], NEW amp \in [Indices -> Nat],
         \A k \in Indices : amp[k] < 65536,
         NEW antes, NEW ind, ind = getIndexLimit(v, antes, e)
  PROVE  /\ ind \in Indices \X Indices /\ ind[2] \in {ind[1], ind[1] + 1}
         /\ Amperios(v, ind, e, amp) \in Nat /\ Amperios(v, ind, e, amp) < 65536
         /\ \E k \in Indices : amp[k] <= Amperios(v, ind, e, amp)
         /\ \E k \in Indices : Amperios(v, ind, e, amp) <= amp[k]
<1>1. /\ ind \in Indices \X Indices
      /\ \/ ind[2] = ind[1]
         \/ ind[2] = ind[1] + 1 /\ e[ind[1]] <= v /\ v <= e[ind[2]]
  BY ONLY v \in Nat, e \in [Indices -> Nat], ind = getIndexLimit(v, antes, e),
     IndicesAlrededor
<1>2. PICK i \in Indices, j \in Indices : ind = <<i, j>>
  BY <1>1
<1>3. ind[1] = i /\ ind[2] = j
  BY <1>2
<1>4. j = i \/ (e[i] <= v /\ v <= e[j])
  BY <1>1, <1>3
<1> DEFINE p == interpolacion(v, e[i], e[j], amp[i], amp[j])
<1> HIDE DEF p
<1>5. /\ p \in Nat
      /\ \E k \in Indices : amp[k] <= p
      /\ \E k \in Indices : p <= amp[k]
  <2>1. p = interpolacion(v, e[i], e[j], amp[i], amp[j])
    BY DEF p
  <2>2. i \in Indices /\ j \in Indices
    OBVIOUS
  <2> QED BY ONLY v \in Nat, e \in [Indices -> Nat], amp \in [Indices -> Nat],
                 <1>4, <2>1, <2>2, EntreDosReglas, Zenon
<1>6. Amperios(v, ind, e, amp) = p % 65536
  BY <1>3 DEF Amperios, p
<1>7. p < 65536
  BY <1>5
<1>8. p % 65536 = p
  BY <1>5, <1>7, Z3
<1> QED BY <1>1, <1>5, <1>6, <1>7, <1>8
----------------------------------------------------------------------------
\* The rules and their reverse.
LEMMA ReglasSon ==
  ASSUME NEW r \in Reglas
  PROVE  /\ r.escala \in [Indices -> Nat] /\ Voltea(r.escala) \in [Indices -> Nat]
         /\ r.amp \in [Indices -> Nat] /\ Voltea(r.amp) \in [Indices -> Nat]
         /\ \A k \in Indices : r.amp[k] < 65536 /\ Voltea(r.amp)[k] < 65536
<1>1. r.escala \in [Indices -> Escalas] /\ r.amp \in [Indices -> Corrientes]
  BY DEF Reglas
<1>2. /\ \A n \in Escalas : n \in Nat
      /\ \A n \in Corrientes : n \in Nat /\ n < 65536
  <2>1. /\ \A n \in Escalas : n \in Nat
        /\ \A n \in Corrientes : n \in Nat /\ n < 32768
    BY ReglasCaben
  <2>2. \A n \in Nat : n < 32768 => n < 65536
    OBVIOUS
  <2> QED BY <2>1, <2>2
<1>4. r.escala \in [Indices -> Nat] /\ r.amp \in [Indices -> Nat]
  BY <1>1, <1>2
<1>5. \A k \in Indices : r.amp[k] < 65536
  BY <1>1, <1>2
<1>3. \A k \in Indices : 4 - k \in Indices
  BY DEF Indices
<1> QED BY <1>3, <1>4, <1>5 DEF Voltea

\* What one ramp writes, with its rules as they are or turned round.
LEMMA PasoRampa ==
  ASSUME TypeOK, NEW f, f \in {"hayCarga", "hayDescarga"}, fase' = f,
         reglas' \in Reglas, valor' \in Valores,
         NEW e, NEW a, e \in [Indices -> Nat], a \in [Indices -> Nat],
         \A k \in Indices : a[k] < 65536,
         \A k \in Indices : \E l \in Indices : a[k] = reglas'.amp[l],
         indice' = getIndexLimit(valor', indice, e),
         amperios' = Amperios(valor', indice', e, a)
  PROVE  TypeOK' /\ EntreReglas'
<1>1. valor' \in Nat
  BY ReglasCaben
<1>2. /\ indice' \in Indices \X Indices /\ indice'[2] \in {indice'[1], indice'[1] + 1}
      /\ Amperios(valor', indice', e, a) \in Nat /\ Amperios(valor', indice', e, a) < 65536
      /\ \E k \in Indices : a[k] <= Amperios(valor', indice', e, a)
      /\ \E k \in Indices : Amperios(valor', indice', e, a) <= a[k]
  BY <1>1, RampaEntreReglas
<1>3. TypeOK'
  BY <1>2 DEF TypeOK, Fases
<1>4. EntreReglas'
  <2>1. /\ \E k \in Indices : a[k] <= amperios'
        /\ \E k \in Indices : amperios' <= a[k]
    BY <1>2
  <2>2. PICK k \in Indices : a[k] <= amperios'
    BY <2>1
  <2>3. PICK m \in Indices : amperios' <= a[m]
    BY <2>1
  <2>4. PICK l \in Indices : a[k] = reglas'.amp[l]
    OBVIOUS
  <2>5. PICK n \in Indices : a[m] = reglas'.amp[n]
    OBVIOUS
  <2>6. reglas'.amp[l] <= amperios' /\ amperios' <= reglas'.amp[n]
    BY <2>2, <2>3, <2>4, <2>5
  <2> QED BY <2>6 DEF EntreReglas
<1> QED BY <1>3, <1>4

\* Both hold of what a call of ajustarAmperiosCargaDescarga writes: the array
\* `indice' is always set by the ramp that uses it, and the current stays
\* between those of the rules, so that it is never negative nor too large for
\* the 16 bits it is stored in.
THEOREM AmperiosEntreReglas == Spec => []TypeOK /\ []EntreReglas
<1> DEFINE Inv == TypeOK /\ EntreReglas
<1>1. Init => Inv
  BY DEF Init, Inv, TypeOK, EntreReglas, Escrito, Fases, Indices
<1>2. Inv /\ [Next]_vars => Inv'
  <2> SUFFICES ASSUME Inv, [Next]_vars PROVE Inv'
    OBVIOUS
  <2>1. CASE RampaCarga
    <3> DEFINE e == reglas'.escala
               a == reglas'.amp
    <3>1. /\ e \in [Indices -> Nat] /\ a \in [Indices -> Nat]
          /\ \A k \in Indices : a[k] < 65536
      BY <2>1, ReglasSon DEF RampaCarga
    <3>2. \A k \in Indices : \E l \in Indices : a[k] = reglas'.amp[l]
      OBVIOUS
    <3> HIDE DEF e, a
    <3>3. /\ indice' = getIndexLimit(valor', indice, e)
          /\ amperios' = Amperios(valor', indice', e, a)
      BY <2>1 DEF RampaCarga, e, a
    <3>4. fase' = "hayCarga" /\ reglas' \in Reglas /\ valor' \in Valores
      BY <2>1 DEF RampaCarga
    <3> QED BY <3>1, <3>2, <3>3, <3>4, PasoRampa
  <2>2. CASE Sigue
    BY <2>2 DEF Inv, Sigue, Olvida, TypeOK, EntreReglas, Escrito, Fases
  <2>3. CASE RampaDescarga
    <3> DEFINE e == Voltea(reglas'.escala)
               a == Voltea(reglas'.amp)
    <3>1. /\ e \in [Indices -> Nat] /\ a \in [Indices -> Nat]
          /\ \A k \in Indices : a[k] < 65536
      BY <2>3, ReglasSon DEF RampaDescarga
    <3>2. \A k \in Indices : \E l \in Indices : a[k] = reglas'.amp[l]
      <4>1. \A k \in Indices : 4 - k \in Indices /\ a[k] = reglas'.amp[4 - k]
        BY DEF Voltea, Indices
      <4> QED BY <4>1
    <3> HIDE DEF e, a
    <3>3. /\ indice' = getIndexLimit(valor', indice, e)
          /\ amperios' = Amperios(valor', indice', e, a)
      BY <2>3 DEF RampaDescarga, e, a
    <3>4. fase' = "hayDescarga" /\ reglas' \in Reglas /\ valor' \in Valores
      BY <2>3 DEF RampaDescarga
    <3> QED BY <3>1, <3>2, <3>3, <3>4, PasoRampa
  <2>4. CASE Termina
    BY <2>4 DEF Inv, Termina, Olvida, TypeOK, EntreReglas, Escrito, Fases, Indices
  <2>5. CASE UNCHANGED vars
    BY <2>5 DEF Inv, vars, TypeOK, EntreReglas, Escrito
  <2> QED BY <2>1, <2>2, <2>3, <2>4, <2>5 DEF Next
<1> QED BY <1>1, <1>2, PTL DEF Spec
----------------------------------------------------------------------------
(* Rules in the order the pages ask for. *)

EnOrden(e) == \A i \in 1 .. 4 : e[i - 1] < e[i]

\* Then any two of them are in order.
LEMMA OrdenEntero ==
  ASSUME NEW e \in [Indices -> Nat], EnOrden(e)
  PROVE  \A i, j \in Indices : i < j => e[i] < e[j]
<1>1. \A i \in Indices : e[i] \in Nat
  OBVIOUS
<1>2. e[0] < e[1] /\ e[1] < e[2] /\ e[2] < e[3] /\ e[3] < e[4]
  BY DEF EnOrden
<1>3. \A i \in Indices : i = 0 \/ i = 1 \/ i = 2 \/ i = 3 \/ i = 4
  BY DEF Indices
<1>4. e[0] \in Nat /\ e[1] \in Nat /\ e[2] \in Nat /\ e[3] \in Nat /\ e[4] \in Nat
  BY <1>1 DEF Indices
<1> QED BY <1>2, <1>3, <1>4

\* On a rule: that rule alone.
LEMMA IndiceEnRegla ==
  ASSUME NEW v \in Nat, NEW e \in [Indices -> Nat], EnOrden(e), NEW antes,
         NEW i \in Indices, e[i] = v
  PROVE  getIndexLimit(v, antes, e) = <<i, i>>
<1>1. \A j \in Indices : e[j] \in Nat /\ (j < i => e[j] < v) /\ (i < j => v < e[j])
  BY OrdenEntero
<1>2. \A j \in Indices : e[j] = v => j = i
  BY <1>1 DEF Indices
<1>3. Iguales(v, e) \in SUBSET Indices /\ i \in Iguales(v, e) /\ \A j \in Iguales(v, e) : j = i
  BY <1>2 DEF Iguales
<1>4. Primero(Iguales(v, e)) = i
  BY <1>3, PrimeroEsta
<1>5. ~(v < e[0]) /\ ~(v > e[4])
  <2>1. 0 \in Indices /\ 4 \in Indices
    BY DEF Indices
  <2>2. i = 0 \/ 0 < i
    BY DEF Indices
  <2>3. i = 4 \/ i < 4
    BY DEF Indices
  <2> QED BY <1>1, <2>1, <2>2, <2>3
<1> QED BY <1>3, <1>4, <1>5 DEF getIndexLimit

\* Between two rules: the two of them.
LEMMA IndicesEntreReglas ==
  ASSUME NEW v \in Nat, NEW e \in [Indices -> Nat], EnOrden(e), NEW antes,
         NEW i \in 1 .. 4, e[i - 1] < v, v < e[i]
  PROVE  getIndexLimit(v, antes, e) = <<i - 1, i>>
<1>0. i \in Indices /\ i - 1 \in Indices
  BY DEF Indices
<1>1. \A j \in Indices : e[j] \in Nat /\ (j <= i - 1 => e[j] < v) /\ (i <= j => v < e[j])
  <2>1. ASSUME NEW j \in Indices
        PROVE  e[j] \in Nat /\ (j <= i - 1 => e[j] < v) /\ (i <= j => v < e[j])
    <3>1. e[j] \in Nat /\ e[i] \in Nat /\ e[i - 1] \in Nat
      BY <1>0
    <3>2. j \in Int /\ (j < i - 1 => e[j] < e[i - 1]) /\ (i < j => e[i] < e[j])
      BY <1>0, OrdenEntero DEF Indices
    <3>3. j <= i - 1 => j < i - 1 \/ j = i - 1
      BY <3>2
    <3>4. i <= j => i < j \/ j = i
      BY <3>2
    <3> QED BY <3>1, <3>2, <3>3, <3>4
  <2> QED BY <2>1
<1>2. Iguales(v, e) = {}
  <2>1. \A j \in Indices : e[j] # v
    <3>1. \A j \in Indices : j <= i - 1 \/ i <= j
      BY DEF Indices
    <3> QED BY <1>1, <3>1
  <2> QED BY <2>1 DEF Iguales
<1>3. Entre(v, e) \in SUBSET Indices /\ i \in Entre(v, e) /\ \A j \in Entre(v, e) : j = i
  <2>1. ASSUME NEW j \in 1 .. 4, e[j - 1] < v, v < e[j]
        PROVE  j = i
    <3>1. j \in Indices /\ j - 1 \in Indices
      BY DEF Indices
    <3>2. e[j] \in Nat /\ e[j - 1] \in Nat
      BY <3>1
    <3>3. ~(j <= i - 1)
      BY <1>1, <2>1, <3>1, <3>2
    <3>4. ~(i <= j - 1)
      BY <1>1, <2>1, <3>1, <3>2
    <3> QED BY <3>3, <3>4
  <2> QED BY <2>1 DEF Entre, Indices
<1>4. Ultimo(Entre(v, e)) = i
  BY <1>3, UltimoEsta
<1>5. ~(v < e[0]) /\ ~(v > e[4])
  <2>1. 0 \in Indices /\ 4 \in Indices /\ 0 <= i - 1 /\ i <= 4
    BY DEF Indices
  <2> QED BY <1>1, <2>1
<1> QED BY <1>2, <1>3, <1>4, <1>5 DEF getIndexLimit

\* What a ramp writes for ordered rules, whatever was in the array.
LEMMA CorrienteEnOrden ==
  ASSUME NEW v \in Nat, NEW e \in [Indices -> Nat], NEW a \in [Indices -> Nat], EnOrden(e),
         \A k \in Indices : a[k] < 65536, NEW antes,
         NEW x, x = Amperios(v, getIndexLimit(v, antes, e), e, a)
  PROVE  /\ x \in Nat
         /\ v <= e[0] => x = a[0]
         /\ v >= e[4] => x = a[4]
         /\ \A i \in Indices : e[i] = v => x = a[i]
         /\ \A i \in 1 .. 4 : (e[i - 1] < v /\ v < e[i])
              => x = interpolacion(v, e[i - 1], e[i], a[i - 1], a[i])
<1> DEFINE r == getIndexLimit(v, antes, e)
<1>1. \A i \in Indices : e[i] \in Nat /\ a[i] \in Nat /\ a[i] < 65536
  OBVIOUS
<1>2. 0 \in Indices /\ 4 \in Indices
  BY DEF Indices
<1>3. ASSUME NEW i \in Indices, r = <<i, i>> PROVE x = a[i]
  <2>1. x = interpolacion(v, e[i], e[i], a[i], a[i]) % 65536
    BY <1>3 DEF Amperios
  <2>2. interpolacion(v, e[i], e[i], a[i], a[i]) = a[i]
    BY <1>1 DEF interpolacion
  <2>3. PICK n \in Nat : a[i] = n /\ n < 65536
    BY <1>1
  <2>4. n % 65536 = n
    BY <2>3, Z3
  <2> QED BY <2>1, <2>2, <2>3, <2>4
<1>4. v < e[0] => x = a[0]
  <2>1. v < e[0] => r = <<0, 0>>
    BY DEF getIndexLimit
  <2> QED BY <1>2, <1>3, <2>1
<1>5. v > e[4] => x = a[4]
  <2>1. e[0] < e[4]
    BY <1>2, OrdenEntero
  <2>2. v > e[4] => ~(v < e[0])
    BY <1>1, <1>2, <2>1
  <2>3. v > e[4] => r = <<4, 4>>
    BY <2>2 DEF getIndexLimit
  <2> QED BY <1>2, <1>3, <2>3
<1>6. ASSUME NEW i \in Indices, e[i] = v PROVE x = a[i]
  BY <1>3, <1>6, IndiceEnRegla
<1>7. ASSUME NEW i \in 1 .. 4, e[i - 1] < v, v < e[i]
      PROVE  x = interpolacion(v, e[i - 1], e[i], a[i - 1], a[i])
  <2>1. i \in Indices /\ i - 1 \in Indices
    BY DEF Indices
  <2>2. r = <<i - 1, i>>
    BY <1>7, IndicesEntreReglas
  <2> DEFINE p == interpolacion(v, e[i - 1], e[i], a[i - 1], a[i])
  <2>3. x = p % 65536
    BY <2>2 DEF Amperios
  <2>4. PICK b \in Nat, c \in Nat, d \in Nat, g \in Nat :
          e[i - 1] = b /\ e[i] = c /\ a[i - 1] = d /\ a[i] = g /\ d < 65536 /\ g < 65536
    BY <1>1, <2>1
  <2>5. b <= v /\ v <= c
    BY <1>7, <2>4
  <2>6. /\ p \in Int
        /\ (d <= p /\ p <= g) \/ (g <= p /\ p <= d)
    <3>1. p = interpolacion(v, b, c, d, g)
      BY <2>4
    <3> HIDE DEF p
    <3> QED BY ONLY v \in Nat, b \in Nat, c \in Nat, d \in Nat, g \in Nat, <2>5, <3>1,
                    InterpolacionEntre
  <2> HIDE DEF p
  <2>7. p \in Nat /\ p < 65536
    BY <2>4, <2>6
  <2>8. p % 65536 = p
    BY <2>7, Z3
  <2> QED BY <2>3, <2>8 DEF p
<1>8. v <= e[0] => x = a[0]
  <2>1. v <= e[0] => v < e[0] \/ e[0] = v
    BY <1>1, <1>2
  <2> QED BY <1>2, <1>4, <1>6, <2>1
<1>9. v >= e[4] => x = a[4]
  <2>1. v >= e[4] => v > e[4] \/ e[4] = v
    BY <1>1, <1>2
  <2> QED BY <1>2, <1>5, <1>6, <2>1
<1>10. x \in Nat
  <2>1. r \in Indices \X Indices
    BY IndicesAlrededor
  <2> QED BY RampaEntreReglas
<1> QED BY <1>6, <1>7, <1>8, <1>9, <1>10

\* A division in C is the quotient, up to one, towards zero.
LEMMA DivisionC ==
  ASSUME NEW n \in Int, NEW D \in Nat, D > 0
  PROVE  /\ DivC(n, D) \in Int
         /\ n >= 0 => D * DivC(n, D) <= n /\ n < D * DivC(n, D) + D
         /\ n < 0 => n <= D * DivC(n, D) /\ D * DivC(n, D) < n + D
<1>1. CASE n >= 0
  BY <1>1, Division DEF DivC
<1>2. CASE n < 0
  <2> DEFINE q == (-n) \div D
  <2>1. -n \in Int
    OBVIOUS
  <2>2. q \in Int /\ D * q <= -n /\ -n < D * q + D
    BY <2>1, Division
  <2>3. DivC(n, D) = -q
    BY <1>2 DEF DivC
  <2> HIDE DEF q
  <2>4. D * (-q) = -(D * q) /\ D * q \in Int
    BY <2>2, Z3
  <2>5. n <= D * (-q) /\ D * (-q) < n + D /\ -q \in Int
    BY <2>2, <2>4
  <2> QED BY <1>2, <2>3, <2>5
<1> QED BY <1>1, <1>2

\* It does not turn numbers round.
LEMMA DivisionMonotona ==
  ASSUME NEW D \in Nat, D > 0, NEW m \in Int, NEW n \in Int, m <= n
  PROVE  DivC(m, D) <= DivC(n, D)
<1>1. PICK p \in Int, q \in Int : DivC(m, D) = p /\ DivC(n, D) = q
  BY DivisionC
<1> DEFINE s == D * p
           t == D * q
<1>2. s \in Int /\ t \in Int /\ (p > q => s >= t + D) /\ (p >= 1 => s >= D)
  BY Z3
<1>3. /\ m >= 0 => s <= m
      /\ m < 0 => s < m + D
      /\ n >= 0 => n < t + D
      /\ n < 0 => n <= t
  BY <1>1, DivisionC
<1> HIDE DEF s, t
<1>4. t + D > 0 => (q >= 0)
  BY Cociente DEF t
<1>5. ASSUME p > q PROVE FALSE
  <2>1. s >= t + D
    BY <1>2, <1>5
  <2>2. CASE n < 0
    BY <1>2, <1>3, <2>1, <2>2
  <2>3. CASE m >= 0
    BY <1>2, <1>3, <2>1, <2>3
  <2>4. CASE m < 0 /\ n >= 0
    <3>1. q >= 0
      BY <1>2, <1>3, <1>4, <2>4
    <3>2. s >= D
      BY <1>2, <1>5, <3>1
    <3> QED BY <1>2, <1>3, <2>4, <3>2
  <2> QED BY <2>2, <2>3, <2>4
<1>6. p <= q
  BY <1>5
<1> QED BY <1>1, <1>6

\* How far the interpolated current is from the proportional one, in units of
\* one over the distance of the two rules.
LEMMA ErrorDeInterpolacion ==
  ASSUME NEW x \in Nat, NEW inMin \in Nat, NEW inMax \in Nat,
         NEW outMin \in Nat, NEW outMax \in Nat, inMin < inMax, inMin <= x,
         NEW r, r = interpolacion(x, inMin, inMax, outMin, outMax)
  PROVE  LET ancho == inMax - inMin
             salto == outMax - outMin
             error == ancho * (r - outMin) - (x - inMin) * salto
         IN 2 * error \in -ancho .. (IF salto >= 0 THEN ancho ELSE 3 * ancho - 1)
<1> DEFINE D == inMax - inMin
           S == outMax - outMin
           N == (x - inMin) * S
           h == D \div 2
           q == DivC(N + h, D)
<1>1. D \in Nat /\ D > 0 /\ S \in Int /\ N \in Int /\ x - inMin \in Nat
  BY Z3
<1>2. S >= 0 => N >= 0
  BY <1>1, Z3
<1>3. h \in Nat /\ 2 * h <= D /\ D <= 2 * h + 1
  BY <1>1, Z3
<1>4. q \in Int /\ r = q + outMin
  <2>1. N + h \in Int
    BY <1>1, <1>3
  <2>2. q \in Int
    BY <1>1, <2>1, DivisionC
  <2>3. D # 0
    BY <1>1
  <2> QED BY <2>2, <2>3 DEF interpolacion
<1>5. /\ N + h >= 0 => D * q <= N + h /\ N + h < D * q + D
      /\ N + h < 0 => N + h <= D * q /\ D * q < N + h + D
  <2>1. N + h \in Int
    BY <1>1, <1>3
  <2> HIDE DEF D, S, N, h
  <2> QED BY <1>1, <2>1, DivisionC
<1>6. r - outMin = q
  BY <1>4
<1> HIDE DEF D, S, N, h, q
<1>7. PICK z \in Int : D * q = z
  <2>1. D * q \in Int
    BY <1>1, <1>4
  <2> QED BY <2>1
<1>8. 2 * (z - N) \in -D .. (IF S >= 0 THEN D ELSE 3 * D - 1)
  <2>1. CASE N + h >= 0
    <3>1. z <= N + h /\ N + h < z + D
      BY <1>5, <1>7, <2>1
    <3>2. 2 * (z - N) \in Int /\ -D <= 2 * (z - N) /\ 2 * (z - N) <= D /\ D <= 3 * D - 1
      BY <1>1, <1>3, <3>1
    <3> QED BY <1>1, <3>2
  <2>2. CASE N + h < 0
    <3>1. N + h <= z /\ z < N + h + D
      BY <1>5, <1>7, <2>2
    <3>2. ~(S >= 0)
      BY <1>1, <1>2, <1>3, <2>2
    <3>3. 2 * (z - N) \in Int /\ -D <= 2 * (z - N) /\ 2 * (z - N) <= 3 * D - 1
      BY <1>1, <1>3, <3>1
    <3> QED BY <1>1, <3>2, <3>3
  <2> QED BY <1>1, <1>3, <2>1, <2>2
<1>9. D * (r - outMin) - (x - inMin) * S = z - N
  BY <1>6, <1>7 DEF N
<1>10. 2 * (D * (r - outMin) - (x - inMin) * S) \in -D .. (IF S >= 0 THEN D ELSE 3 * D - 1)
  BY <1>8, <1>9
<1> QED BY <1>10 DEF D, S

\* Where the current falls, the interpolated one falls.
LEMMA InterpolacionBaja ==
  ASSUME NEW x \in Nat, NEW y \in Nat, NEW inMin \in Nat, NEW inMax \in Nat,
         NEW outMin \in Nat, NEW outMax \in Nat, inMin < inMax, x <= y, outMax <= outMin
  PROVE  interpolacion(y, inMin, inMax, outMin, outMax)
           <= interpolacion(x, inMin, inMax, outMin, outMax)
<1> DEFINE D == inMax - inMin
           S == outMax - outMin
           h == D \div 2
           m == (y - inMin) * S + h
           n == (x - inMin) * S + h
<1>1. D \in Nat /\ D > 0
  OBVIOUS
<1>2. h \in Nat
  BY <1>1, Z3
<1>3. (y - inMin) * S <= (x - inMin) * S /\ (y - inMin) * S \in Int /\ (x - inMin) * S \in Int
  BY Z3
<1>4. m \in Int /\ n \in Int /\ m <= n
  BY <1>2, <1>3
<1>5. /\ interpolacion(y, inMin, inMax, outMin, outMax) = DivC(m, D) + outMin
      /\ interpolacion(x, inMin, inMax, outMin, outMax) = DivC(n, D) + outMin
  <2>1. D # 0
    BY <1>1
  <2> QED BY <2>1 DEF interpolacion
<1> HIDE DEF D, m, n
<1>6. DivC(m, D) <= DivC(n, D) /\ DivC(m, D) \in Int /\ DivC(n, D) \in Int
  BY <1>1, <1>4, DivisionMonotona, DivisionC
<1> QED BY <1>5, <1>6
----------------------------------------------------------------------------
\* What is asked of the current between two rules, on them too.
LEMMA ProporcionEnOrden ==
  ASSUME NEW v \in Nat, NEW e \in [Indices -> Nat], NEW a \in [Indices -> Nat], EnOrden(e),
         \A k \in Indices : a[k] < 65536, NEW antes,
         NEW x, x = Amperios(v, getIndexLimit(v, antes, e), e, a),
         NEW i \in 1 .. 4, e[i - 1] <= v, v <= e[i]
  PROVE  LET ancho == e[i] - e[i - 1]
             salto == a[i] - a[i - 1]
             error == ancho * (x - a[i - 1]) - (v - e[i - 1]) * salto
         IN 2 * error \in -ancho .. (IF salto >= 0 THEN ancho ELSE 3 * ancho - 1)
<1>1. i \in Indices /\ i - 1 \in Indices
  BY DEF Indices
<1>2. PICK b \in Nat, c \in Nat, d \in Nat, g \in Nat :
        e[i - 1] = b /\ e[i] = c /\ a[i - 1] = d /\ a[i] = g
  BY <1>1
<1>3. b < c /\ b <= v /\ v <= c
  BY <1>2 DEF EnOrden
<1>4. /\ x \in Nat
      /\ v = b => x = d
      /\ v = c => x = g
      /\ b < v /\ v < c => x = interpolacion(v, b, c, d, g)
  BY <1>1, <1>2, CorrienteEnOrden
<1> SUFFICES 2 * ((c - b) * (x - d) - (v - b) * (g - d))
               \in -(c - b) .. (IF g - d >= 0 THEN c - b ELSE 3 * (c - b) - 1)
  BY <1>2
<1>5. 0 \in -(c - b) .. (IF g - d >= 0 THEN c - b ELSE 3 * (c - b) - 1)
  BY <1>3
<1>6. CASE v = b
  <2>1. (c - b) * (x - d) - (v - b) * (g - d) = 0
    <3>1. x - d = 0 /\ v - b = 0
      BY <1>4, <1>6
    <3>2. (c - b) * 0 = 0 /\ 0 * (g - d) = 0
      BY Z3
    <3> QED BY <3>1, <3>2
  <2> QED BY <1>5, <2>1
<1>7. CASE v = c
  <2>1. (c - b) * (x - d) - (v - b) * (g - d) = 0
    <3>1. x = g
      BY <1>4, <1>7
    <3>2. (c - b) * (g - d) \in Int
      BY Z3
    <3> QED BY <1>7, <3>1, <3>2
  <2> QED BY <1>5, <2>1
<1>8. CASE b < v /\ v < c
  <2>1. x = interpolacion(v, b, c, d, g)
    BY <1>4, <1>8
  <2>2. x \in Nat /\ b < c /\ b <= v
    BY <1>3, <1>4
  <2> QED BY ONLY v \in Nat, b \in Nat, c \in Nat, d \in Nat, g \in Nat, <2>1, <2>2,
                  ErrorDeInterpolacion
<1> QED BY <1>3, <1>6, <1>7, <1>8

\* Where the current of the ordered rules falls from each to the next, that of
\* a lower value is not less than that of a higher one.
LEMMA CorrienteBaja ==
  ASSUME NEW e \in [Indices -> Nat], NEW a \in [Indices -> Nat], EnOrden(e),
         \A k \in Indices : a[k] < 65536,
         \A k \in 1 .. 4 : a[k] <= a[k - 1],
         NEW v \in Nat, NEW w \in Nat, v < w, NEW antes, NEW despues,
         NEW x, x = Amperios(v, getIndexLimit(v, antes, e), e, a),
         NEW y, y = Amperios(w, getIndexLimit(w, despues, e), e, a)
  PROVE  y <= x
<1>1. \A k \in Indices : e[k] \in Nat /\ a[k] \in Nat
  OBVIOUS
<1>2. 0 \in Indices /\ 4 \in Indices /\ \A i \in 1 .. 4 : i \in Indices /\ i - 1 \in Indices
  BY DEF Indices
<1>3. \A i, j \in Indices : i < j => e[i] < e[j]
  BY OrdenEntero
\* The currents of the rules fall with the index.
<1>4. \A i, j \in Indices : i <= j => a[j] <= a[i]
  <2>1. a[1] <= a[0] /\ a[2] <= a[1] /\ a[3] <= a[2] /\ a[4] <= a[3]
    OBVIOUS
  <2>2. a[0] \in Nat /\ a[1] \in Nat /\ a[2] \in Nat /\ a[3] \in Nat /\ a[4] \in Nat
    BY <1>1 DEF Indices
  <2>3. \A i \in Indices : i = 0 \/ i = 1 \/ i = 2 \/ i = 3 \/ i = 4
    BY DEF Indices
  <2> QED BY <2>1, <2>2, <2>3
<1>5. /\ x \in Nat /\ y \in Nat
      /\ v <= e[0] => x = a[0]
      /\ w >= e[4] => y = a[4]
      /\ \A i \in Indices : (e[i] = v => x = a[i]) /\ (e[i] = w => y = a[i])
      /\ \A i \in 1 .. 4 : (e[i - 1] < v /\ v < e[i])
           => x = interpolacion(v, e[i - 1], e[i], a[i - 1], a[i])
      /\ \A i \in 1 .. 4 : (e[i - 1] < w /\ w < e[i])
           => y = interpolacion(w, e[i - 1], e[i], a[i - 1], a[i])
  <2>1. /\ x \in Nat
        /\ v <= e[0] => x = a[0]
        /\ \A i \in Indices : e[i] = v => x = a[i]
        /\ \A i \in 1 .. 4 : (e[i - 1] < v /\ v < e[i])
             => x = interpolacion(v, e[i - 1], e[i], a[i - 1], a[i])
    BY CorrienteEnOrden
  <2>2. /\ y \in Nat
        /\ w >= e[4] => y = a[4]
        /\ \A i \in Indices : e[i] = w => y = a[i]
        /\ \A i \in 1 .. 4 : (e[i - 1] < w /\ w < e[i])
             => y = interpolacion(w, e[i - 1], e[i], a[i - 1], a[i])
    BY CorrienteEnOrden
  <2> QED BY <2>1, <2>2
\* Either lies between the currents of the rules around its value.
<1>6. \A i \in 1 .. 4 : (e[i - 1] <= v /\ v <= e[i]) => a[i] <= x /\ x <= a[i - 1]
  <2> SUFFICES ASSUME NEW i \in 1 .. 4, e[i - 1] <= v, v <= e[i]
               PROVE  a[i] <= x /\ x <= a[i - 1]
    OBVIOUS
  <2>1. PICK b \in Nat, c \in Nat, d \in Nat, g \in Nat :
          e[i - 1] = b /\ e[i] = c /\ a[i - 1] = d /\ a[i] = g
    BY <1>1, <1>2
  <2>2. g <= d /\ b <= v /\ v <= c
    BY <2>1
  <2>3. CASE v = b \/ v = c
    BY <1>2, <1>5, <2>1, <2>2, <2>3
  <2>4. CASE b < v /\ v < c
    <3>1. x = interpolacion(v, b, c, d, g)
      BY <1>5, <2>1, <2>4
    <3>2. (d <= x /\ x <= g) \/ (g <= x /\ x <= d)
      BY ONLY v \in Nat, b \in Nat, c \in Nat, d \in Nat, g \in Nat, <2>2, <3>1,
              InterpolacionEntre
    <3> QED BY <1>5, <2>1, <2>2, <3>2
  <2> QED BY <2>2, <2>3, <2>4
<1>7. \A i \in 1 .. 4 : (e[i - 1] <= w /\ w <= e[i]) => a[i] <= y /\ y <= a[i - 1]
  <2> SUFFICES ASSUME NEW i \in 1 .. 4, e[i - 1] <= w, w <= e[i]
               PROVE  a[i] <= y /\ y <= a[i - 1]
    OBVIOUS
  <2>1. PICK b \in Nat, c \in Nat, d \in Nat, g \in Nat :
          e[i - 1] = b /\ e[i] = c /\ a[i - 1] = d /\ a[i] = g
    BY <1>1, <1>2
  <2>2. g <= d /\ b <= w /\ w <= c
    BY <2>1
  <2>3. CASE w = b \/ w = c
    BY <1>2, <1>5, <2>1, <2>2, <2>3
  <2>4. CASE b < w /\ w < c
    <3>1. y = interpolacion(w, b, c, d, g)
      BY <1>5, <2>1, <2>4
    <3>2. (d <= y /\ y <= g) \/ (g <= y /\ y <= d)
      BY ONLY w \in Nat, b \in Nat, c \in Nat, d \in Nat, g \in Nat, <2>2, <3>1,
              InterpolacionEntre
    <3> QED BY <1>5, <2>1, <2>2, <3>2
  <2> QED BY <2>2, <2>3, <2>4
\* A value that is not beyond the rules lies between two of them.
<1>8. \A z \in Nat : (e[0] < z /\ z < e[4]) => \E i \in 1 .. 4 : e[i - 1] <= z /\ z <= e[i]
  <2>1. e[0] \in Nat /\ e[1] \in Nat /\ e[2] \in Nat /\ e[3] \in Nat /\ e[4] \in Nat
    BY <1>1 DEF Indices
  <2> SUFFICES ASSUME NEW z \in Nat, e[0] < z, z < e[4]
               PROVE  \E i \in 1 .. 4 : e[i - 1] <= z /\ z <= e[i]
    OBVIOUS
  <2>2. CASE z <= e[1]
    BY <2>1, <2>2
  <2>3. CASE e[1] <= z /\ z <= e[2]
    BY <2>1, <2>3
  <2>4. CASE e[2] <= z /\ z <= e[3]
    BY <2>1, <2>4
  <2>5. CASE e[3] <= z
    BY <2>1, <2>5
  <2> QED BY <2>1, <2>2, <2>3, <2>4, <2>5
\* No current is above that of the first rule or below that of the last.
<1>9. y <= a[0] /\ a[4] <= x
  <2>1. (\E k \in Indices : y <= a[k]) /\ (\E k \in Indices : a[k] <= x)
    BY RampaEntreReglas
  <2>2. PICK k \in Indices, l \in Indices : y <= a[k] /\ a[l] <= x
    BY <2>1
  <2>3. a[k] <= a[0] /\ a[4] <= a[l]
    BY <1>2, <1>4 DEF Indices
  <2>4. a[k] \in Nat /\ a[0] \in Nat /\ a[4] \in Nat /\ a[l] \in Nat
    BY <1>1, <1>2
  <2> QED BY <1>5, <2>2, <2>3, <2>4
<1>10. CASE v <= e[0]
  BY <1>5, <1>9, <1>10
<1>11. CASE w >= e[4]
  BY <1>5, <1>9, <1>11
<1>12. CASE ~(v <= e[0]) /\ ~(w >= e[4])
  <2>1. e[0] < v /\ v < e[4] /\ e[0] < w /\ w < e[4]
    BY <1>1, <1>2, <1>12
  <2>2. PICK i \in 1 .. 4 : e[i - 1] <= v /\ v <= e[i]
    BY <1>8, <2>1
  <2>3. PICK j \in 1 .. 4 : e[j - 1] <= w /\ w <= e[j]
    BY <1>8, <2>1
  <2>4. /\ a[i] <= x /\ a[j - 1] \in Nat /\ a[i] \in Nat
        /\ y <= a[j - 1]
    BY <1>1, <1>2, <1>6, <1>7, <2>2, <2>3
  <2>5. CASE i < j
    <3>1. a[j - 1] <= a[i]
      <4>1. i <= j - 1
        BY <2>5
      <4> QED BY <1>2, <1>4, <4>1
    <3> QED BY <1>5, <2>4, <3>1
  <2>6. CASE i = j
    <3>1. PICK b \in Nat, c \in Nat, d \in Nat, g \in Nat :
            e[i - 1] = b /\ e[i] = c /\ a[i - 1] = d /\ a[i] = g
      BY <1>1, <1>2
    <3>2. g <= d /\ b <= v /\ v <= c /\ b <= w /\ w <= c /\ b < c
      BY <2>2, <2>3, <2>6, <3>1 DEF EnOrden
    <3>3. g <= x /\ x <= d /\ g <= y /\ y <= d
      BY <1>6, <1>7, <2>2, <2>3, <2>6, <3>1
    <3>4. CASE v = b
      BY <1>2, <1>5, <3>1, <3>3, <3>4
    <3>5. CASE w = c
      BY <1>2, <1>5, <3>1, <3>3, <3>5
    <3>6. CASE b < v /\ w < c
      <4>1. v < c /\ b < w
        BY <3>6
      <4>2. x = interpolacion(v, b, c, d, g)
        BY <1>5, <3>1, <3>6, <4>1
      <4>3. y = interpolacion(w, b, c, d, g)
        BY <1>5, <3>1, <3>6, <4>1
      <4>4. interpolacion(w, b, c, d, g) <= interpolacion(v, b, c, d, g)
        <5>1. v <= w
          OBVIOUS
        <5> QED BY ONLY v \in Nat, w \in Nat, b \in Nat, c \in Nat, d \in Nat, g \in Nat,
                        <3>2, <5>1, InterpolacionBaja
      <4> QED BY <4>2, <4>3, <4>4
    <3> QED BY <3>2, <3>4, <3>5, <3>6
  <2>7. CASE j < i
    <3>1. w <= v
      <4>1. j = i - 1 \/ j < i - 1
        BY <2>7
      <4>2. e[j] <= e[i - 1] /\ e[j] \in Nat /\ e[i - 1] \in Nat
        BY <1>1, <1>2, <1>3, <4>1
      <4> QED BY <2>2, <2>3, <4>2
    <3> QED BY <3>1
  <2> QED BY <2>5, <2>6, <2>7
<1> QED BY <1>10, <1>11, <1>12

\* What was written is what the rules in their order give for the value.
Calculado ==
  Escrito =>
    /\ reglas \in Reglas /\ valor \in Valores
    /\ \E antes : amperios = Amperios(valor, getIndexLimit(valor, antes, Escala), Escala, Amp)

\* The rules in their order are numbers again.
LEMMA ReglasDeMenorAMayor ==
  ASSUME reglas \in Reglas
  PROVE  /\ Escala \in [Indices -> Nat] /\ Amp \in [Indices -> Nat]
         /\ \A k \in Indices : Amp[k] < 65536
<1>1. /\ Escala = reglas.escala \/ Escala = Voltea(reglas.escala)
      /\ Amp = reglas.amp \/ Amp = Voltea(reglas.amp)
  BY DEF Escala, Amp, DeMenorAMayor, Voltea
<1> QED BY <1>1, ReglasSon

\* For ordered rules the current of either ramp is the proportional one, to
\* the ampere and a half that the division of integers may cost, and where the
\* rules fall a fuller battery is not given more.
THEOREM CorrienteProporcional == Spec => []Proporcional /\ []NoSube
<1>1. Init => Calculado
  BY DEF Init, Calculado, Escrito
<1>2. Calculado /\ [Next]_vars => Calculado'
  <2> SUFFICES ASSUME Calculado, [Next]_vars PROVE Calculado'
    OBVIOUS
  <2>1. CASE RampaCarga
    <3>1. Escala' = reglas'.escala /\ Amp' = reglas'.amp
      BY <2>1 DEF RampaCarga, Escala, Amp, DeMenorAMayor
    <3>2. amperios' = Amperios(valor', getIndexLimit(valor', indice, reglas'.escala),
                               reglas'.escala, reglas'.amp)
      BY <2>1 DEF RampaCarga
    <3>3. amperios' = Amperios(valor', getIndexLimit(valor', indice, Escala'), Escala', Amp')
      BY <3>1, <3>2
    <3>4. reglas' \in Reglas /\ valor' \in Valores
      BY <2>1 DEF RampaCarga
    <3> QED BY <3>3, <3>4 DEF Calculado
  <2>2. CASE RampaDescarga
    <3>1. Escala' = Voltea(reglas'.escala) /\ Amp' = Voltea(reglas'.amp)
      BY <2>2 DEF RampaDescarga, Escala, Amp, DeMenorAMayor, Voltea
    <3>2. amperios' = Amperios(valor', getIndexLimit(valor', indice, Voltea(reglas'.escala)),
                               Voltea(reglas'.escala), Voltea(reglas'.amp))
      BY <2>2 DEF RampaDescarga
    <3>3. amperios' = Amperios(valor', getIndexLimit(valor', indice, Escala'), Escala', Amp')
      BY <3>1, <3>2
    <3>4. reglas' \in Reglas /\ valor' \in Valores
      BY <2>2 DEF RampaDescarga
    <3> QED BY <3>3, <3>4 DEF Calculado
  <2>3. CASE Sigue \/ Termina
    BY <2>3 DEF Sigue, Termina, Calculado, Escrito
  <2>4. CASE UNCHANGED vars
    BY <2>4 DEF vars, Calculado, Escrito, Escala, Amp, DeMenorAMayor
  <2> QED BY <2>1, <2>2, <2>3, <2>4 DEF Next
<1>3. Calculado => Proporcional
  <2> SUFFICES ASSUME Calculado, Escrito, Ordenadas PROVE Proporcional
    BY DEF Proporcional
  <2>1. PICK v \in Nat : valor = v
    <3>1. valor \in Valores
      BY DEF Calculado
    <3>2. valor \in Nat
      BY <3>1, ReglasCaben
    <3> QED BY <3>2
  <2>2. PICK antes : amperios = Amperios(v, getIndexLimit(v, antes, Escala), Escala, Amp)
    BY <2>1 DEF Calculado
  <2>3. /\ Escala \in [Indices -> Nat] /\ Amp \in [Indices -> Nat]
        /\ \A k \in Indices : Amp[k] < 65536
        /\ EnOrden(Escala)
    BY ReglasDeMenorAMayor DEF Calculado, Ordenadas, EnOrden
  <2>4. /\ valor <= Escala[0] => amperios = Amp[0]
        /\ valor >= Escala[4] => amperios = Amp[4]
    BY <2>1, <2>2, <2>3, CorrienteEnOrden
  <2>5. ASSUME NEW i \in 1 .. 4, Escala[i - 1] <= valor, valor <= Escala[i]
        PROVE  LET ancho == Escala[i] - Escala[i - 1]
                   salto == Amp[i] - Amp[i - 1]
                   error == ancho * (amperios - Amp[i - 1]) - (valor - Escala[i - 1]) * salto
               IN 2 * error \in -ancho .. (IF salto >= 0 THEN ancho ELSE 3 * ancho - 1)
    BY <2>1, <2>2, <2>3, <2>5, ProporcionEnOrden
  <2> QED BY <2>4, <2>5 DEF Proporcional
<1>4. Calculado => NoSube
  <2> SUFFICES ASSUME Calculado, Escrito, Ordenadas, \A i \in 1 .. 4 : Amp[i] <= Amp[i - 1],
                      NEW w \in Valores, w > valor
               PROVE  Amperios(w, getIndexLimit(w, indice, Escala), Escala, Amp) <= amperios
    BY DEF NoSube
  <2>1. PICK v \in Nat : valor = v
    <3>1. valor \in Valores
      BY DEF Calculado
    <3>2. valor \in Nat
      BY <3>1, ReglasCaben
    <3> QED BY <3>2
  <2>2. PICK antes : amperios = Amperios(v, getIndexLimit(v, antes, Escala), Escala, Amp)
    BY <2>1 DEF Calculado
  <2>3. /\ Escala \in [Indices -> Nat] /\ Amp \in [Indices -> Nat]
        /\ \A k \in Indices : Amp[k] < 65536
        /\ EnOrden(Escala)
    BY ReglasDeMenorAMayor DEF Calculado, Ordenadas, EnOrden
  <2>4. w \in Nat /\ v < w
    BY <2>1, ReglasCaben
  <2> QED BY <2>2, <2>3, <2>4, CorrienteBaja
<1> QED BY <1>1, <1>2, <1>3, <1>4, PTL DEF Spec
=============================================================================
