--------------------------- MODULE LecturaProofs ---------------------------
(***************************************************************************)
(* From the bytes of the BMS to the words of the inverter: only frames get *)
(* through the capture, the summary of the cells is that of the last       *)
(* frame, and what the inverters read is what was measured.  For any       *)
(* length and data of a frame, any number of cells, and any measures the   *)
(* words of the BMS can carry.                                             *)
(*                                                                         *)
(* The sums of TramaJk and CellFeed are recursive functions.  What is said *)
(* of them is shown from each number to the next: a set of numbers has a   *)
(* least one (MenorNatural), so the first to fail would follow one that    *)
(* does not (HastaN), and the function there is to choose exists           *)
(* (Recursiva).                                                            *)
(***************************************************************************)
EXTENDS Telemetria, CellFeed, TramaJk, FiniteSetTheorems, WellFoundedInduction, TLAPS

(* Numbers one after the other. *)

\* A set of numbers has a least one: what is below it is finite.
LEMMA MenorNatural ==
  ASSUME NEW S, S \subseteq Nat, S # {}
  PROVE  \E m \in S : \A k \in S : m <= k
<1> DEFINE R == StrictSubsetOrdering(Nat)
           T == {0 .. k : k \in S}
<1>1. T \subseteq FiniteSubsetsOf(Nat) /\ T # {}
  <2>1. \A k \in S : IsFiniteSet(0 .. k) /\ 0 .. k \in SUBSET Nat
    BY FS_Interval
  <2> QED BY <2>1 DEF FiniteSubsetsOf
<1>2. IsWellFoundedOn(R, FiniteSubsetsOf(Nat))
  BY FS_StrictSubsetOrderingWellFounded
<1>3. \E x \in T : \A y \in T : ~ (<<y, x>> \in R)
  <2> HIDE DEF R, T
  <2> QED BY <1>1, <1>2, WFMin
<1>4. PICK m \in S : \A k \in S : ~ (<<0 .. k, 0 .. m>> \in R)
  BY <1>3
<1>5. ASSUME NEW k \in S, k < m PROVE FALSE
  <2>1. 0 .. k \subseteq 0 .. m /\ 0 .. k # 0 .. m
    <3>1. k \in Nat /\ m \in Nat /\ m \in 0 .. m /\ m \notin 0 .. k
      BY <1>5
    <3> QED BY <3>1, <1>5
  <2>2. 0 .. k \in SUBSET Nat /\ 0 .. m \in SUBSET Nat
    OBVIOUS
  <2>3. <<0 .. k, 0 .. m>> \in R
    BY <2>1, <2>2 DEF StrictSubsetOrdering
  <2> QED BY <2>3, <1>4
<1> QED BY <1>5

\* A property of every number up to n is shown from each to the next.
LEMMA HastaN ==
  ASSUME NEW n \in Nat, NEW T, T \subseteq 0 .. n, 0 \in T,
         \A k \in 1 .. n : k - 1 \in T => k \in T
  PROVE  0 .. n \subseteq T
<1> SUFFICES ASSUME (0 .. n) \ T # {} PROVE FALSE
  OBVIOUS
<1>1. (0 .. n) \ T \subseteq Nat
  OBVIOUS
<1>2. PICK m \in (0 .. n) \ T : \A k \in (0 .. n) \ T : m <= k
  BY <1>1, MenorNatural
<1>3. m \in 1 .. n /\ m - 1 \in 0 .. n
  BY <1>2
<1> QED BY <1>2, <1>3

\* A series: a first member, and each of the others from the one before.
Serie(h, n, S, z, f) ==
  /\ h \in [0 .. n -> S] /\ h[0] = z
  /\ \A k \in 1 .. n : h[k] = f[k][h[k - 1]]

\* There is one, whatever the steps are.
LEMMA Recursiva ==
  ASSUME NEW n \in Nat, NEW S, NEW z \in S, NEW f, \A k \in 1 .. n : f[k] \in [S -> S]
  PROVE  \E h : Serie(h, n, S, z, f)
<1> DEFINE T == {m \in 0 .. n : \E h : Serie(h, m, S, z, f)}
<1>1. 0 \in T
  <2>1. Serie([k \in 0 .. 0 |-> z], 0, S, z, f)
    BY DEF Serie
  <2>2. \E h : Serie(h, 0, S, z, f)
    BY <2>1
  <2> QED BY <2>2
<1>2. ASSUME NEW m \in 1 .. n, m - 1 \in T PROVE m \in T
  <2>1. PICK h : Serie(h, m - 1, S, z, f)
    BY <1>2
  <2> DEFINE g == [k \in 0 .. m |-> IF k = m THEN f[m][h[m - 1]] ELSE h[k]]
  <2>2. h[m - 1] \in S
    BY <2>1 DEF Serie
  <2>3. f[m][h[m - 1]] \in S
    BY <2>2
  <2>4. \A k \in 0 .. m : g[k] \in S
    BY <2>1, <2>3 DEF Serie
  <2>5. g[0] = z
    BY <2>1 DEF Serie
  <2>6. ASSUME NEW k \in 1 .. m PROVE g[k] = f[k][g[k - 1]]
    <3>1. g[k - 1] = h[k - 1]
      OBVIOUS
    <3>2. CASE k = m
      BY <3>1, <3>2
    <3>3. CASE k # m
      <4>1. k \in 1 .. m - 1
        BY <3>3
      <4> QED BY <2>1, <3>1, <3>3, <4>1 DEF Serie
    <3> QED BY <3>2, <3>3
  <2>7. Serie(g, m, S, z, f)
    BY <2>4, <2>5, <2>6 DEF Serie
  <2>8. \E x : Serie(x, m, S, z, f)
    <3> HIDE DEF g
    <3> QED BY <2>7
  <2> QED BY <2>8
<1>3. T \subseteq 0 .. n /\ \A k \in 1 .. n : k - 1 \in T => k \in T
  BY <1>2
<1>4. n \in T
  <2> HIDE DEF T
  <2>1. 0 .. n \subseteq T
    BY <1>1, <1>3, HastaN
  <2> QED BY <2>1
<1> QED BY <1>4
----------------------------------------------------------------------------
\* The sums of the first elements of data, one after the other.
Sumas(h, data, n) ==
  /\ h \in [0 .. n -> 0 .. Modulo - 1] /\ h[0] = 0
  /\ \A k \in 1 .. n : h[k] = (h[k - 1] + data[k - 1]) % Modulo

\* SumaDe is the last of them.
LEMMA SumaDeEs ==
  ASSUME NEW n \in Nat, NEW data, \A k \in 0 .. n - 1 : data[k] \in Int
  PROVE  \E h : Sumas(h, data, n) /\ SumaDe(data, n) = h[n]
<1> DEFINE S == 0 .. Modulo - 1
           f == [k \in 1 .. n |-> [s \in S |-> (s + data[k - 1]) % Modulo]]
           Ec(h) == h = [k \in 0 .. n |-> IF k = 0 THEN 0 ELSE (h[k - 1] + data[k - 1]) % Modulo]
           hh == CHOOSE h : Ec(h)
<1>1. 0 \in S /\ f \in [1 .. n -> [S -> S]]
  <2>1. ASSUME NEW k \in 1 .. n, NEW s \in S PROVE (s + data[k - 1]) % Modulo \in S
    <3>1. s + data[k - 1] \in Int /\ Modulo \in Nat /\ Modulo > 0
      BY TramaAssumption
    <3> QED BY <3>1, Z3
  <2>2. 0 \in S
    BY TramaAssumption
  <2> QED BY <2>1, <2>2
<1>2. PICK h : Serie(h, n, S, 0, f)
  <2>1. \A k \in 1 .. n : f[k] \in [S -> S]
    BY <1>1
  <2> HIDE DEF S, f
  <2> QED BY <1>1, <2>1, Recursiva
<1>3. Ec(h)
  <2>1. \A k \in 1 .. n : h[k - 1] \in S
    BY <1>2 DEF Serie
  <2>2. \A k \in 1 .. n : f[k][h[k - 1]] = (h[k - 1] + data[k - 1]) % Modulo
    BY <2>1
  <2>3. h[0] = 0 /\ \A k \in 1 .. n : h[k] = (h[k - 1] + data[k - 1]) % Modulo
    BY <1>2, <2>2 DEF Serie
  <2> HIDE DEF f
  <2> QED BY <1>2, <2>3 DEF Serie
<1>4. Ec(hh)
  <2> HIDE DEF Ec
  <2> QED BY <1>3
<1>5. SumaDe(data, n) = hh[n]
  BY DEF SumaDe
<1> HIDE DEF hh
<1>6. hh \in [0 .. n -> S]
  <2> DEFINE T == {k \in 0 .. n : hh[k] \in S}
  <2>1. 0 \in T
    BY <1>1, <1>4
  <2>2. ASSUME NEW k \in 1 .. n, k - 1 \in T PROVE k \in T
    <3>1. hh[k] = (hh[k - 1] + data[k - 1]) % Modulo
      BY <1>4
    <3>2. hh[k - 1] + data[k - 1] \in Int /\ Modulo \in Nat /\ Modulo > 0
      BY <2>2, TramaAssumption
    <3>3. (hh[k - 1] + data[k - 1]) % Modulo \in S
      BY <3>2, Z3
    <3> QED BY <3>1, <3>3
  <2>3. 0 .. n \subseteq T
    <3> HIDE DEF T
    <3>1. T \subseteq 0 .. n
      BY DEF T
    <3> QED BY <2>1, <2>2, <3>1, HastaN
  <2> QED BY <1>4, <2>3
<1>7. Sumas(hh, data, n)
  BY <1>4, <1>6 DEF Sumas
<1> QED BY <1>5, <1>7

\* A sum looks at nothing but the elements it adds up.
LEMMA MismasSumas ==
  ASSUME NEW n \in Nat, NEW m \in Nat, NEW p \in Nat, p <= n, p <= m,
         NEW h, NEW g, NEW d, NEW e, Sumas(h, d, n), Sumas(g, e, m),
         \A k \in 0 .. p - 1 : d[k] = e[k]
  PROVE  \A k \in 0 .. p : h[k] = g[k]
<1> DEFINE T == {k \in 0 .. p : h[k] = g[k]}
<1>1. 0 \in T
  BY DEF Sumas
<1>2. ASSUME NEW k \in 1 .. p, k - 1 \in T PROVE k \in T
  <2>1. h[k] = (h[k - 1] + d[k - 1]) % Modulo /\ g[k] = (g[k - 1] + e[k - 1]) % Modulo
    BY DEF Sumas
  <2>2. d[k - 1] = e[k - 1]
    OBVIOUS
  <2> QED BY <1>2, <2>1, <2>2
<1>3. T \subseteq 0 .. p /\ \A k \in 1 .. p : k - 1 \in T => k \in T
  BY <1>2
<1>4. 0 .. p \subseteq T
  <2> HIDE DEF T
  <2> QED BY <1>1, <1>3, HastaN
<1> QED BY <1>4

\* Zeros add nothing.
LEMMA SumasConCeros ==
  ASSUME NEW n \in Nat, NEW p \in 0 .. n, NEW h, NEW d, Sumas(h, d, n),
         \A k \in p .. n - 1 : d[k] = 0
  PROVE  h[n] = h[p]
<1> DEFINE T == {k \in 0 .. n : k >= p => h[k] = h[p]}
<1>1. 0 \in T
  OBVIOUS
<1>2. ASSUME NEW k \in 1 .. n, k - 1 \in T PROVE k \in T
  <2>1. CASE k > p
    <3>1. h[k] = (h[p] + 0) % Modulo
      <4>1. k - 1 \in p .. n - 1
        BY <2>1
      <4>2. d[k - 1] = 0 /\ h[k - 1] = h[p]
        BY <1>2, <4>1
      <4>3. h[k] = (h[k - 1] + d[k - 1]) % Modulo
        BY DEF Sumas
      <4> QED BY <4>2, <4>3
    <3>2. h[p] \in 0 .. Modulo - 1
      BY DEF Sumas
    <3>3. Modulo \in Nat /\ Modulo > 0
      BY TramaAssumption
    <3>4. (h[p] + 0) % Modulo = h[p]
      BY <3>2, <3>3, Z3
    <3> QED BY <3>1, <3>4
  <2>2. CASE k <= p
    BY <2>2
  <2> QED BY <2>1, <2>2
<1>3. T \subseteq 0 .. n /\ \A k \in 1 .. n : k - 1 \in T => k \in T
  BY <1>2
<1>4. 0 .. n \subseteq T
  <2> HIDE DEF T
  <2> QED BY <1>1, <1>3, HastaN
<1> QED BY <1>4

\* What is less than the modulus is not lost in a sum.
LEMMA RestoInyectivo ==
  ASSUME NEW m \in Nat, m > 0, NEW a \in 0 .. m - 1, NEW b \in 0 .. m - 1, NEW x \in Int,
         (x + a) % m = (x + b) % m
  PROVE  a = b
<1> DEFINE q == (x + a) \div m
           r == (x + b) \div m
           u == (x + a) % m
<1>1. q \in Int /\ r \in Int /\ u \in Int /\ x + a = m * q + u /\ x + b = m * r + u
  BY Z3
<1> HIDE DEF q, r, u
<1>2. a - b = m * q - m * r
  BY <1>1, Z3
<1>3. m * q - m * r = m * (q - r)
  BY <1>1, Z3
<1>4. q = r
  <2>1. ASSUME q > r PROVE FALSE
    <3>1. m * (q - r) >= m
      BY <1>1, <2>1, Z3
    <3> QED BY <3>1, <1>2, <1>3, Z3
  <2>2. ASSUME q < r PROVE FALSE
    <3>1. m * (q - r) <= -m
      BY <1>1, <2>2, Z3
    <3> QED BY <3>1, <1>2, <1>3, Z3
  <2> QED BY <1>1, <2>1, <2>2
<1> QED BY <1>1, <1>4, Z3

\* One element that is another changes the sum.
LEMMA SumasCambiadas ==
  ASSUME NEW n \in Nat, NEW q \in 0 .. n - 1, NEW h, NEW g, NEW d, NEW e,
         Sumas(h, d, n), Sumas(g, e, n),
         d[q] \in 0 .. Modulo - 1, e[q] \in 0 .. Modulo - 1, d[q] # e[q],
         \A k \in 0 .. n - 1 : k # q => d[k] = e[k] /\ d[k] \in Int
  PROVE  h[n] # g[n]
<1> DEFINE T == {k \in 0 .. n : k > q => h[k] # g[k]}
<1>0. Modulo \in Nat /\ Modulo > 0
  BY TramaAssumption
<1>1. 0 \in T
  OBVIOUS
<1>2. \A k \in 0 .. n : h[k] \in 0 .. Modulo - 1 /\ g[k] \in 0 .. Modulo - 1
  BY DEF Sumas
<1>3. h[q] = g[q]
  <2>1. \A k \in 0 .. q - 1 : d[k] = e[k]
    OBVIOUS
  <2>2. q \in Nat /\ q <= n /\ Sumas(h, d, n) /\ Sumas(g, e, n)
    OBVIOUS
  <2>3. \A k \in 0 .. q : h[k] = g[k]
    BY ONLY n \in Nat, <2>1, <2>2, MismasSumas
  <2> QED BY <2>2, <2>3
<1>4. ASSUME NEW k \in 1 .. n, k - 1 \in T PROVE k \in T
  <2>1. h[k] = (h[k - 1] + d[k - 1]) % Modulo /\ g[k] = (g[k - 1] + e[k - 1]) % Modulo
    BY DEF Sumas
  <2>2. h[k - 1] \in 0 .. Modulo - 1 /\ g[k - 1] \in 0 .. Modulo - 1
    BY <1>2
  <2>3. CASE k - 1 < q
    BY <2>3
  <2>4. CASE k - 1 = q
    <3>1. h[k - 1] = g[k - 1] /\ d[k - 1] # e[k - 1]
      BY <1>3, <2>4
    <3>2. d[k - 1] \in 0 .. Modulo - 1 /\ e[k - 1] \in 0 .. Modulo - 1
      BY <2>4
    <3>3. ASSUME h[k] = g[k] PROVE FALSE
      <4>1. PICK x \in Int, a \in 0 .. Modulo - 1, b \in 0 .. Modulo - 1 :
              x = h[k - 1] /\ a = d[k - 1] /\ b = e[k - 1]
        BY <2>2, <3>2
      <4>2. (x + a) % Modulo = (x + b) % Modulo
        BY <2>1, <3>1, <3>3, <4>1
      <4>3. a = b
        BY <1>0, <4>2, RestoInyectivo
      <4> QED BY <3>1, <4>1, <4>3
    <3> QED BY <3>3
  <2>5. CASE k - 1 > q
    <3>1. h[k - 1] # g[k - 1]
      BY <1>4, <2>5
    <3>2. d[k - 1] = e[k - 1] /\ d[k - 1] \in Int
      BY <2>5
    <3>3. ASSUME h[k] = g[k] PROVE FALSE
      <4>1. PICK x \in Int, a \in 0 .. Modulo - 1, b \in 0 .. Modulo - 1 :
              x = d[k - 1] /\ a = h[k - 1] /\ b = g[k - 1]
        BY <2>2, <3>2
      <4>2. (x + a) % Modulo = (x + b) % Modulo
        <5>1. x + a = a + x /\ x + b = b + x
          OBVIOUS
        <5> QED BY <2>1, <3>2, <3>3, <4>1, <5>1
      <4>3. a = b
        BY <1>0, <4>2, RestoInyectivo
      <4> QED BY <3>1, <4>1, <4>3
    <3> QED BY <3>3
  <2> QED BY <2>3, <2>4, <2>5
<1>5. T \subseteq 0 .. n /\ \A k \in 1 .. n : k - 1 \in T => k \in T
  BY <1>4
<1>6. 0 .. n \subseteq T
  <2> HIDE DEF T
  <2> QED BY <1>1, <1>5, HastaN
<1>7. n > q /\ n \in 0 .. n
  OBVIOUS
<1> QED BY <1>6, <1>7

\* The same of the sum that the frame carries.
LEMMA SumaIgual ==
  ASSUME NEW n \in Nat, NEW d, NEW e,
         \A k \in 0 .. n - 1 : d[k] \in Int /\ d[k] = e[k]
  PROVE  SumaDe(d, n) = SumaDe(e, n)
<1>1. PICK h : Sumas(h, d, n) /\ SumaDe(d, n) = h[n]
  BY SumaDeEs
<1>2. PICK g : Sumas(g, e, n) /\ SumaDe(e, n) = g[n]
  BY SumaDeEs
<1>3. \A k \in 0 .. n : h[k] = g[k]
  BY <1>1, <1>2, MismasSumas
<1> QED BY <1>1, <1>2, <1>3

\* Nor does what the erased buffer has behind a frame.
LEMMA SumaConCeros ==
  ASSUME NEW n \in Nat, NEW p \in 0 .. n, NEW d,
         \A k \in 0 .. n - 1 : d[k] \in Int, \A k \in p .. n - 1 : d[k] = 0
  PROVE  SumaDe(d, n) = SumaDe(d, p)
<1>1. PICK h : Sumas(h, d, n) /\ SumaDe(d, n) = h[n]
  BY SumaDeEs
<1>2. PICK g : Sumas(g, d, p) /\ SumaDe(d, p) = g[p]
  BY SumaDeEs
<1>3. h[n] = h[p]
  BY <1>1, SumasConCeros
<1>4. \A k \in 0 .. p : h[k] = g[k]
  <2>1. p \in Nat /\ p <= n /\ p <= p /\ \A k \in 0 .. p - 1 : d[k] = d[k]
    OBVIOUS
  <2> QED BY <1>1, <1>2, <2>1, MismasSumas
<1> QED BY <1>1, <1>2, <1>3, <1>4

\* Nor does a frame with one element read wrong keep its sum.
LEMMA SumaCambiada ==
  ASSUME NEW n \in Nat, NEW q \in 0 .. n - 1, NEW d, NEW e,
         \A k \in 0 .. n - 1 : d[k] \in Int /\ (k # q => d[k] = e[k]),
         d[q] \in 0 .. Modulo - 1, e[q] \in 0 .. Modulo - 1, d[q] # e[q]
  PROVE  SumaDe(d, n) # SumaDe(e, n)
<1>1. \A k \in 0 .. n - 1 : d[k] \in Int /\ e[k] \in Int
  <2>1. ASSUME NEW k \in 0 .. n - 1 PROVE d[k] \in Int /\ e[k] \in Int
    <3>1. CASE k = q
      BY <3>1
    <3>2. CASE k # q
      BY <3>2
    <3> QED BY <3>1, <3>2
  <2> QED BY <2>1
<1>2. PICK h : Sumas(h, d, n) /\ SumaDe(d, n) = h[n]
  BY <1>1, SumaDeEs
<1>3. PICK g : Sumas(g, e, n) /\ SumaDe(e, n) = g[n]
  BY <1>1, SumaDeEs
<1>4. h[n] # g[n]
  BY <1>2, <1>3, SumasCambiadas
<1> QED BY <1>2, <1>3, <1>4
----------------------------------------------------------------------------
\* The erased buffer after a read.
Lleno(l) == [k \in 0 .. Tam - 1 |-> IF k < Len(l) THEN l[k + 1] ELSE 0]

\* A whole frame, element by element.
LEMMA TramaEs ==
  ASSUME NEW c \in Cargas, NEW t, t = Trama(c)
  PROVE  /\ t \in Seq(Int) /\ Len(t) = Largo + 4
         /\ t[1] = Marca /\ t[2] = LargoTrama /\ \A j \in 1 .. Largo : t[j + 2] = c[j]
         /\ t[Largo + 3] = 0 /\ t[Largo + 4] = SumaDe(Lleno(t), Largo + 2)
<1> DEFINE cab == <<Marca, LargoTrama>> \o c
           z == SumaDe(DesdeCero(cab), Largo + 2)
<1>0. Largo \in Nat /\ Largo >= 2 /\ \A j \in 1 .. Largo : c[j] \in Int
  <2>1. Largo \in Nat /\ Largo >= 2
    BY TramaAssumption
  <2>2. \A d \in Datos : d \in Nat
    BY TramaAssumption
  <2>3. \A j \in 1 .. Largo : c[j] \in Datos
    BY DEF Cargas
  <2> QED BY <2>1, <2>2, <2>3
<1>1. c \in Seq(Int) /\ Len(c) = Largo
  BY <1>0 DEF Cargas
<1>2. /\ cab \in Seq(Int) /\ Len(cab) = Largo + 2 /\ cab[1] = Marca /\ cab[2] = LargoTrama
      /\ \A j \in 1 .. Largo : cab[j + 2] = c[j]
  BY <1>0, <1>1 DEF Marca, LargoTrama
<1>3. \A k \in 0 .. Largo + 1 : DesdeCero(cab)[k] = cab[k + 1] /\ cab[k + 1] \in Int
  <2> HIDE DEF cab
  <2>1. \A k \in 0 .. Largo + 1 : k \in 0 .. Len(cab) - 1 /\ k + 1 \in 1 .. Len(cab)
    BY <1>0, <1>2
  <2>2. \A k \in 1 .. Len(cab) : cab[k] \in Int
    BY <1>2
  <2> QED BY <2>1, <2>2 DEF DesdeCero
<1>4. z \in Int
  <2>1. PICK h : Sumas(h, DesdeCero(cab), Largo + 2) /\ z = h[Largo + 2]
    <3> HIDE DEF cab
    <3>1. Largo + 2 \in Nat /\ \A k \in 0 .. (Largo + 2) - 1 : DesdeCero(cab)[k] \in Int
      <4>1. (Largo + 2) - 1 = Largo + 1
        BY <1>0
      <4>2. \A k \in 0 .. Largo + 1 : DesdeCero(cab)[k] \in Int
        BY <1>3
      <4> QED BY <1>0, <4>1, <4>2
    <3> QED BY <3>1, SumaDeEs
  <2>2. h[Largo + 2] \in 0 .. Modulo - 1
    BY <1>0, <2>1 DEF Sumas
  <2> QED BY <2>1, <2>2
<1>5. t = cab \o <<0, z>>
  BY <1>2 DEF Trama, ConSuma
<1> HIDE DEF z
<1>6. /\ t \in Seq(Int) /\ Len(t) = Largo + 4
      /\ t[Largo + 3] = 0 /\ t[Largo + 4] = z
      /\ \A k \in 1 .. Largo + 2 : t[k] = cab[k]
  <2> HIDE DEF cab
  <2> QED BY <1>0, <1>2, <1>4, <1>5
<1>7. z = SumaDe(Lleno(t), Largo + 2)
  <2> HIDE DEF cab
  <2>1. ASSUME NEW k \in 0 .. (Largo + 2) - 1
        PROVE  Lleno(t)[k] = DesdeCero(cab)[k] /\ Lleno(t)[k] \in Int
    <3>1. k \in 0 .. Largo + 1 /\ k \in 0 .. Tam - 1 /\ k < Len(t) /\ k + 1 \in 1 .. Largo + 2
      BY <1>0, <1>6 DEF Tam, LargoTrama
    <3>2. Lleno(t)[k] = t[k + 1]
      BY <3>1 DEF Lleno
    <3>3. DesdeCero(cab)[k] = cab[k + 1] /\ cab[k + 1] \in Int
      BY <1>3, <3>1
    <3> QED BY <1>6, <3>1, <3>2, <3>3
  <2>2. Largo + 2 \in Nat
    BY <1>0
  <2> QED BY <2>1, <2>2, SumaIgual DEF z
<1>8. t[1] = Marca /\ t[2] = LargoTrama /\ \A j \in 1 .. Largo : t[j + 2] = c[j]
  <2> HIDE DEF cab
  <2>1. 1 \in 1 .. Largo + 2 /\ 2 \in 1 .. Largo + 2 /\ \A j \in 1 .. Largo : j + 2 \in 1 .. Largo + 2
    BY <1>0
  <2> QED BY <1>2, <1>6, <2>1
<1> QED BY <1>6, <1>7, <1>8

\* The answer to a write.
LEMMA CortaEs ==
  ASSUME NEW t \in Cortas
  PROVE  t \in Seq(Int) /\ Len(t) = 5 /\ t[2] = LargoCorto
<1>1. PICK d \in Datos : t = ConSuma(<<Marca, LargoCorto, d>>)
  BY DEF Cortas
<1> DEFINE s == <<Marca, LargoCorto, d>>
           z == SumaDe(DesdeCero(s), 3)
<1>2. s \in Seq(Int) /\ Len(s) = 3 /\ s[1] \in Int /\ s[2] = LargoCorto /\ s[3] \in Int
  <2>1. d \in Int
    BY TramaAssumption
  <2> QED BY <2>1 DEF Marca, LargoCorto
<1>3. z \in Int
  <2>1. PICK h : Sumas(h, DesdeCero(s), 3) /\ z = h[3]
    <3> HIDE DEF s
    <3>1. \A k \in 0 .. 3 - 1 : DesdeCero(s)[k] \in Int
      BY <1>2 DEF DesdeCero
    <3> QED BY <3>1, SumaDeEs
  <2> QED BY <2>1 DEF Sumas
<1>4. t = s \o <<0, z>>
  BY <1>1, <1>2 DEF ConSuma
<1> HIDE DEF z
<1> QED BY <1>2, <1>3, <1>4
----------------------------------------------------------------------------
\* Every way a read may come, with what was sent.
Corrida(x) == <<0>> \o Trama(x)
Extranas == Cortas \cup {Corrida(x) : x \in Cargas}
Enteras(e) == {Trama(e) \o r : r \in {<<>>, <<Marca>>}}
Alteradas(e) == {Altera(Trama(e), k, x) : k \in 3 .. Largo + 4, x \in Datos}

Llegada(l, c, e) ==
  \/ c = "otra" /\ l \in Extranas
  \/ c = "entera" /\ e \in Cargas /\ l \in Enteras(e)
  \/ /\ c = "rota" /\ e \in Cargas /\ l # Trama(e)
     /\ l \in Recorta(Trama(e)) \cup Alteradas(e)

Pasa(b, n) == JK_bms_check_header(b) /\ JK_Battery_485_Check_Frame_CRC(b, n)

\* The index of the sum is beyond the data and within the buffer.
LEMMA Longitudes ==
  /\ Largo \in Nat /\ Largo >= 2 /\ LargoTrama = Largo + 3 /\ Tam = Largo + 5
  /\ LargoTrama > LargoCorto /\ LargoTrama - 1 = Largo + 2
  /\ \A d \in Datos : d \in Int /\ d \in 0 .. Modulo - 1
<1>1. Largo \in Nat /\ Largo >= 2 /\ Modulo \in Nat /\ Modulo > 0
  BY TramaAssumption
<1>2. \A d \in Datos : d \in Nat /\ d < Modulo
  BY TramaAssumption
<1> QED BY <1>1, <1>2 DEF LargoTrama, Tam, LargoCorto

\* A frame that came whole passes both checks, and its data are where the
\* parser looks for them.
LEMMA EnteraPasa ==
  ASSUME NEW e \in Cargas, NEW r, r \in {<<>>, <<Marca>>}, NEW l, l = Trama(e) \o r
  PROVE  Pasa(Lleno(l), Len(l)) /\ DatosDe(Lleno(l)) = e
<1> DEFINE t == Trama(e)
           b == Lleno(l)
<1>1. /\ t \in Seq(Int) /\ Len(t) = Largo + 4
      /\ t[1] = Marca /\ t[2] = LargoTrama /\ \A j \in 1 .. Largo : t[j + 2] = e[j]
      /\ t[Largo + 3] = 0 /\ t[Largo + 4] = SumaDe(Lleno(t), Largo + 2)
  BY TramaEs
<1>2. l = t \o r /\ r \in Seq(Int)
  <2>1. <<>> \in Seq(Int) /\ <<Marca>> \in Seq(Int)
    BY DEF Marca
  <2> QED BY <2>1
<1> HIDE DEF t
<1>3. Len(l) >= Largo + 4 /\ Len(l) \in Nat /\ \A k \in 1 .. Largo + 4 : l[k] = t[k]
  BY <1>1, <1>2, Longitudes
<1>4. \A k \in 0 .. Largo + 3 : b[k] = t[k + 1] /\ Lleno(t)[k] = t[k + 1] /\ t[k + 1] \in Int
  <2>1. ASSUME NEW k \in 0 .. Largo + 3
        PROVE  b[k] = t[k + 1] /\ Lleno(t)[k] = t[k + 1] /\ t[k + 1] \in Int
    <3>1. k \in 0 .. Tam - 1 /\ k < Len(l) /\ k < Len(t) /\ k + 1 \in 1 .. Largo + 4
      BY <1>1, <1>3, Longitudes
    <3> QED BY <1>1, <1>3, <3>1 DEF Lleno
  <2> QED BY <2>1
<1> HIDE DEF b
<1>5. b[0] = Marca /\ b[1] = LargoTrama /\ b[LargoTrama] = t[Largo + 4]
  BY <1>1, <1>4, Longitudes
<1>6. SumaDe(b, LargoTrama - 1) = t[Largo + 4]
  <2>1. \A k \in 0 .. (Largo + 2) - 1 : b[k] \in Int /\ b[k] = Lleno(t)[k]
    BY <1>4, Longitudes
  <2>2. Largo + 2 \in Nat
    BY Longitudes
  <2>3. SumaDe(b, Largo + 2) = SumaDe(Lleno(t), Largo + 2)
    BY <2>1, <2>2, SumaIgual
  <2> QED BY <1>1, <2>3, Longitudes
<1>7. Pasa(b, Len(l))
  BY <1>3, <1>5, <1>6, Longitudes DEF Pasa, JK_bms_check_header, JK_Battery_485_Check_Frame_CRC, LargoCorto
<1>8. DatosDe(b) = e
  <2>1. \A k \in 1 .. Largo : b[k + 1] = e[k]
    BY <1>1, <1>4, Longitudes
  <2> QED BY <2>1 DEF DatosDe, Cargas
<1> QED BY <1>7, <1>8 DEF b

\* What is no frame does not pass the header.
LEMMA OtraNoPasa ==
  ASSUME NEW l, l \in Extranas, NEW n
  PROVE  ~ Pasa(Lleno(l), n)
<1>1. CASE l \in Cortas
  <2>1. Len(l) = 5 /\ l[2] = LargoCorto
    BY <1>1, CortaEs
  <2>2. Lleno(l)[1] = LargoCorto
    BY <2>1, Longitudes DEF Lleno
  <2> QED BY <2>2 DEF Pasa, JK_bms_check_header, LargoCorto
<1>2. ASSUME NEW x \in Cargas, l = Corrida(x) PROVE ~ Pasa(Lleno(l), n)
  <2>1. Trama(x) \in Seq(Int)
    BY TramaEs
  <2>2. l[1] = 0 /\ Len(l) \in Nat /\ Len(l) >= 1
    BY <1>2, <2>1 DEF Corrida
  <2>3. Lleno(l)[0] = 0
    BY <2>2, Longitudes DEF Lleno
  <2> QED BY <2>3 DEF Pasa, JK_bms_check_header, Marca
<1> QED BY <1>1, <1>2 DEF Extranas

\* A frame cut short passes only with a sum of zero.
LEMMA CortadaPasa ==
  ASSUME NEW e \in Cargas, NEW l \in Recorta(Trama(e)), Pasa(Lleno(l), Len(l))
  PROVE  /\ Len(l) <= LargoTrama /\ SumaDe(Lleno(l), Len(l)) = 0
         /\ DatosDe(Lleno(l)) \in Cargas
<1> DEFINE t == Trama(e)
           b == Lleno(l)
<1>1. /\ t \in Seq(Int) /\ Len(t) = Largo + 4
      /\ t[1] = Marca /\ t[2] = LargoTrama /\ \A k \in 1 .. Largo : t[k + 2] = e[k]
      /\ t[Largo + 3] = 0
  BY TramaEs
<1>2. PICK j \in 1 .. Largo + 3 : l = SubSeq(t, 1, j)
  <2>1. PICK j \in 1 .. Len(t) - 1 : l = SubSeq(t, 1, j)
    BY DEF Recorta
  <2>2. j \in 1 .. Largo + 3
    BY <1>1, <2>1, Longitudes
  <2> QED BY <2>1, <2>2
<1> HIDE DEF t
<1>3. Len(l) = j /\ \A k \in 1 .. j : l[k] = t[k] /\ l[k] \in Int
  BY <1>1, <1>2, Longitudes
<1>4. /\ \A k \in 0 .. Largo + 4 : k < j => b[k] = t[k + 1]
      /\ \A k \in 0 .. Largo + 4 : k >= j => b[k] = 0
      /\ \A k \in 0 .. Largo + 4 : b[k] \in Int
  <2>1. ASSUME NEW k \in 0 .. Largo + 4
        PROVE  (k < j => b[k] = t[k + 1]) /\ (k >= j => b[k] = 0) /\ b[k] \in Int
    <3>1. k \in 0 .. Tam - 1 /\ (k < j => k + 1 \in 1 .. j)
      BY <1>2, Longitudes
    <3> QED BY <1>3, <3>1 DEF Lleno
  <2> QED BY <2>1
<1>5. j >= 5
  BY <1>3 DEF Pasa, JK_Battery_485_Check_Frame_CRC, LargoCorto
<1> HIDE DEF b
<1>6. b[1] = LargoTrama /\ b[LargoTrama] = 0
  BY <1>1, <1>2, <1>4, <1>5, Longitudes
<1>7. SumaDe(b, Largo + 2) = 0
  <2>1. b[b[1]] = SumaDe(b, b[1] - 1)
    BY DEF Pasa, JK_Battery_485_Check_Frame_CRC, b
  <2> QED BY <1>6, <2>1, Longitudes
<1>8. SumaDe(b, j) = 0
  <2>1. CASE j <= Largo + 2
    <3>1. j \in 0 .. Largo + 2 /\ Largo + 2 \in Nat
      BY <1>2, <2>1, Longitudes
    <3>2. \A k \in 0 .. (Largo + 2) - 1 : b[k] \in Int
      BY <1>4, Longitudes
    <3>3. \A k \in j .. (Largo + 2) - 1 : b[k] = 0
      BY <1>2, <1>4, Longitudes
    <3>4. SumaDe(b, Largo + 2) = SumaDe(b, j)
      BY <3>1, <3>2, <3>3, SumaConCeros
    <3> QED BY <1>7, <3>4
  <2>2. CASE j = Largo + 3
    <3>1. b[Largo + 2] = 0
      BY <1>1, <1>4, <2>2, Longitudes
    <3>2. Largo + 2 \in 0 .. Largo + 3 /\ Largo + 3 \in Nat
      BY Longitudes
    <3>3. \A k \in 0 .. (Largo + 3) - 1 : b[k] \in Int
      BY <1>4, Longitudes
    <3>4. \A k \in Largo + 2 .. (Largo + 3) - 1 : b[k] = 0
      BY <3>1, Longitudes
    <3>5. SumaDe(b, Largo + 3) = SumaDe(b, Largo + 2)
      BY <3>2, <3>3, <3>4, SumaConCeros
    <3> QED BY <1>7, <2>2, <3>5
  <2> QED BY <1>2, <2>1, <2>2, Longitudes
<1>9. DatosDe(b) \in Cargas
  <2>1. ASSUME NEW k \in 1 .. Largo PROVE b[k + 1] \in Datos
    <3>1. k + 1 \in 0 .. Largo + 4 /\ (k + 1) + 1 = k + 2
      BY Longitudes
    <3>2. e[k] \in Datos /\ 0 \in Datos
      BY TramaAssumption DEF Cargas
    <3>3. CASE k + 1 < j
      BY <1>1, <1>4, <3>1, <3>2, <3>3
    <3>4. CASE k + 1 >= j
      BY <1>4, <3>1, <3>2, <3>4
    <3> QED BY <1>2, <3>1, <3>3, <3>4
  <2> QED BY <2>1 DEF DatosDe, Cargas
<1> QED BY <1>2, <1>3, <1>8, <1>9, Longitudes DEF b

\* A frame with an element read wrong passes only if it was the filling.
LEMMA AlteradaPasa ==
  ASSUME NEW e \in Cargas, NEW k \in 3 .. Largo + 4, NEW x \in Datos,
         NEW l, l = Altera(Trama(e), k, x), l # Trama(e), Pasa(Lleno(l), Len(l))
  PROVE  DatosDe(Lleno(l)) = e
<1> DEFINE t == Trama(e)
           b == Lleno(l)
<1>1. /\ t \in Seq(Int) /\ Len(t) = Largo + 4
      /\ t[1] = Marca /\ t[2] = LargoTrama /\ \A j \in 1 .. Largo : t[j + 2] = e[j]
      /\ t[Largo + 3] = 0 /\ t[Largo + 4] = SumaDe(Lleno(t), Largo + 2)
  BY TramaEs
<1>2. l = [t EXCEPT ![k] = x]
  BY DEF Altera
<1>3. t # l
  OBVIOUS
<1> HIDE DEF t
<1>4. k \in 1 .. Len(t) /\ x \in Int
  BY <1>1, Longitudes
<1>5. /\ Len(l) = Largo + 4 /\ l[k] = x /\ x # t[k]
      /\ \A j \in 1 .. Largo + 4 : j # k => l[j] = t[j]
      /\ \A j \in 1 .. Largo + 4 : l[j] \in Int /\ t[j] \in Int
  BY <1>1, <1>2, <1>3, <1>4, Longitudes
<1>6. \A j \in 0 .. Largo + 3 : b[j] = l[j + 1] /\ Lleno(t)[j] = t[j + 1]
  <2>1. ASSUME NEW j \in 0 .. Largo + 3 PROVE b[j] = l[j + 1] /\ Lleno(t)[j] = t[j + 1]
    <3>1. j \in 0 .. Tam - 1 /\ j < Len(l) /\ j < Len(t)
      BY <1>1, <1>5, Longitudes
    <3> QED BY <3>1 DEF Lleno
  <2> QED BY <2>1
<1> HIDE DEF b
<1>7. b[1] = LargoTrama /\ b[LargoTrama] = l[Largo + 4]
  BY <1>1, <1>5, <1>6, Longitudes
<1>8. l[Largo + 4] = SumaDe(b, Largo + 2)
  <2>1. b[b[1]] = SumaDe(b, b[1] - 1)
    BY DEF Pasa, JK_Battery_485_Check_Frame_CRC, b
  <2> QED BY <1>7, <2>1, Longitudes
<1>9. k # Largo + 4
  <2>1. ASSUME k = Largo + 4 PROVE FALSE
    <3>1. ASSUME NEW j \in 0 .. (Largo + 2) - 1
          PROVE  Lleno(t)[j] \in Int /\ Lleno(t)[j] = b[j]
      <4>1. j \in 0 .. Largo + 3 /\ j + 1 \in 1 .. Largo + 4 /\ j + 1 # k
        BY <2>1, Longitudes
      <4> QED BY <1>5, <1>6, <4>1
    <3>2. SumaDe(Lleno(t), Largo + 2) = SumaDe(b, Largo + 2)
      <4>1. Largo + 2 \in Nat
        BY Longitudes
      <4> QED BY <3>1, <4>1, SumaIgual
    <3> QED BY <1>1, <1>5, <1>8, <2>1, <3>2
  <2> QED BY <2>1
<1>10. k \notin 3 .. Largo + 2
  <2>1. ASSUME k \in 3 .. Largo + 2 PROVE FALSE
    <3> DEFINE n == Largo + 2
               q == k - 1
    <3>1. l[Largo + 4] = t[Largo + 4]
      BY <1>5, <2>1, Longitudes
    <3>2. n \in Nat /\ q \in 0 .. n - 1
      BY <2>1, Longitudes
    <3> HIDE DEF n
    <3>9. n = Largo + 2
      BY DEF n
    <3>3. ASSUME NEW j \in 0 .. n - 1, j # q PROVE b[j] = Lleno(t)[j]
      <4>1. j \in 0 .. Largo + 3 /\ j + 1 \in 1 .. Largo + 4 /\ j + 1 # k
        BY <3>3, <3>9, Longitudes
      <4> QED BY <1>5, <1>6, <4>1
    <3>4. b[q] = x /\ Lleno(t)[q] = t[k] /\ b[q] # Lleno(t)[q]
      <4>1. q \in 0 .. Largo + 3 /\ q + 1 = k
        BY <2>1, Longitudes
      <4> QED BY <1>5, <1>6, <4>1
    <3>5. t[k] \in 0 .. Modulo - 1 /\ x \in 0 .. Modulo - 1
      <4>1. k - 2 \in 1 .. Largo /\ (k - 2) + 2 = k
        BY <2>1, Longitudes
      <4>2. t[k] = e[k - 2]
        BY <1>1, <4>1
      <4>3. e[k - 2] \in Datos
        BY <4>1 DEF Cargas
      <4> QED BY <4>2, <4>3, Longitudes
    <3>6. \A j \in 0 .. n - 1 : b[j] \in Int
      <4>1. \A j \in 0 .. n - 1 : j \in 0 .. Largo + 3 /\ j + 1 \in 1 .. Largo + 4
        BY <3>9, Longitudes
      <4> QED BY <1>5, <1>6, <4>1
    <3>7. SumaDe(b, n) # SumaDe(Lleno(t), n)
      <4> HIDE DEF q
      <4> QED BY <3>2, <3>3, <3>4, <3>5, <3>6, SumaCambiada
    <3> QED BY <1>1, <1>8, <3>1, <3>7, <3>9
  <2> QED BY <2>1
<1>11. ASSUME NEW j \in 1 .. Largo PROVE b[j + 1] = e[j]
  <2>1. k = Largo + 3
    BY <1>9, <1>10, Longitudes
  <2>2. j + 1 \in 0 .. Largo + 3 /\ (j + 1) + 1 = j + 2 /\ j + 2 \in 1 .. Largo + 4 /\ j + 2 # k
    BY <2>1, Longitudes
  <2> QED BY <1>1, <1>5, <1>6, <2>2
<1> QED BY <1>11 DEF DatosDe, Cargas, b

\* What passes of all that may come.
LEMMA SoloPasa ==
  ASSUME NEW l, NEW c, NEW e, Llegada(l, c, e)
  PROVE  /\ Pasa(Lleno(l), Len(l)) =>
              /\ c # "otra"
              /\ e = DatosDe(Lleno(l))
                   \/ (Len(l) <= LargoTrama /\ SumaDe(Lleno(l), Len(l)) = 0)
              /\ DatosDe(Lleno(l)) \in Cargas
         /\ c = "entera" => Pasa(Lleno(l), Len(l))
<1>1. CASE c = "otra" /\ l \in Extranas
  BY <1>1, OtraNoPasa
<1>2. CASE c = "entera" /\ e \in Cargas /\ l \in Enteras(e)
  BY <1>2, EnteraPasa DEF Enteras
<1>3. CASE c = "rota" /\ e \in Cargas /\ l \in Recorta(Trama(e))
  BY <1>3, CortadaPasa
<1>4. CASE c = "rota" /\ e \in Cargas /\ l # Trama(e) /\ l \in Alteradas(e)
  BY <1>4, AlteradaPasa DEF Alteradas
<1> QED BY <1>1, <1>2, <1>3, <1>4 DEF Llegada

\* What may come is a sequence that fits the buffer.
LEMMA LlegadaCabe ==
  ASSUME NEW l, NEW c, NEW e, Llegada(l, c, e)
  PROVE  l \in Seq(Int) /\ Len(l) \in 0 .. Tam
<1>0. \A x \in Cargas : Trama(x) \in Seq(Int) /\ Len(Trama(x)) = Largo + 4
  BY TramaEs
<1>1. CASE l \in Cortas
  <2>1. l \in Seq(Int) /\ Len(l) = 5
    BY <1>1, CortaEs
  <2> QED BY <2>1, Longitudes
<1>2. ASSUME NEW x \in Cargas, l = Corrida(x) PROVE l \in Seq(Int) /\ Len(l) \in 0 .. Tam
  <2>1. <<0>> \in Seq(Int) /\ Len(<<0>>) = 1
    OBVIOUS
  <2> QED BY <1>0, <1>2, <2>1, Longitudes DEF Corrida
<1>3. ASSUME e \in Cargas, NEW r \in {<<>>, <<Marca>>}, l = Trama(e) \o r
      PROVE  l \in Seq(Int) /\ Len(l) \in 0 .. Tam
  <2>1. r \in Seq(Int) /\ Len(r) \in 0 .. 1
    <3>1. <<>> \in Seq(Int) /\ Len(<<>>) = 0
      OBVIOUS
    <3>2. <<Marca>> \in Seq(Int) /\ Len(<<Marca>>) = 1
      BY DEF Marca
    <3>3. CASE r = <<>>
      BY <3>1, <3>3
    <3>4. CASE r = <<Marca>>
      BY <3>2, <3>4
    <3> QED BY <3>3, <3>4
  <2>2. PICK t \in Seq(Int) : t = Trama(e) /\ Len(t) = Largo + 4
    BY <1>0, <1>3
  <2>3. l = t \o r
    BY <1>3, <2>2
  <2>4. l \in Seq(Int) /\ Len(l) = (Largo + 4) + Len(r)
    BY <2>1, <2>2, <2>3
  <2>5. Largo \in Nat /\ Tam = Largo + 5
    BY Longitudes
  <2>6. PICK n \in 0 .. 1 : Len(r) = n
    BY <2>1
  <2>7. Len(l) = (Largo + 4) + n
    BY <2>4, <2>6
  <2> QED BY <2>4, <2>5, <2>7
<1>4. ASSUME e \in Cargas, l \in Recorta(Trama(e)) PROVE l \in Seq(Int) /\ Len(l) \in 0 .. Tam
  <2>1. PICK k \in 1 .. Len(Trama(e)) - 1 : l = SubSeq(Trama(e), 1, k)
    BY <1>4 DEF Recorta
  <2> QED BY <1>0, <1>4, <2>1, Longitudes
<1>5. ASSUME e \in Cargas, NEW k \in 3 .. Largo + 4, NEW x \in Datos, l = Altera(Trama(e), k, x)
      PROVE  l \in Seq(Int) /\ Len(l) \in 0 .. Tam
  BY <1>0, <1>5, Longitudes DEF Altera
<1> QED BY <1>1, <1>2, <1>3, <1>4, <1>5 DEF Llegada, Extranas, Enteras, Alteradas
----------------------------------------------------------------------------
\* What is in the line came in one of those ways, and what is in the buffer
\* too, over nothing but zeros.
CapturaInv ==
  /\ pc \in {"lee", "mira"}
  /\ cola \in Seq(Cargas) /\ Len(cola) <= CapCola
  /\ pc = "lee" => bufer = Borrado /\ leidos = 0
  /\ linea # <<>> => pc = "lee" /\ Llegada(linea, como, enviada)
  /\ pc = "mira" =>
       /\ linea = <<>>
       /\ \E l : Llegada(l, como, enviada) /\ leidos = Len(l) /\ bufer = Lleno(l)

\* So what the capture task finds good is what the properties say.
LEMMA CapturaBuena ==
  ASSUME CapturaInv, pc = "mira"
  PROVE  /\ Buena => /\ como # "otra"
                     /\ enviada = DatosDe(bufer) \/ SumaCero
                     /\ DatosDe(bufer) \in Cargas
         /\ como = "entera" => Buena
<1>1. PICK l : Llegada(l, como, enviada) /\ leidos = Len(l) /\ bufer = Lleno(l)
  BY DEF CapturaInv
<1>2. Buena <=> Pasa(Lleno(l), Len(l))
  BY <1>1 DEF Buena, Pasa
<1>3. SumaCero <=> Len(l) <= LargoTrama /\ SumaDe(Lleno(l), Len(l)) = 0
  BY <1>1 DEF SumaCero
<1> QED BY <1>1, <1>2, <1>3, SoloPasa

\* At first nothing came.
LEMMA CapturaInvInicial == CapturaInit => CapturaInv
BY TramaAssumption DEF CapturaInit, CapturaInv

\* Each step keeps it: what a turn leaves in the buffer is erased before the
\* next read, whichever way the turn ends.
LEMMA CapturaInvPaso == CapturaInv /\ [CapturaNext]_capturaVars => CapturaInv'
<1> SUFFICES ASSUME CapturaInv, [CapturaNext]_capturaVars PROVE CapturaInv'
  OBVIOUS
<1> USE DEF CapturaInv
<1>1. CASE LlegaEntera
  <2>1. enviada' \in Cargas /\ linea' \in Enteras(enviada')
    BY <1>1 DEF LlegaEntera, Enteras
  <2>2. Llegada(linea', como', enviada')
    BY <1>1, <2>1 DEF LlegaEntera, Llegada
  <2> QED BY <1>1, <2>2 DEF LlegaEntera, LineaLibre
<1>2. CASE LlegaRota
  <2>1. /\ enviada' \in Cargas /\ linea' # Trama(enviada')
        /\ linea' \in Recorta(Trama(enviada')) \cup Alteradas(enviada')
    BY <1>2 DEF LlegaRota, Alteradas
  <2>2. Llegada(linea', como', enviada')
    BY <1>2, <2>1 DEF LlegaRota, Llegada
  <2> QED BY <1>2, <2>2 DEF LlegaRota, LineaLibre
<1>3. CASE LlegaOtra
  <2>1. linea' \in Extranas
    BY <1>3 DEF LlegaOtra, Extranas, Corrida
  <2>2. Llegada(linea', como', enviada')
    BY <1>3, <2>1 DEF LlegaOtra, Llegada
  <2> QED BY <1>3, <2>2 DEF LlegaOtra, LineaLibre
<1>4. CASE Captura
  <2>1. /\ linea # <<>> /\ pc = "lee" /\ pc' = "mira" /\ leidos' = Len(linea)
        /\ linea' = <<>> /\ cola' = cola /\ enviada' = enviada /\ como' = como
        /\ bufer' = [k \in 0 .. Tam - 1 |-> IF k < Len(linea) THEN linea[k + 1] ELSE bufer[k]]
    BY <1>4 DEF Captura
  <2>2. bufer = Borrado /\ Llegada(linea, como, enviada)
    BY <2>1
  <2>3. bufer' = Lleno(linea)
    BY <2>1, <2>2 DEF Lleno, Borrado
  <2>4. (\E l : Llegada(l, como, enviada) /\ leidos = Len(l) /\ bufer = Lleno(l))'
    BY <2>1, <2>2, <2>3
  <2> QED BY <2>1, <2>4
<1>5. CASE Descarta
  BY <1>5 DEF Descarta, Borra, Olvida
<1>6. CASE Encola
  <2>1. DatosDe(bufer) \in Cargas /\ linea = <<>>
    BY <1>6, CapturaBuena DEF Encola
  <2>2. cola' \in Seq(Cargas) /\ Len(cola') <= CapCola
    <3>1. cola' = Append(cola, DatosDe(bufer)) /\ Len(cola) < CapCola
      BY <1>6 DEF Encola
    <3> QED BY <2>1, <3>1, TramaAssumption
  <2> QED BY <1>6, <2>1, <2>2 DEF Encola, Borra, Olvida
<1>7. CASE ColaLlena
  BY <1>7 DEF ColaLlena, Borra, Olvida
<1>8. CASE Recoge
  <2>1. cola' \in Seq(Cargas) /\ Len(cola') <= CapCola
    BY <1>8, TramaAssumption DEF Recoge
  <2>2. /\ pc' = pc /\ linea' = linea /\ bufer' = bufer /\ leidos' = leidos
        /\ enviada' = enviada /\ como' = como
    BY <1>8 DEF Recoge
  <2> QED BY <2>1, <2>2
<1>9. CASE UNCHANGED capturaVars
  BY <1>9 DEF capturaVars
<1> QED BY <1>1, <1>2, <1>3, <1>4, <1>5, <1>6, <1>7, <1>8, <1>9 DEF CapturaNext

\* So it always holds.
LEMMA CapturaInvSiempre == CapturaSpec => []CapturaInv
BY CapturaInvInicial, CapturaInvPaso, PTL DEF CapturaSpec

\* Type correctness of TramaJk: between two reads the buffer is empty.
THEOREM CapturaTipos == CapturaSpec => []CapturaTypeOK
<1>1. CapturaInv => CapturaTypeOK
  <2> SUFFICES ASSUME CapturaInv PROVE CapturaTypeOK
    OBVIOUS
  <2>1. CASE pc = "lee"
    BY <2>1, Longitudes DEF CapturaInv, CapturaTypeOK, Borrado
  <2>2. CASE pc = "mira"
    <3>1. PICK l : Llegada(l, como, enviada) /\ leidos = Len(l) /\ bufer = Lleno(l)
      BY <2>2 DEF CapturaInv
    <3>2. leidos \in 0 .. Tam /\ DOMAIN bufer = 0 .. Tam - 1
      BY <3>1, LlegadaCabe DEF Lleno
    <3> QED BY <2>2, <3>2 DEF CapturaInv, CapturaTypeOK
  <2> QED BY <2>1, <2>2 DEF CapturaInv
<1> QED BY <1>1, CapturaInvSiempre, PTL

\* What goes to the parser is the frame the BMS sent, for any data, length and
\* modulus, but for a frame cut short that adds up to zero.
THEOREM SoloTramasSiempre == CapturaSpec => []SoloTramas
<1>1. CapturaInv => SoloTramas
  BY CapturaBuena DEF SoloTramas
<1> QED BY <1>1, CapturaInvSiempre, PTL

\* A frame that came whole is taken, whatever came before it and behind it.
THEOREM EnteraValeSiempre == CapturaSpec => []EnteraVale
<1>1. CapturaInv => EnteraVale
  BY CapturaBuena DEF EnteraVale
<1> QED BY <1>1, CapturaInvSiempre, PTL
----------------------------------------------------------------------------
\* Cells: what was read of each, or the zero from before the first frame.
Voltios == [Celdas -> Cero]

\* A voltage fits sixteen bits.
LEMMA DeDieciseis ==
  /\ N \in Nat /\ N >= 1 /\ \A x \in Cero : x \in Nat /\ x <= 65535
  /\ \A v \in Voltios, c \in Celdas : v[c] \in Cero /\ v[c] \in Nat /\ v[c] <= 65535
<1>1. N \in Nat /\ N >= 1
  BY CeldasAssumption
<1>2. ASSUME NEW x \in Cero PROVE x \in Nat /\ x <= 65535
  <2>1. CASE x = 0
    BY <2>1
  <2>2. CASE x \in Voltajes
    BY <2>2, De16Bits
  <2> QED BY <2>1, <2>2 DEF Cero
<1>3. ASSUME NEW v \in Voltios, NEW c \in Celdas PROVE v[c] \in Cero
  BY DEF Voltios
<1> QED BY <1>1, <1>2, <1>3

\* A cell with the highest voltage, or with the lowest one.
Alta(c, v) == c \in Celdas /\ \A d \in Celdas : v[d] <= v[c]
Baja(c, v) == c \in Celdas /\ \A d \in Celdas : v[c] <= v[d]

\* There is a first of the highest, and the parser finds it.
LEMMA MayorEs ==
  ASSUME NEW v \in Voltios
  PROVE  Alta(Mayor(v), v)
<1> DEFINE U == {u \in Nat : \A c \in Celdas : v[c] <= u}
<1>1. U \subseteq Nat /\ U # {}
  <2>1. 65535 \in U
    BY DeDieciseis
  <2> QED BY <2>1
<1>2. PICK m \in U : \A u \in U : m <= u
  <2> HIDE DEF U
  <2> QED BY <1>1, MenorNatural
<1>3. \E c \in Celdas : v[c] = m
  <2>1. SUFFICES ASSUME \A c \in Celdas : v[c] # m PROVE FALSE
    OBVIOUS
  <2>2. \A c \in Celdas : v[c] \in Nat /\ v[c] < m
    BY <1>2, <2>1, DeDieciseis
  <2>3. 1 \in Celdas
    BY DeDieciseis DEF Celdas
  <2>4. m - 1 \in Nat /\ \A c \in Celdas : v[c] <= m - 1
    BY <1>2, <2>2, <2>3
  <2> QED BY <1>2, <2>4
<1> DEFINE F == {c \in Celdas : v[c] = m}
<1>4. F \subseteq Nat /\ F # {}
  BY <1>3 DEF Celdas
<1>5. PICK f \in F : \A c \in F : f <= c
  <2> HIDE DEF F
  <2> QED BY <1>4, MenorNatural
<1>6. /\ f \in Celdas /\ \A d \in Celdas : v[d] <= v[f]
      /\ \A d \in Celdas : d < f => v[d] < v[f]
  <2>1. f \in Celdas /\ v[f] = m /\ \A d \in Celdas : v[d] <= m /\ v[d] \in Nat
    BY <1>2, <1>5, DeDieciseis
  <2>2. ASSUME NEW d \in Celdas, d < f PROVE v[d] # m
    <3>1. d \in Nat /\ f \in Nat
      BY <2>1 DEF Celdas
    <3> QED BY <1>5, <2>2, <3>1
  <2> QED BY <1>2, <2>1, <2>2
<1>7. \E c \in Celdas : /\ \A d \in Celdas : v[d] <= v[c]
                        /\ \A d \in Celdas : d < c => v[d] < v[c]
  BY <1>6
<1> QED BY <1>7 DEF Mayor, Alta

\* And of the lowest.
LEMMA MenorEs ==
  ASSUME NEW v \in Voltios
  PROVE  Baja(Menor(v), v)
<1> DEFINE S == {v[c] : c \in Celdas}
<1>1. S \subseteq Nat /\ S # {}
  <2>1. 1 \in Celdas
    BY DeDieciseis DEF Celdas
  <2> QED BY <2>1, DeDieciseis
<1>2. PICK m \in S : \A u \in S : m <= u
  <2> HIDE DEF S
  <2> QED BY <1>1, MenorNatural
<1> DEFINE F == {c \in Celdas : v[c] = m}
<1>3. F \subseteq Nat /\ F # {}
  BY <1>2 DEF Celdas
<1>4. PICK f \in F : \A c \in F : f <= c
  <2> HIDE DEF F
  <2> QED BY <1>3, MenorNatural
<1>5. /\ f \in Celdas /\ \A d \in Celdas : v[f] <= v[d]
      /\ \A d \in Celdas : d < f => v[f] < v[d]
  <2>1. f \in Celdas /\ v[f] = m /\ \A d \in Celdas : m <= v[d] /\ v[d] \in Nat
    BY <1>2, <1>4, DeDieciseis
  <2>2. ASSUME NEW d \in Celdas, d < f PROVE v[d] # m
    <3>1. d \in Nat /\ f \in Nat
      BY <2>1 DEF Celdas
    <3> QED BY <1>4, <2>2, <3>1
  <2>3. m \in Nat
    BY <2>1
  <2> QED BY <2>1, <2>2, <2>3
<1>6. \E c \in Celdas : /\ \A d \in Celdas : v[c] <= v[d]
                        /\ \A d \in Celdas : d < c => v[c] < v[d]
  BY <1>5
<1> QED BY <1>6 DEF Menor, Baja
----------------------------------------------------------------------------
\* The sums of the first cells, one after the other.
SumasDe(h, v) ==
  /\ h \in [0 .. N -> Nat] /\ h[0] = 0
  /\ \A k \in 1 .. N : h[k] = h[k - 1] + v[k]

\* Suma is the last of them.
LEMMA SumaEs ==
  ASSUME NEW v \in Voltios
  PROVE  \E h : SumasDe(h, v) /\ Suma(v) = h[N]
<1> DEFINE f == [k \in 1 .. N |-> [s \in Nat |-> s + v[k]]]
           Ec(h) == h = [c \in 0 .. N |-> IF c = 0 THEN 0 ELSE h[c - 1] + v[c]]
           hh == CHOOSE h : Ec(h)
<1>0. N \in Nat /\ \A k \in 1 .. N : v[k] \in Nat
  BY DeDieciseis DEF Celdas
<1>1. \A k \in 1 .. N : f[k] \in [Nat -> Nat]
  BY <1>0
<1>2. PICK h : Serie(h, N, Nat, 0, f)
  <2> HIDE DEF f
  <2> QED BY <1>0, <1>1, Recursiva
<1>3. Ec(h)
  <2>1. \A k \in 1 .. N : h[k - 1] \in Nat
    BY <1>0, <1>2 DEF Serie
  <2>2. \A k \in 1 .. N : f[k][h[k - 1]] = h[k - 1] + v[k]
    BY <2>1
  <2>3. h[0] = 0 /\ \A k \in 1 .. N : h[k] = h[k - 1] + v[k]
    BY <1>2, <2>2 DEF Serie
  <2> HIDE DEF f
  <2> QED BY <1>0, <1>2, <2>3 DEF Serie
<1>4. Ec(hh)
  <2> HIDE DEF Ec
  <2> QED BY <1>3
<1>5. Suma(v) = hh[N]
  BY DEF Suma
<1> HIDE DEF hh
<1>6. hh \in [0 .. N -> Nat]
  <2> DEFINE T == {k \in 0 .. N : hh[k] \in Nat}
  <2>1. 0 \in T
    BY <1>0, <1>4
  <2>2. ASSUME NEW k \in 1 .. N, k - 1 \in T PROVE k \in T
    <3>1. hh[k] = hh[k - 1] + v[k]
      BY <1>0, <1>4
    <3> QED BY <1>0, <2>2, <3>1
  <2>3. T \subseteq 0 .. N /\ \A k \in 1 .. N : k - 1 \in T => k \in T
    BY <2>2
  <2>4. 0 .. N \subseteq T
    <3> HIDE DEF T
    <3> QED BY <1>0, <2>1, <2>3, HastaN
  <2> QED BY <1>4, <2>4
<1>7. SumasDe(hh, v)
  <2>1. hh[0] = 0
    BY <1>0, <1>4
  <2>2. ASSUME NEW k \in 1 .. N PROVE hh[k] = hh[k - 1] + v[k]
    BY <1>0, <1>4
  <2> QED BY <1>6, <2>1, <2>2 DEF SumasDe
<1> QED BY <1>5, <1>7

\* The sum of N voltages between two of them.
LEMMA SumaEntre ==
  ASSUME NEW v \in Voltios, NEW a \in Nat, NEW b \in Nat,
         \A c \in Celdas : a <= v[c] /\ v[c] <= b
  PROVE  Suma(v) \in Nat /\ N * a <= Suma(v) /\ Suma(v) <= N * b
<1>0. N \in Nat /\ \A k \in 1 .. N : v[k] \in Nat /\ a <= v[k] /\ v[k] <= b
  BY DeDieciseis DEF Celdas
<1>1. PICK h : SumasDe(h, v) /\ Suma(v) = h[N]
  BY SumaEs
<1> DEFINE T == {k \in 0 .. N : k * a <= h[k] /\ h[k] <= k * b}
<1>2. 0 \in T
  BY <1>0, <1>1 DEF SumasDe
<1>3. ASSUME NEW k \in 1 .. N, k - 1 \in T PROVE k \in T
  <2>1. PICK s \in Nat, x \in Nat : s = h[k - 1] /\ x = v[k] /\ h[k] = s + x
    BY <1>0, <1>1 DEF SumasDe
  <2>2. (k - 1) * a <= s /\ s <= (k - 1) * b /\ a <= x /\ x <= b
    BY <1>0, <1>3, <2>1
  <2>3. k * a = (k - 1) * a + a /\ k * b = (k - 1) * b + b
    BY Z3
  <2>4. PICK p \in Int, q \in Int : p = (k - 1) * a /\ q = (k - 1) * b
    OBVIOUS
  <2>5. k * a <= s + x /\ s + x <= k * b
    BY <2>2, <2>3, <2>4
  <2> QED BY <2>1, <2>5
<1>4. T \subseteq 0 .. N /\ \A k \in 1 .. N : k - 1 \in T => k \in T
  BY <1>3
<1>5. 0 .. N \subseteq T
  <2> HIDE DEF T
  <2> QED BY <1>0, <1>2, <1>4, HastaN
<1>6. N \in T
  BY <1>0, <1>5
<1> QED BY <1>0, <1>1, <1>6 DEF SumasDe

\* What is divided by a number it is between two multiples of.
LEMMA CocienteEntre ==
  ASSUME NEW n \in Nat, n > 0, NEW s \in Nat, NEW a \in Nat, NEW b \in Nat,
         n * a <= s, s <= n * b
  PROVE  s \div n \in Nat /\ a <= s \div n /\ s \div n <= b
<1> DEFINE q == s \div n
           r == s % n
<1>1. q \in Int /\ r \in 0 .. n - 1 /\ s = n * q + r
  BY Z3
<1> HIDE DEF q, r
<1>2. a <= q
  <2>1. ASSUME q < a PROVE FALSE
    <3>1. n * (a - q) >= n
      BY <1>1, <2>1, Z3
    <3>2. n * (a - q) = n * a - n * q
      BY <1>1, Z3
    <3> QED BY <1>1, <3>1, <3>2, Z3
  <2> QED BY <1>1, <2>1
<1>3. q <= b
  <2>1. ASSUME q > b PROVE FALSE
    <3>1. n * (q - b) >= n
      BY <1>1, <2>1, Z3
    <3>2. n * (q - b) = n * q - n * b
      BY <1>1, Z3
    <3> QED BY <1>1, <3>1, <3>2, Z3
  <2> QED BY <1>1, <2>1
<1> QED BY <1>1, <1>2, <1>3 DEF q

\* So the average is between the lowest and the highest cell.
LEMMA MediaEntre ==
  ASSUME NEW v \in Voltios, NEW a, NEW b, Baja(a, v), Alta(b, v)
  PROVE  /\ Suma(v) \div N \in Nat
         /\ v[a] <= Suma(v) \div N /\ Suma(v) \div N <= v[b]
<1>1. v[a] \in Nat /\ v[b] \in Nat /\ N \in Nat /\ N > 0
  BY DeDieciseis DEF Alta, Baja
<1>2. Suma(v) \in Nat /\ N * v[a] <= Suma(v) /\ Suma(v) <= N * v[b]
  BY <1>1, SumaEntre DEF Alta, Baja
<1> QED BY <1>1, <1>2, CocienteEntre
----------------------------------------------------------------------------
Mensajes == [celdaMax : 0 .. N, celdaMin : 0 .. N, max : Cero, min : Cero]

MediaDe(v) == Suma(v) \div N
Palabras == {x \in Nat : x <= 65535}

CeldasTipos ==
  /\ trama \in Voltios /\ celdas \in Voltios
  /\ media \in Nat /\ delta \in Palabras
  /\ vmax \in 0 .. N /\ vmin \in 0 .. N
  /\ pcP \in {"espera", "celda", "media", "max", "min", "delta"} /\ i \in 1 .. N + 1
  /\ pcS \in {"espera", "celdaMin", "max", "min", "envia"}
  /\ mensaje \in Mensajes /\ inversor \in Mensajes

\* Of the summary of a frame, what the parser has got to: the cells up to the
\* one it writes, then the average, the highest, the lowest and the difference.
\* Before the first frame there are no numbers of cells.
Resumen ==
  /\ pcP = "celda" => i \in Celdas /\ \A c \in Celdas : c < i => celdas[c] = trama[c]
  /\ pcP \in {"media", "max", "min", "delta"} => celdas = trama
  /\ pcP \in {"max", "min", "delta"} => media = MediaDe(celdas)
  /\ pcP \in {"min", "delta"} => Alta(vmax, celdas)
  /\ pcP = "delta" => Baja(vmin, celdas)
  /\ pcP # "min" => (vmax = 0 <=> vmin = 0)
  /\ (pcP = "espera" /\ vmax # 0) =>
       /\ celdas = trama /\ media = MediaDe(celdas)
       /\ Alta(vmax, celdas) /\ Baja(vmin, celdas)
       /\ delta = celdas[vmax] - celdas[vmin]

CeldasInv == CeldasTipos /\ Resumen

\* Before the first frame there is nothing to agree.
LEMMA CeldasInvInicial == CeldasInit => CeldasInv
<1> SUFFICES ASSUME CeldasInit PROVE CeldasInv
  OBVIOUS
<1>1. 0 \in Cero /\ N \in Nat /\ N >= 1
  BY DeDieciseis DEF Cero
<1>2. trama \in Voltios /\ celdas \in Voltios
  BY <1>1 DEF CeldasInit, Voltios
<1>3. mensaje \in Mensajes /\ inversor \in Mensajes
  BY <1>1 DEF CeldasInit, Vacio, Mensajes
<1>4. CeldasTipos
  <2>1. 0 \in Palabras
    BY DEF Palabras
  <2> QED BY <1>1, <1>2, <1>3, <2>1 DEF CeldasInit, CeldasTipos
<1> QED BY <1>4 DEF CeldasInit, CeldasInv, Resumen

\* A difference that is not below zero fits sixteen bits.
LEMMA RestaDe16 ==
  ASSUME NEW a \in Nat, NEW b \in Nat, b <= a, a <= 65535
  PROVE  (a - b) % 65536 = a - b /\ a - b \in Palabras
<1>1. PICK d \in Int : d = a - b /\ 0 <= d /\ d <= 65535
  OBVIOUS
<1>2. d % 65536 = d
  BY <1>1, Z3
<1> QED BY <1>1, <1>2 DEF Palabras

\* The sender writes nothing of that.
LEMMA CeldasInvSender == ASSUME CeldasInv, Sender PROVE CeldasInv'
<1>0. /\ celdas' = celdas /\ media' = media /\ vmax' = vmax /\ vmin' = vmin /\ delta' = delta
      /\ trama' = trama /\ pcP' = pcP /\ i' = i
      /\ pcS' \in {"espera", "celdaMin", "max", "min", "envia"}
  BY DEF Sender, LeeCeldaMax, LeeCeldaMin, LeeVoltajeMax, LeeVoltajeMin, Envia, PasoS,
         infoVars, parserVars
<1>1. Resumen'
  BY <1>0 DEF CeldasInv, Resumen
<1>2. \A c \in 0 .. N : Voltaje(c) \in Cero
  BY DeDieciseis DEF CeldasInv, CeldasTipos, Voltaje, Cero, Celdas, Voltios
<1>3. mensaje' \in Mensajes /\ inversor' \in Mensajes
  <2>1. /\ vmax \in 0 .. N /\ vmin \in 0 .. N /\ mensaje \in Mensajes /\ inversor \in Mensajes
        /\ Voltaje(mensaje.celdaMax) \in Cero /\ Voltaje(mensaje.celdaMin) \in Cero
    BY <1>2 DEF CeldasInv, CeldasTipos, Mensajes
  <2>2. CASE LeeCeldaMax
    BY <2>1, <2>2 DEF LeeCeldaMax, Mensajes
  <2>3. CASE LeeCeldaMin
    BY <2>1, <2>3 DEF LeeCeldaMin, Mensajes
  <2>4. CASE LeeVoltajeMax
    BY <2>1, <2>4 DEF LeeVoltajeMax, Mensajes
  <2>5. CASE LeeVoltajeMin
    BY <2>1, <2>5 DEF LeeVoltajeMin, Mensajes
  <2>6. CASE Envia
    <3>1. 0 \in 0 .. N /\ 0 \in Cero
      BY DeDieciseis DEF Cero
    <3> QED BY <2>1, <2>6, <3>1 DEF Envia, Vacio, Mensajes
  <2> QED BY <2>2, <2>3, <2>4, <2>5, <2>6 DEF Sender
<1> QED BY <1>0, <1>1, <1>3 DEF CeldasInv, CeldasTipos

\* The parser brings it one statement further.
LEMMA CeldasInvParser == ASSUME CeldasInv, Recibe \/ Parse PROVE CeldasInv'
<1>0. UNCHANGED senderVars
  BY DEF Recibe, Parse, EscribeCelda, cell_average_voltage, cell_number_vmax, cell_number_vmin,
         delta_cell_voltage, PasoP
<1>1. mensaje' \in Mensajes /\ inversor' \in Mensajes
      /\ pcS' \in {"espera", "celdaMin", "max", "min", "envia"}
  BY <1>0 DEF CeldasInv, CeldasTipos, senderVars
<1>2. N \in Nat /\ N >= 1 /\ trama \in Voltios /\ celdas \in Voltios
  BY DeDieciseis DEF CeldasInv, CeldasTipos
<1>3. CASE Recibe
  <2>1. /\ pcP' = "celda" /\ i' = 1 /\ celdas' = celdas /\ media' = media
        /\ vmax' = vmax /\ vmin' = vmin /\ delta' = delta /\ trama' \in Tramas /\ pcP = "espera"
    BY <1>3 DEF Recibe, infoVars
  <2>2. trama' \in Voltios
    BY <2>1 DEF Tramas, Voltios, Cero
  <2>3. CeldasTipos'
    BY <1>1, <1>2, <2>1, <2>2 DEF CeldasInv, CeldasTipos
  <2>4. Resumen'
    BY <1>2, <2>1 DEF CeldasInv, Resumen, Celdas
  <2> QED BY <2>3, <2>4 DEF CeldasInv
<1>4. CASE EscribeCelda
  <2>1. /\ pcP = "celda" /\ pcP' = (IF i = N THEN "media" ELSE "celda")
        /\ celdas' = [celdas EXCEPT ![i] = trama[i]] /\ i' = i + 1
        /\ trama' = trama /\ media' = media /\ vmax' = vmax /\ vmin' = vmin /\ delta' = delta
    BY <1>4 DEF EscribeCelda
  <2>2. i \in Celdas /\ i \in 1 .. N /\ \A c \in Celdas : c < i => celdas[c] = trama[c]
    BY <2>1 DEF CeldasInv, Resumen, Celdas
  <2>3. celdas' \in Voltios /\ trama' \in Voltios
    BY <1>2, <2>1, <2>2 DEF Voltios
  <2>4. CeldasTipos'
    BY <1>1, <1>2, <2>1, <2>2, <2>3 DEF CeldasInv, CeldasTipos
  <2>5. \A c \in Celdas : c < i + 1 => celdas'[c] = trama[c]
    <3>1. ASSUME NEW c \in Celdas, c < i + 1 PROVE celdas'[c] = trama[c]
      <4>1. c = i \/ c < i
        BY <2>2, <3>1 DEF Celdas
      <4> QED BY <1>2, <2>1, <2>2, <4>1 DEF Voltios
    <3> QED BY <3>1
  <2>6. CASE i = N
    <3>1. celdas' = trama
      <4>1. \A c \in Celdas : c < i + 1
        BY <1>2, <2>6 DEF Celdas
      <4>2. \A c \in Celdas : celdas'[c] = trama[c]
        BY <2>5, <4>1
      <4> QED BY <1>2, <2>1, <2>3, <4>2 DEF Voltios
    <3>2. pcP' = "media"
      BY <2>1, <2>6
    <3>3. Resumen'
      BY <2>1, <3>1, <3>2 DEF CeldasInv, Resumen
    <3> QED BY <2>4, <3>3 DEF CeldasInv
  <2>7. CASE i # N
    <3>1. pcP' = "celda" /\ i' \in Celdas
      BY <1>2, <2>1, <2>2, <2>7 DEF Celdas
    <3>2. \A c \in Celdas : c < i' => celdas'[c] = trama'[c]
      BY <2>1, <2>5
    <3>3. Resumen'
      BY <2>1, <3>1, <3>2 DEF CeldasInv, Resumen
    <3> QED BY <2>4, <3>3 DEF CeldasInv
  <2> QED BY <2>6, <2>7
<1>5. CASE cell_average_voltage
  <2>1. /\ pcP = "media" /\ pcP' = "max" /\ media' = MediaDe(celdas)
        /\ trama' = trama /\ celdas' = celdas /\ vmax' = vmax /\ vmin' = vmin
        /\ delta' = delta /\ i' = i
    BY <1>5 DEF cell_average_voltage, PasoP, MediaDe
  <2>2. media' \in Nat
    BY <1>2, <2>1, MayorEs, MenorEs, MediaEntre DEF MediaDe
  <2>3. CeldasTipos'
    BY <1>1, <2>1, <2>2 DEF CeldasInv, CeldasTipos
  <2>4. Resumen'
    BY <2>1 DEF CeldasInv, Resumen
  <2> QED BY <2>3, <2>4 DEF CeldasInv
<1>6. CASE cell_number_vmax
  <2>1. /\ pcP = "max" /\ pcP' = "min" /\ vmax' = Mayor(celdas)
        /\ trama' = trama /\ celdas' = celdas /\ media' = media /\ vmin' = vmin
        /\ delta' = delta /\ i' = i
    BY <1>6 DEF cell_number_vmax, PasoP
  <2>2. Alta(vmax', celdas)
    BY <1>2, <2>1, MayorEs
  <2>3. vmax' \in 0 .. N
    BY <1>2, <2>2 DEF Alta, Celdas
  <2>4. CeldasTipos'
    BY <1>1, <2>1, <2>3 DEF CeldasInv, CeldasTipos
  <2>5. Resumen'
    BY <2>1, <2>2 DEF CeldasInv, Resumen
  <2> QED BY <2>4, <2>5 DEF CeldasInv
<1>7. CASE cell_number_vmin
  <2>1. /\ pcP = "min" /\ pcP' = "delta" /\ vmin' = Menor(celdas)
        /\ trama' = trama /\ celdas' = celdas /\ media' = media /\ vmax' = vmax
        /\ delta' = delta /\ i' = i
    BY <1>7 DEF cell_number_vmin, PasoP
  <2>2. Baja(vmin', celdas) /\ Alta(vmax, celdas)
    BY <1>2, <2>1, MenorEs DEF CeldasInv, Resumen
  <2>3. vmin' \in 1 .. N /\ vmax \in 1 .. N
    BY <1>2, <2>2 DEF Alta, Baja, Celdas
  <2>4. CeldasTipos'
    BY <1>1, <2>1, <2>3 DEF CeldasInv, CeldasTipos
  <2>5. Resumen'
    BY <2>1, <2>2, <2>3 DEF CeldasInv, Resumen
  <2> QED BY <2>4, <2>5 DEF CeldasInv
<1>8. CASE delta_cell_voltage
  <2>1. /\ pcP = "delta" /\ pcP' = "espera" /\ delta' = (celdas[vmax] - celdas[vmin]) % 65536
        /\ trama' = trama /\ celdas' = celdas /\ media' = media /\ vmax' = vmax /\ vmin' = vmin
        /\ i' = 1
    BY <1>8 DEF delta_cell_voltage, PasoP
  <2>2. Alta(vmax, celdas) /\ Baja(vmin, celdas) /\ celdas = trama /\ media = MediaDe(celdas)
    BY <2>1 DEF CeldasInv, Resumen
  <2>3. PICK a \in Nat, b \in Nat : /\ a = celdas[vmax] /\ b = celdas[vmin]
                                    /\ b <= a /\ a <= 65535
    <3>1. /\ celdas[vmax] \in Nat /\ celdas[vmin] \in Nat
          /\ celdas[vmin] <= celdas[vmax] /\ celdas[vmax] <= 65535
      BY <1>2, <2>2, DeDieciseis DEF Alta, Baja
    <3> QED BY <3>1
  <2>4. (a - b) % 65536 = a - b /\ a - b \in Palabras
    BY ONLY <2>3, RestaDe16, SMT
  <2>5. delta' = celdas[vmax] - celdas[vmin] /\ delta' \in Palabras
    BY <2>1, <2>3, <2>4
  <2>6. CeldasTipos'
    BY <1>1, <1>2, <2>1, <2>5 DEF CeldasInv, CeldasTipos
  <2>7. Resumen'
    BY <2>1, <2>2, <2>5 DEF CeldasInv, Resumen
  <2> QED BY <2>6, <2>7 DEF CeldasInv
<1> QED BY <1>3, <1>4, <1>5, <1>6, <1>7, <1>8 DEF Parse

\* Each step keeps it.
LEMMA CeldasInvPaso == CeldasInv /\ [CeldasNext]_celdasVars => CeldasInv'
<1> SUFFICES ASSUME CeldasInv, [CeldasNext]_celdasVars PROVE CeldasInv'
  OBVIOUS
<1>1. CASE UNCHANGED celdasVars
  <2>1. /\ celdas' = celdas /\ media' = media /\ vmax' = vmax /\ vmin' = vmin /\ delta' = delta
        /\ trama' = trama /\ pcP' = pcP /\ i' = i
        /\ pcS' = pcS /\ mensaje' = mensaje /\ inversor' = inversor
    BY <1>1 DEF celdasVars, infoVars, parserVars, senderVars
  <2> QED BY <2>1 DEF CeldasInv, CeldasTipos, Resumen
<1> QED BY <1>1, CeldasInvSender, CeldasInvParser DEF CeldasNext

\* So it always holds.
LEMMA CeldasInvSiempre == CeldasSpec => []CeldasInv
BY CeldasInvInicial, CeldasInvPaso, PTL DEF CeldasSpec

\* Type correctness of CellFeed, for any number of cells.
THEOREM CeldasTiposSiempre == CeldasSpec => []CeldasTypeOK
<1>1. CeldasInv => CeldasTypeOK
  <2> SUFFICES ASSUME CeldasInv PROVE CeldasTypeOK
    OBVIOUS
  <2>1. \A m \in Mensajes : /\ m.celdaMax \in 0 .. N /\ m.celdaMin \in 0 .. N
                            /\ m.max \in Cero /\ m.min \in Cero
    BY DEF Mensajes
  <2>2. \A m \in {mensaje, inversor} : m \in Mensajes
    BY DEF CeldasInv, CeldasTipos
  <2>3. /\ pcP # "min" => (vmax = 0 <=> vmin = 0)
        /\ pcP = "celda" => i \in Celdas
    BY DEF CeldasInv, Resumen
  <2>4. delta \in Nat /\ delta <= 65535
    BY DEF CeldasInv, CeldasTipos, Palabras
  <2>5. /\ trama \in [Celdas -> Cero] /\ celdas \in [Celdas -> Cero] /\ media \in Nat
        /\ vmax \in 0 .. N /\ vmin \in 0 .. N
        /\ pcP \in {"espera", "celda", "media", "max", "min", "delta"} /\ i \in 1 .. N + 1
        /\ pcS \in {"espera", "celdaMin", "max", "min", "envia"}
    BY DEF CeldasInv, CeldasTipos, Voltios
  <2>6. \A m \in {mensaje, inversor} : /\ m.celdaMax \in 0 .. N /\ m.celdaMin \in 0 .. N
                                      /\ m.max \in Cero /\ m.min \in Cero
    BY <2>1, <2>2, Zenon
  <2> QED BY <2>3, <2>4, <2>5, <2>6, SMT DEF CeldasTypeOK
<1> QED BY <1>1, CeldasInvSiempre, PTL

\* Between two frames the summary is that of the cells of the last one, for any
\* number of cells and any voltages: the average is between its extremes, and
\* the difference is theirs.
THEOREM ResumenCoherenteSiempre == CeldasSpec => []ResumenCoherente
<1>1. CeldasInv => ResumenCoherente
  <2> SUFFICES ASSUME CeldasInv, pcP = "espera", vmax # 0 PROVE ResumenCoherente
    BY DEF ResumenCoherente
  <2>1. /\ celdas = trama /\ media = MediaDe(celdas) /\ celdas \in Voltios
        /\ Alta(vmax, celdas) /\ Baja(vmin, celdas)
        /\ delta = celdas[vmax] - celdas[vmin]
    BY DEF CeldasInv, CeldasTipos, Resumen
  <2>2. celdas[vmin] <= media /\ media <= celdas[vmax]
    BY <2>1, MediaEntre DEF MediaDe
  <2> QED BY <2>1, <2>2 DEF ResumenCoherente, Alta, Baja
<1> QED BY <1>1, CeldasInvSiempre, PTL
----------------------------------------------------------------------------
(* The words of the measures. *)

\* Division by a constant, for what is divided here.
LEMMA DivisionPor10 ==
  ASSUME NEW n \in Int
  PROVE  /\ DivC(n, 10) \in Int
         /\ n >= 0 => 10 * DivC(n, 10) <= n /\ n < 10 * DivC(n, 10) + 10
         /\ n < 0 => n <= 10 * DivC(n, 10) /\ 10 * DivC(n, 10) < n + 10
BY Z3 DEF DivC

\* Half a sum of degrees, towards zero.
LEMMA DivisionPor2 ==
  ASSUME NEW n \in Int
  PROVE  /\ DivC(n, 2) \in Int
         /\ n - 1 <= 2 * DivC(n, 2) /\ 2 * DivC(n, 2) <= n + 1
BY Z3 DEF DivC

\* Sixteen bits, read with their sign, give back what fits them.
LEMMA VueltaDe16 ==
  ASSUME NEW n \in Int, -32768 <= n, n <= 32767
  PROVE  Con16(Sin16(n)) = n
<1>1. CASE n >= 0
  BY <1>1, Z3 DEF Con16, Sin16
<1>2. CASE n < 0
  <2>1. n % 65536 = n + 65536
    BY <1>2, Z3
  <2>2. (n + 65536) % 65536 = n + 65536 /\ n + 65536 >= 32768
    BY <1>2, Z3
  <2> QED BY <2>1, <2>2 DEF Con16, Sin16
<1> QED BY <1>1, <1>2

\* Sixteen bits without sign hold what is not negative.
LEMMA Sin16Entero ==
  ASSUME NEW n \in Int, 0 <= n, n <= 65535
  PROVE  Sin16(n) = n
BY Z3 DEF Sin16

\* The degrees come out of the word they went into.
LEMMA TemperaturaLeida ==
  ASSUME NEW t \in Int, -40 <= t, t <= 100
  PROVE  getTemperature(PalabraTemperatura(t)) = t
<1>1. CASE t >= 0
  <2>1. getTemperature(PalabraTemperatura(t)) = Con8(t)
    BY <1>1 DEF getTemperature, PalabraTemperatura
  <2> QED BY <1>1, <2>1, Z3 DEF Con8
<1>2. CASE t < 0
  <2>1. getTemperature(PalabraTemperatura(t)) = Con8(t)
    BY <1>2 DEF getTemperature, PalabraTemperatura
  <2>2. t % 256 = t + 256
    BY <1>2, Z3
  <2> QED BY <1>2, <2>1, <2>2 DEF Con8
<1> QED BY <1>1, <1>2

\* So does the current, with its sign.
LEMMA CorrienteLeida ==
  ASSUME NEW w \in Int, -32767 <= w, w <= 32767
  PROVE  getCurrent(PalabraCorriente(w)) = w
<1>1. CASE w > 0
  <2>1. getCurrent(PalabraCorriente(w)) = Con16(w)
    BY <1>1 DEF getCurrent, PalabraCorriente
  <2> QED BY <1>1, <2>1, Z3 DEF Con16
<1>2. CASE w = 0
  <2>1. getCurrent(PalabraCorriente(w)) = Con16(0)
    BY <1>2 DEF getCurrent, PalabraCorriente
  <2> QED BY <1>2, <2>1, Z3 DEF Con16
<1>3. CASE w < 0
  <2>1. getCurrent(PalabraCorriente(w)) = Con16(w)
    BY <1>3 DEF getCurrent, PalabraCorriente
  <2>2. w % 65536 = w + 65536
    BY <1>3, Z3
  <2> QED BY <1>3, <2>1, <2>2 DEF Con16
<1> QED BY <1>1, <1>2, <1>3
----------------------------------------------------------------------------
\* A measure the words of the BMS can carry.
Cabe(m) ==
  /\ Grados(m.tubo) /\ Grados(m.t1) /\ Grados(m.t2)
  /\ Tension(m.v) /\ Tension(m.cargaV)
  /\ Corriente(m.i)
  /\ Limite(m.cargaA) /\ Limite(m.descargaA)
  /\ m.emergencia \in BOOLEAN

\* The readings of the model are such measures.
LEMMA LecturasCaben == Cabe(Normal) /\ \A m \in Lecturas : Cabe(m)
<1>1. /\ \A t \in Temperaturas : Grados(t)
      /\ \A v \in Tensiones : Tension(v)
      /\ \A w \in Corrientes : Corriente(w)
      /\ \A a \in Limites : Limite(a)
  BY Rangos
<1>2. /\ Grados(25) /\ Grados(20) /\ Grados(21)
      /\ Tension(5359) /\ Tension(5670) /\ Corriente(0) /\ Limite(100)
  BY DEF Grados, Tension, Corriente, Limite
<1>3. Cabe(Normal)
  BY <1>2 DEF Cabe, Normal
<1>4. ASSUME NEW m \in Lecturas PROVE Cabe(m)
  <2>1. ASSUME NEW t \in Temperaturas PROVE Cabe(Tubo(t))
    BY <1>1, <1>2 DEF Cabe, Tubo, Normal
  <2>2. ASSUME NEW a \in Temperaturas, NEW b \in Temperaturas PROVE Cabe(Sensores(a, b))
    BY <1>1, <1>2 DEF Cabe, Sensores, Normal
  <2>3. ASSUME NEW a \in Tensiones, NEW b \in Corrientes PROVE Cabe(Potencia(a, b))
    BY <1>1, <1>2 DEF Cabe, Potencia, Normal
  <2>4. ASSUME NEW a \in Tensiones, NEW b \in Limites, NEW c \in Limites
        PROVE  Cabe(Pedido(a, b, c))
    BY <1>1, <1>2 DEF Cabe, Pedido, Normal
  <2>5. ASSUME NEW c \in Ciclos, NEW q \in Vidas PROVE Cabe(Vivido(c, q))
    BY <1>2 DEF Cabe, Vivido, Normal
  <2>6. ASSUME NEW a \in Alarmas, NEW b \in Corrientes, NEW e \in BOOLEAN
        PROVE  Cabe(Alarmado(a, b, e))
    BY <1>1, <1>2 DEF Cabe, Alarmado, Normal
  <2> QED BY <2>1, <2>2, <2>3, <2>4, <2>5, <2>6 DEF Lecturas
<1> QED BY <1>3, <1>4

\* The parser gives back the measure.
LEMMA ParseadoEsMedido ==
  ASSUME NEW m, Cabe(m), NEW j, j = ParseJK(m)
  PROVE  /\ j.tubo = m.tubo /\ j.t1 = m.t1 /\ j.t2 = m.t2 /\ j.v = m.v /\ j.i = m.i
         /\ j.cargaV = m.cargaV /\ j.cargaA = m.cargaA /\ j.descargaA = m.descargaA
         /\ j.alarmas = m.alarmas /\ j.emergencia = m.emergencia
<1>1. /\ getTemperature(PalabraTemperatura(m.tubo)) = m.tubo
      /\ getTemperature(PalabraTemperatura(m.t1)) = m.t1
      /\ getTemperature(PalabraTemperatura(m.t2)) = m.t2
  BY TemperaturaLeida DEF Cabe, Grados
<1>2. getCurrent(PalabraCorriente(m.i)) = m.i
  BY CorrienteLeida DEF Cabe, Corriente
<1> QED BY <1>1, <1>2 DEF ParseJK
----------------------------------------------------------------------------
(* The words of each protocol. *)

\* Tenths of a volt.
LEMMA DecimasDeVoltio ==
  ASSUME NEW x, Tension(x)
  PROVE  x - 10 * (x \div 10) \in 0 .. 9
BY Z3 DEF Tension

\* Tenths of an ampere, towards zero: the sign is kept.
LEMMA DecimasDeAmperio ==
  ASSUME NEW w, Corriente(w)
  PROVE  LET q == DivC(w, 10) IN
         q \in Int /\ -3277 <= q /\ q <= 3277 /\ Abs(10 * q - w) < 10 /\ q * w >= 0
<1>1. w \in Int /\ -32767 <= w /\ w <= 32767
  BY DEF Corriente
<1>2. PICK q \in Int : DivC(w, 10) = q
  BY <1>1, DivisionPor10
<1>3. /\ w >= 0 => 10 * q <= w /\ w < 10 * q + 10
      /\ w < 0 => w <= 10 * q /\ 10 * q < w + 10
  BY <1>1, <1>2, DivisionPor10
<1>4. -3277 <= q /\ q <= 3277
  BY <1>1, <1>3
<1>5. Abs(10 * q - w) < 10
  BY <1>1, <1>3 DEF Abs
<1>6. q * w >= 0
  <2>1. (w >= 0 /\ q >= 0) \/ (w < 0 /\ q <= 0)
    BY <1>1, <1>3
  <2>2. \A x, y \in Nat : x * y >= 0 /\ (-x) * (-y) = x * y
    BY Z3
  <2>3. CASE w >= 0 /\ q >= 0
    BY <1>1, <2>2, <2>3
  <2>4. CASE w < 0 /\ q <= 0
    <3>1. -q \in Nat /\ -w \in Nat /\ -(-q) = q /\ -(-w) = w
      BY <1>1, <2>4
    <3>2. (-(-q)) * (-(-w)) >= 0
      BY <2>2, <3>1
    <3> QED BY <3>1, <3>2
  <2> QED BY <2>1, <2>3, <2>4
<1> QED BY <1>2, <1>4, <1>5, <1>6

\* 0x351 and 0x356, read with their sign.
LEMMA PalabrasLV ==
  ASSUME NEW m, Cabe(m)
  PROVE  /\ Con16(Sin16(m.v)) = m.v
         /\ Abs(10 * Con16(Sin16(DivC(m.i, 10))) - m.i) < 10
         /\ Con16(Sin16(DivC(m.i, 10))) * m.i >= 0
         /\ Abs(2 * Con16(Sin16(DivC(m.t1 + m.t2, 2) * 10)) - 10 * (m.t1 + m.t2)) <= 10
         /\ Con16(Sin16(m.cargaA * 10)) = 10 * m.cargaA
         /\ Con16(Sin16(-10 * m.descargaA)) = -10 * m.descargaA
<1> DEFINE v == m.v
           w == m.i
           t1 == m.t1
           t2 == m.t2
           c == m.cargaA
           d == m.descargaA
<1>0. /\ v \in Int /\ 0 <= v /\ v <= 32767
      /\ w \in Int /\ -32767 <= w /\ w <= 32767
      /\ t1 \in Int /\ -40 <= t1 /\ t1 <= 100
      /\ t2 \in Int /\ -40 <= t2 /\ t2 <= 100
      /\ c \in Int /\ 0 <= c /\ c <= 3000
      /\ d \in Int /\ 0 <= d /\ d <= 3000
  BY DEF Cabe, Grados, Tension, Corriente, Limite
<1> HIDE DEF v, w, t1, t2, c, d
<1>1. Con16(Sin16(v)) = v
  BY <1>0, VueltaDe16
<1>2. Corriente(w)
  BY DEF Cabe, w
<1> DEFINE q == DivC(w, 10)
<1>3. q \in Int /\ -3277 <= q /\ q <= 3277 /\ Abs(10 * q - w) < 10 /\ q * w >= 0
  BY <1>2, DecimasDeAmperio
<1> HIDE DEF q
<1>4. Con16(Sin16(q)) = q
  <2>1. -32768 <= q /\ q <= 32767
    BY <1>3
  <2> QED BY <1>3, <2>1, VueltaDe16
<1>7. PICK p \in Int : DivC(t1 + t2, 2) = p
  BY <1>0, DivisionPor2
<1>8. (t1 + t2) - 1 <= 2 * p /\ 2 * p <= (t1 + t2) + 1
  BY <1>0, <1>7, DivisionPor2
<1>9. Con16(Sin16(p * 10)) = p * 10
  <2>1. -32768 <= p * 10 /\ p * 10 <= 32767
    BY <1>0, <1>8
  <2> QED BY <1>0, <2>1, VueltaDe16
<1>10. Abs(2 * (p * 10) - 10 * (t1 + t2)) <= 10
  BY <1>0, <1>8 DEF Abs
<1>11. Con16(Sin16(c * 10)) = 10 * c
  <2>1. -32768 <= c * 10 /\ c * 10 <= 32767 /\ c * 10 = 10 * c
    BY <1>0
  <2> QED BY <1>0, <2>1, VueltaDe16
<1>12. Con16(Sin16(-10 * d)) = -10 * d
  <2>1. -32768 <= -10 * d /\ -10 * d <= 32767
    BY <1>0
  <2> QED BY <1>0, <2>1, VueltaDe16
<1> QED BY <1>0, <1>1, <1>3, <1>4, <1>7, <1>9, <1>10, <1>11, <1>12 DEF v, w, t1, t2, c, d, q

\* The degrees of a sensor, stored in sixteen bits before they are multiplied.
LEMMA GradosHV ==
  ASSUME NEW t \in Int, -40 <= t, t <= 100
  PROVE  Sin16(1000 + Sin16(t) * 10) = 1000 + 10 * t
<1>1. CASE t >= 0
  <2>1. Sin16(t) = t
    BY <1>1, Sin16Entero
  <2>2. 0 <= 1000 + t * 10 /\ 1000 + t * 10 <= 65535
    BY <1>1
  <2> QED BY <2>1, <2>2, Sin16Entero
<1>2. CASE t < 0
  <2>1. Sin16(t) = t + 65536
    BY <1>2, Z3 DEF Sin16
  <2>2. (1000 + (t + 65536) * 10) % 65536 = 1000 + 10 * t
    BY <1>2, Z3
  <2> QED BY <2>1, <2>2 DEF Sin16
<1> QED BY <1>1, <1>2

\* 0x4210, 0x4220, 0x4240 and 0x4260: without sign, from an offset.
LEMMA PalabrasHV ==
  ASSUME NEW m, Cabe(m)
  PROVE  /\ m.v - 10 * (m.v \div 10) \in 0 .. 9
         /\ Abs(10 * (Sin16(DivC(m.i, 10) + 30000) - 30000) - m.i) < 10
         /\ (Sin16(DivC(m.i, 10) + 30000) - 30000) * m.i >= 0
         /\ Sin16(30000 + m.cargaA * 10) - 30000 = 10 * m.cargaA
         /\ 30000 - Sin16(30000 - m.descargaA * 10) = 10 * m.descargaA
         /\ Sin16(1000 + Sin16(m.t1) * 10) - 1000 = 10 * m.t1
         /\ Sin16(1000 + Sin16(m.t2) * 10) - 1000 = 10 * m.t2
         /\ m.v < 6554 => Sin16(m.v * 10) = 10 * m.v
<1> DEFINE v == m.v
           w == m.i
           t1 == m.t1
           t2 == m.t2
           c == m.cargaA
           d == m.descargaA
<1>0. /\ v \in Int /\ 0 <= v /\ v <= 32767
      /\ w \in Int /\ -32767 <= w /\ w <= 32767
      /\ t1 \in Int /\ -40 <= t1 /\ t1 <= 100
      /\ t2 \in Int /\ -40 <= t2 /\ t2 <= 100
      /\ c \in Int /\ 0 <= c /\ c <= 3000
      /\ d \in Int /\ 0 <= d /\ d <= 3000
  BY DEF Cabe, Grados, Tension, Corriente, Limite
<1> HIDE DEF v, w, t1, t2, c, d
<1>1. v - 10 * (v \div 10) \in 0 .. 9
  BY <1>0, Z3
<1>2. Corriente(w)
  BY DEF Cabe, w
<1> DEFINE q == DivC(w, 10)
<1>3. q \in Int /\ -3277 <= q /\ q <= 3277 /\ Abs(10 * q - w) < 10 /\ q * w >= 0
  BY <1>2, DecimasDeAmperio
<1> HIDE DEF q
<1>4. Sin16(q + 30000) - 30000 = q
  <2>1. q + 30000 \in Int /\ 0 <= q + 30000 /\ q + 30000 <= 65535
    BY <1>3
  <2>2. Sin16(q + 30000) = q + 30000
    BY <2>1, Sin16Entero
  <2> QED BY <1>3, <2>2
<1>7. Sin16(30000 + c * 10) - 30000 = 10 * c
  <2>1. 0 <= 30000 + c * 10 /\ 30000 + c * 10 <= 65535
    BY <1>0
  <2> QED BY <1>0, <2>1, Sin16Entero
<1>8. 30000 - Sin16(30000 - d * 10) = 10 * d
  <2>1. 0 <= 30000 - d * 10 /\ 30000 - d * 10 <= 65535
    BY <1>0
  <2> QED BY <1>0, <2>1, Sin16Entero
<1>9. \A t \in Int : (-40 <= t /\ t <= 100) => Sin16(1000 + Sin16(t) * 10) = 1000 + 10 * t
  BY <1>0, GradosHV
<1>10. v < 6554 => Sin16(v * 10) = 10 * v
  <2>1. v < 6554 => 0 <= v * 10 /\ v * 10 <= 65535
    BY <1>0
  <2> QED BY <1>0, <2>1, Sin16Entero
<1> QED BY <1>0, <1>1, <1>3, <1>4, <1>7, <1>8, <1>9, <1>10 DEF v, w, t1, t2, c, d, q

\* The highest and the lowest word of 0x4270 are those of 0x4240, and the one of
\* 0x4210 is chosen between them: with the offset they are in the order of the
\* degrees.
LEMMA PalabrasDelCalor ==
  ASSUME NEW j, Grados(j.t1), Grados(j.t2)
  PROVE  LET x == parseJK_message_0x4270(j)
             y == parseJK_message_0x4240(j)
         IN /\ x.mayor >= x.menor
            /\ {x.mayor, x.menor} = {y.t1, y.t2}
            /\ parseJK_message_0x4210(j).t
                 = (IF x.menor <= 1000 THEN x.menor ELSE x.mayor)
<1>1. PICK p \in Int, q \in Int : j.t1 = p /\ j.t2 = q /\ -40 <= p /\ p <= 100 /\ -40 <= q /\ q <= 100
  BY DEF Grados
<1> DEFINE P == 1000 + 10 * p
           Q == 1000 + 10 * q
<1>2. /\ Sin16(1000 + Sin16(p) * 10) = P
      /\ Sin16(1000 + Sin16(q) * 10) = Q
  BY <1>1, GradosHV
<1>3. /\ P \in Int /\ Q \in Int /\ 0 <= P /\ P <= 65535 /\ 0 <= Q /\ Q <= 65535
      /\ 1000 + p * 10 = P /\ 1000 + q * 10 = Q
  BY <1>1
<1>4. Sin16(1000 + p * 10) = P /\ Sin16(1000 + q * 10) = Q
  BY <1>3, Sin16Entero
<1>5. (P >= Q <=> p >= q) /\ (P <= 1000 <=> p <= 0) /\ (Q <= 1000 <=> q <= 0)
  BY <1>1
<1> HIDE DEF P, Q
<1> DEFINE x == parseJK_message_0x4270(j)
           y == parseJK_message_0x4240(j)
           z == parseJK_message_0x4210(j).t
<1>6. x.mayor = (IF P >= Q THEN P ELSE Q) /\ x.menor = (IF P >= Q THEN Q ELSE P)
  BY <1>1, <1>4 DEF parseJK_message_0x4270
<1>7. y.t1 = P /\ y.t2 = Q
  BY <1>1, <1>2 DEF parseJK_message_0x4240
<1>8. z = Sin16(1000 + Peor(j) * 10)
  BY DEF parseJK_message_0x4210
<1>9. Peor(j) = (IF p <= 0 \/ q <= 0 THEN (IF p >= q THEN q ELSE p) ELSE (IF p >= q THEN p ELSE q))
  BY <1>1 DEF Peor
<1> HIDE DEF x, y, z
<1>10. z = (IF P <= 1000 \/ Q <= 1000 THEN (IF P >= Q THEN Q ELSE P) ELSE (IF P >= Q THEN P ELSE Q))
  BY <1>4, <1>5, <1>8, <1>9
<1>11. x.mayor >= x.menor
  BY <1>3, <1>6
<1>12. {x.mayor, x.menor} = {y.t1, y.t2}
  <2>1. CASE P >= Q
    BY <1>6, <1>7, <2>1
  <2>2. CASE ~(P >= Q)
    BY <1>6, <1>7, <2>2
  <2> QED BY <2>1, <2>2
<1>13. z = (IF x.menor <= 1000 THEN x.menor ELSE x.mayor)
  <2>1. CASE P >= Q
    BY <1>3, <1>6, <1>10, <2>1
  <2>2. CASE ~(P >= Q)
    BY <1>3, <1>6, <1>10, <2>2
  <2> QED BY <2>1, <2>2
<1> QED BY <1>11, <1>12, <1>13 DEF x, y, z
----------------------------------------------------------------------------
(* The alarms. *)

\* Which alarm puts each bit of 0x359 that both protocols have.
LEMMA BitsDeLV ==
  ASSUME NEW a, NEW e \in BOOLEAN
  PROVE  /\ 7 \in Tabla1(a) <=> "discharging_overcurrent" \in a
         /\ 4 \in Tabla1(a) <=> "battery_low_temperature" \in a
         /\ 3 \in Tabla1(a) <=> Calor(a)
         /\ 2 \in Tabla1(a) <=> "cell_undervoltage" \in a
         /\ 1 \in Tabla1(a) <=> "cell_overvoltage" \in a
         /\ 0 \in Tabla2(a, e) <=> "charging_overcurrent" \in a
         /\ 3 \in Tabla2(a, e) <=> e
<1>1. Calor(a) \in BOOLEAN
  BY DEF Calor
<1> QED BY <1>1 DEF Tabla1, Tabla2, Bit

\* And each of 0x4250 and 0x4290.
LEMMA BitsDeHV ==
  ASSUME NEW j, NEW a, a = j.alarmas, NEW e \in BOOLEAN
  PROVE  /\ 9 \in AlarmaHV(j) <=> "discharging_overcurrent" \in a
         /\ 8 \in AlarmaHV(j) <=> "charging_overcurrent" \in a
         /\ 7 \in AlarmaHV(j) <=> "battery_over_temperature" \in a
         /\ 6 \in AlarmaHV(j) <=> "battery_low_temperature" \in a
         /\ 5 \in AlarmaHV(j) <=> "battery_over_temperature" \in a
         /\ 4 \in AlarmaHV(j) <=> "battery_low_temperature" \in a
         /\ 1 \in AlarmaHV(j) <=> "cell_overvoltage" \in a
         /\ 0 \in AlarmaHV(j) <=> "cell_undervoltage" \in a
         /\ 6 \in ErrorHV(a, e) <=> "cell_overvoltage" \in a \/ "cell_undervoltage" \in a
         /\ 2 \in ErrorHV(a, e) <=> e
         /\ 2 \in Bit(2, e) <=> e
<1>1. /\ 9 \in AlarmaHV(j) <=> "discharging_overcurrent" \in a
      /\ 8 \in AlarmaHV(j) <=> "charging_overcurrent" \in a
      /\ 7 \in AlarmaHV(j) <=> "battery_over_temperature" \in a
      /\ 6 \in AlarmaHV(j) <=> "battery_low_temperature" \in a
      /\ 5 \in AlarmaHV(j) <=> "battery_over_temperature" \in a
      /\ 4 \in AlarmaHV(j) <=> "battery_low_temperature" \in a
      /\ 1 \in AlarmaHV(j) <=> "cell_overvoltage" \in a
      /\ 0 \in AlarmaHV(j) <=> "cell_undervoltage" \in a
  BY DEF AlarmaHV, Bit
<1>2. /\ 6 \in ErrorHV(a, e) <=> "cell_overvoltage" \in a \/ "cell_undervoltage" \in a
      /\ 2 \in ErrorHV(a, e) <=> e
      /\ 2 \in Bit(2, e) <=> e
  BY DEF ErrorHV, Bit
<1> QED BY <1>1, <1>2

\* An alarm of 0x359 keeps the battery idle.
LEMMA InactivaConAlarma ==
  ASSUME NEW j, NEW e \in BOOLEAN, Tabla1(j.alarmas) # {} \/ 0 \in Tabla2(j.alarmas, e)
  PROVE  Estado(j) = 3
<1> DEFINE a == j.alarmas
<1>1. a \ {"low_capacity"} # {}
  <2>1. CASE Tabla1(a) # {}
    <3>1. \/ "discharging_overcurrent" \in a \/ "battery_low_temperature" \in a
          \/ "battery_over_temperature" \in a \/ "overtemperature_alarm_battery_box" \in a
          \/ "power_tube_overtemperature" \in a
          \/ "cell_undervoltage" \in a \/ "cell_overvoltage" \in a
      BY <2>1 DEF Tabla1, Calor, Bit
    <3> QED BY <3>1
  <2>2. CASE 0 \in Tabla2(a, e)
    <3>1. "charging_overcurrent" \in a
      BY <2>2 DEF Tabla2, Bit
    <3> QED BY <3>1
  <2> QED BY <2>1, <2>2
<1> QED BY <1>1 DEF Estado

\* The state and the request to charge are read apart from one byte.
LEMMA EstadoYPeticion ==
  ASSUME NEW j, j.emergencia \in BOOLEAN
  PROVE  /\ Basico(j) % 8 = Estado(j)
         /\ Basico(j) \div 8 = (IF j.emergencia THEN 1 ELSE 0)
<1>1. Estado(j) \in 0 .. 3
  BY DEF Estado
<1>2. \A n \in 0 .. 3 : /\ (n + 8) % 8 = n /\ (n + 8) \div 8 = 1
                        /\ (n + 0) % 8 = n /\ (n + 0) \div 8 = 0
  BY Z3
<1>3. CASE j.emergencia
  <2>1. Basico(j) = Estado(j) + 8
    BY <1>3 DEF Basico
  <2> HIDE DEF Basico
  <2> QED BY <1>1, <1>2, <1>3, <2>1
<1>4. CASE ~j.emergencia
  <2>1. Basico(j) = Estado(j) + 0
    BY <1>4 DEF Basico
  <2> QED BY <1>1, <1>2, <1>4, <2>1
<1> QED BY <1>3, <1>4
----------------------------------------------------------------------------
\* The parser's copy is of the last measure, and what was sent since is of that
\* copy.
Parseado == Cabe(medida) /\ jk = ParseJK(medida) /\ error \in BOOLEAN

Enviado ==
  /\ lv # Nada => lv = TramasLV(jk, error)
  /\ hv # Nada => hv = TramasHV(jk, error)

\* Each step keeps them: a new reading, or the silence of the BMS, is one that
\* nothing was sent of yet.
LEMMA EnviadoDeLoParseado == Spec => []Parseado /\ []Enviado
<1>1. Init => Parseado /\ Enviado
  BY LecturasCaben DEF Init, Parseado, Enviado
<1>2. Parseado /\ Enviado /\ [Next]_vars => Parseado' /\ Enviado'
  <2> SUFFICES ASSUME Parseado, Enviado, [Next]_vars PROVE Parseado' /\ Enviado'
    OBVIOUS
  <2>1. CASE Mide
    BY <2>1, LecturasCaben DEF Mide, Parseado, Enviado
  <2>2. CASE Calla
    BY <2>2 DEF Calla, Parseado, Enviado
  <2>3. CASE EnviaLV
    <3>1. Parseado'
      BY <2>3 DEF EnviaLV, Parseado
    <3>2. lv' = TramasLV(jk', error')
      BY <2>3 DEF EnviaLV
    <3>3. hv' # Nada => hv' = TramasHV(jk', error')
      BY <2>3 DEF EnviaLV, Enviado
    <3> QED BY <3>1, <3>2, <3>3 DEF Enviado
  <2>4. CASE EnviaHV
    <3>1. Parseado'
      BY <2>4 DEF EnviaHV, Parseado
    <3>2. hv' = TramasHV(jk', error')
      BY <2>4 DEF EnviaHV
    <3>3. lv' # Nada => lv' = TramasLV(jk', error')
      BY <2>4 DEF EnviaHV, Enviado
    <3> QED BY <3>1, <3>2, <3>3 DEF Enviado
  <2>5. CASE UNCHANGED vars
    BY <2>5 DEF vars, Parseado, Enviado
  <2> QED BY <2>1, <2>2, <2>3, <2>4, <2>5 DEF Next
<1> QED BY <1>1, <1>2, PTL DEF Spec

\* What was parsed is what was measured.
LEMMA JKEsMedida ==
  ASSUME Parseado
  PROVE  /\ jk.t1 = medida.t1 /\ jk.t2 = medida.t2 /\ jk.v = medida.v /\ jk.i = medida.i
         /\ jk.cargaA = medida.cargaA /\ jk.descargaA = medida.descargaA
         /\ jk.cargaV = medida.cargaV /\ jk.alarmas = medida.alarmas
         /\ jk.emergencia = medida.emergencia
BY ParseadoEsMedido DEF Parseado

\* What the inverter reads in the frames of its protocol is what the BMS
\* measured: the voltage, the current with its sign, the temperatures and the
\* limits, to the resolution of the frames, whatever the measure.
THEOREM LecturasFieles == Spec => []LecturaLV /\ []LecturaHV
<1>1. Parseado /\ Enviado => LecturaLV
  <2> SUFFICES ASSUME Parseado, Enviado, lv # Nada PROVE LecturaLV
    BY DEF LecturaLV
  <2> DEFINE v == medida.v
             w == medida.i
             p == medida.t1
             q == medida.t2
             c == medida.cargaA
             d == medida.descargaA
  <2>1. /\ v \in Int /\ 0 <= v /\ v <= 32767
        /\ w \in Int /\ -32767 <= w /\ w <= 32767
        /\ p \in Int /\ -40 <= p /\ p <= 100
        /\ q \in Int /\ -40 <= q /\ q <= 100
        /\ c \in Int /\ 0 <= c /\ c <= 3000
        /\ d \in Int /\ 0 <= d /\ d <= 3000
    BY DEF Parseado, Cabe, Grados, Tension, Corriente, Limite
  <2>2. /\ jk.v = v /\ jk.i = w /\ jk.t1 = p /\ jk.t2 = q
        /\ jk.cargaA = c /\ jk.descargaA = d
    BY JKEsMedida
  <2> HIDE DEF v, w, p, q, c, d
  <2>3. /\ lv.x356 = parseJK_message_0x356(jk)
        /\ lv.x351 = parseJK_message_0x351(jk)
    BY DEF Enviado, TramasLV
  <2>4. /\ lv.x356.v = Sin16(v) /\ lv.x356.i = Sin16(DivC(w, 10))
        /\ lv.x356.t = Sin16(DivC(p + q, 2) * 10)
        /\ lv.x351.carga = Sin16(c * 10) /\ lv.x351.descarga = Sin16(-10 * d)
    BY <2>2, <2>3 DEF parseJK_message_0x356, parseJK_message_0x351
  <2>5. /\ Con16(Sin16(v)) = v
        /\ Abs(10 * Con16(Sin16(DivC(w, 10))) - w) < 10
        /\ Con16(Sin16(DivC(w, 10))) * w >= 0
        /\ Abs(2 * Con16(Sin16(DivC(p + q, 2) * 10)) - 10 * (p + q)) <= 10
        /\ Con16(Sin16(c * 10)) = 10 * c
        /\ Con16(Sin16(-10 * d)) = -10 * d
    BY PalabrasLV, Zenon DEF Parseado, v, w, p, q, c, d
  <2>6. Con16(lv.x356.v) = v
    BY ONLY <2>4, <2>5, Zenon
  <2>7. Abs(10 * Con16(lv.x356.i) - w) < 10 /\ Con16(lv.x356.i) * w >= 0
    BY ONLY <2>4, <2>5, Zenon
  <2>8. Abs(2 * Con16(lv.x356.t) - 10 * (p + q)) <= 10
    BY ONLY <2>4, <2>5, Zenon
  <2>9. Con16(lv.x351.carga) = 10 * c /\ Con16(lv.x351.descarga) = -10 * d
    BY ONLY <2>4, <2>5, Zenon
  <2>10. medida.cargaV - 10 * lv.x351.v \in 0 .. 9
    <3>1. lv.x351.v = medida.cargaV \div 10
      BY <2>3, JKEsMedida DEF parseJK_message_0x351
    <3>2. medida.cargaV - 10 * (medida.cargaV \div 10) \in 0 .. 9
      BY DecimasDeVoltio DEF Parseado, Cabe
    <3> QED BY ONLY <3>1, <3>2, Zenon
  <2> QED BY <2>6, <2>7, <2>8, <2>9, <2>10, Zenon DEF LecturaLV, v, w, p, q, c, d
<1>2. Parseado /\ Enviado => LecturaHV
  <2> SUFFICES ASSUME Parseado, Enviado, hv # Nada PROVE LecturaHV
    BY DEF LecturaHV
  <2> DEFINE v == medida.v
             w == medida.i
             p == medida.t1
             q == medida.t2
             c == medida.cargaA
             d == medida.descargaA
  <2>1. /\ v \in Int /\ 0 <= v /\ v <= 32767
        /\ w \in Int /\ -32767 <= w /\ w <= 32767
        /\ p \in Int /\ -40 <= p /\ p <= 100
        /\ q \in Int /\ -40 <= q /\ q <= 100
        /\ c \in Int /\ 0 <= c /\ c <= 3000
        /\ d \in Int /\ 0 <= d /\ d <= 3000
    BY DEF Parseado, Cabe, Grados, Tension, Corriente, Limite
  <2>2. /\ jk.v = v /\ jk.i = w /\ jk.t1 = p /\ jk.t2 = q
        /\ jk.cargaA = c /\ jk.descargaA = d
    BY JKEsMedida
  <2> HIDE DEF v, w, p, q, c, d
  <2>3. /\ hv.x4210 = parseJK_message_0x4210(jk) /\ hv.x4220 = parseJK_message_0x4220(jk)
        /\ hv.x4240 = parseJK_message_0x4240(jk) /\ hv.x4260 = parseJK_message_0x4260(jk)
    BY DEF Enviado, TramasHV
  <2>4. hv.x4210.v = v \div 10 /\ hv.x4210.i = Sin16(DivC(w, 10) + 30000)
    BY <2>2, <2>3 DEF parseJK_message_0x4210
  <2>11. /\ hv.x4220.carga = Sin16(30000 + c * 10)
         /\ hv.x4220.descarga = Sin16(30000 - d * 10)
    BY <2>2, <2>3 DEF parseJK_message_0x4220
  <2>12. /\ hv.x4240.t1 = Sin16(1000 + Sin16(p) * 10)
         /\ hv.x4240.t2 = Sin16(1000 + Sin16(q) * 10)
    BY <2>2, <2>3 DEF parseJK_message_0x4240
  <2>13. hv.x4260.v = Sin16(v * 10)
    BY <2>2, <2>3 DEF parseJK_message_0x4260
  <2>5. /\ v - 10 * (v \div 10) \in 0 .. 9
        /\ Abs(10 * (Sin16(DivC(w, 10) + 30000) - 30000) - w) < 10
        /\ (Sin16(DivC(w, 10) + 30000) - 30000) * w >= 0
        /\ Sin16(30000 + c * 10) - 30000 = 10 * c
        /\ 30000 - Sin16(30000 - d * 10) = 10 * d
        /\ Sin16(1000 + Sin16(p) * 10) - 1000 = 10 * p
        /\ Sin16(1000 + Sin16(q) * 10) - 1000 = 10 * q
        /\ v < 6554 => Sin16(v * 10) = 10 * v
    BY PalabrasHV DEF Parseado, v, w, p, q, c, d
  <2>6. v - 10 * hv.x4210.v \in 0 .. 9
    BY ONLY <2>4, <2>5
  <2>7. Abs(10 * (hv.x4210.i - 30000) - w) < 10 /\ (hv.x4210.i - 30000) * w >= 0
    BY ONLY <2>4, <2>5
  <2>8. hv.x4220.carga - 30000 = 10 * c /\ 30000 - hv.x4220.descarga = 10 * d
    BY ONLY <2>11, <2>5
  <2>9. hv.x4240.t1 - 1000 = 10 * p /\ hv.x4240.t2 - 1000 = 10 * q
    BY ONLY <2>12, <2>5
  <2>10. v < 6554 => hv.x4260.v = 10 * v
    BY ONLY <2>13, <2>5
  <2>14. medida.cargaV - 10 * hv.x4220.v \in 0 .. 9
    <3>1. hv.x4220.v = medida.cargaV \div 10
      BY <2>3, JKEsMedida DEF parseJK_message_0x4220
    <3>2. medida.cargaV - 10 * (medida.cargaV \div 10) \in 0 .. 9
      BY DecimasDeVoltio DEF Parseado, Cabe
    <3> QED BY ONLY <3>1, <3>2, Zenon
  <2> QED BY <2>6, <2>7, <2>8, <2>9, <2>10, <2>14 DEF LecturaHV, v, w, p, q, c, d
<1> QED BY <1>1, <1>2, EnviadoDeLoParseado, PTL

\* The frames of one burst do not contradict each other about the heat and the
\* cold.  Nor do the two protocols about the silence and the alarms they share,
\* one by one: the bits of one are those of the other and those the BMS raised,
\* and the byte of the state says idle, with the request to force a charge next to
\* it exactly when the BMS has its emergency.
THEOREM TramasConcuerdan == Spec => []Extremos /\ []MismasAlarmas
<1>1. Parseado /\ Enviado => Extremos
  <2> SUFFICES ASSUME Parseado, Enviado, hv # Nada PROVE Extremos
    BY DEF Extremos
  <2>1. Grados(jk.t1) /\ Grados(jk.t2)
    BY JKEsMedida DEF Parseado, Cabe
  <2>2. /\ hv.x4210 = parseJK_message_0x4210(jk) /\ hv.x4240 = parseJK_message_0x4240(jk)
        /\ hv.x4270 = parseJK_message_0x4270(jk)
    BY DEF Enviado, TramasHV
  <2> QED BY <2>1, <2>2, PalabrasDelCalor DEF Extremos
<1>2. Parseado /\ Enviado => MismasAlarmas
  <2> SUFFICES ASSUME Parseado, Enviado, lv # Nada, hv # Nada PROVE MismasAlarmas
    BY DEF MismasAlarmas
  <2> DEFINE a == medida.alarmas
             e == error
  <2>1. medida.alarmas = a /\ jk.alarmas = a /\ e \in BOOLEAN
    BY JKEsMedida DEF Parseado
  <2>2. lv.x359.tabla1 = Tabla1(a) /\ lv.x359.tabla2 = Tabla2(a, e)
    BY <2>1 DEF Enviado, TramasLV
  <2>3. /\ hv.x4250.alarma = AlarmaHV(jk) /\ hv.x4250.error = ErrorHV(a, e)
        /\ hv.x4250.basico = Basico(jk) /\ hv.x4290 = Bit(2, e)
    BY <2>1 DEF Enviado, TramasHV
  <2>4. /\ EnLosDos("discharging_overcurrent", 7 \in Tabla1(a), {9})
        /\ EnLosDos("charging_overcurrent", 0 \in Tabla2(a, e), {8})
        /\ EnLosDos("battery_low_temperature", 4 \in Tabla1(a), {4, 6})
        /\ EnLosDos("cell_undervoltage", 2 \in Tabla1(a), {0})
        /\ EnLosDos("cell_overvoltage", 1 \in Tabla1(a), {1})
    BY <2>1, <2>3, BitsDeLV, BitsDeHV DEF EnLosDos
  <2>5. /\ (5 \in AlarmaHV(jk)) = (7 \in AlarmaHV(jk))
        /\ 5 \in AlarmaHV(jk) => 3 \in Tabla1(a)
        /\ (6 \in ErrorHV(a, e)) = (1 \in Tabla1(a) \/ 2 \in Tabla1(a))
        /\ (3 \in Tabla2(a, e)) = (2 \in ErrorHV(a, e))
        /\ (2 \in ErrorHV(a, e)) = (2 \in Bit(2, e))
    BY <2>1, BitsDeLV, BitsDeHV DEF Calor
  <2>6. Tabla1(a) # {} \/ 0 \in Tabla2(a, e) => Basico(jk) % 8 = 3
    <3>1. jk.emergencia \in BOOLEAN
      BY JKEsMedida DEF Parseado, Cabe
    <3> QED BY <2>1, <3>1, InactivaConAlarma, EstadoYPeticion
  <2>7. Basico(jk) \div 8 = (IF medida.emergencia THEN 1 ELSE 0)
    BY JKEsMedida, EstadoYPeticion DEF Parseado, Cabe
  <2> QED BY <2>2, <2>3, <2>4, <2>5, <2>6, <2>7, Zenon DEF MismasAlarmas
<1> QED BY <1>1, <1>2, EnviadoDeLoParseado, PTL
=============================================================================
