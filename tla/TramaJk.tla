------------------------------- MODULE TramaJk -------------------------------
(***************************************************************************)
(* How a frame of the BMS is recognised: the buffer of                     *)
(* capturarSerial2ToColaLectura_task, JK_bms_check_header,                 *)
(* JK_Battery_485_Check_Frame_CRC and the queue to the parser.             *)
(*                                                                         *)
(* A frame is a start mark, its length, the data, a filling, and the sum   *)
(* of everything before the filling.  Here each of them is one element of  *)
(* a sequence (two bytes in the code, and the data are longer), and the    *)
(* sum is taken modulo `Modulo' (2^16), which a whole frame exceeds.       *)
(*                                                                         *)
(* BmsLink, where frames are told from noise, rests on what is shown here. *)
(***************************************************************************)
EXTENDS Integers, Sequences

CONSTANTS
  Datos,     \* what an element of the data may be
  Largo,     \* elements of data
  Modulo,
  CapCola    \* of colaPuertoSerie (main.cpp:168)

ASSUME TramaAssumption ==
  /\ Datos \subseteq Nat /\ 0 \in Datos /\ Largo \in Nat \ {0, 1} /\ CapCola \in Nat \ {0}
  /\ Modulo \in Nat \ {0} /\ \A d \in Datos : d < Modulo

\* The start mark, and the index from 0 of the sum: what the length says.
Marca == 9
LargoTrama == Largo + 3

\* The answer to a write has one element of data (20 or 21 bytes).
LargoCorto == 4

\* bufferStream, of 512 bytes: more than a frame.
Tam == LargoTrama + 2
Borrado == [k \in 0 .. Tam - 1 |-> 0]

\* computed_crc after the first n elements of data, which count from 0.
SumaDe(data, n) ==
  LET hasta[k \in 0 .. n] == IF k = 0 THEN 0 ELSE (hasta[k - 1] + data[k - 1]) % Modulo
  IN  hasta[n]

\* What a sequence puts into the buffer.
DesdeCero(s) == [k \in 0 .. Len(s) - 1 |-> s[k + 1]]

ConSuma(s) == s \o <<0, SumaDe(DesdeCero(s), Len(s))>>

Cargas == [1 .. Largo -> Datos]
Trama(carga) == ConSuma(<<Marca, LargoTrama>> \o carga)

Cortas == {ConSuma(<<Marca, LargoCorto, d>>) : d \in Datos}

VARIABLES
  linea,    \* the bytes one read returns, or <<>>
  bufer,    \* bufferStream
  leidos,   \* how many were read into it
  pc,       \* the capture task: "lee" or "mira"
  cola,     \* colaPuertoSerie
  enviada,  \* auxiliary: the frame sent last,
  como      \* and how it came: "entera", "rota" or "otra" (no frame)

capturaVars == <<linea, bufer, leidos, pc, cola, enviada, como>>

CapturaInit ==
  /\ linea = <<>> /\ bufer = Borrado /\ leidos = 0 /\ pc = "lee"
  /\ cola = <<>>
  /\ enviada = <<>> /\ como = "otra"
----------------------------------------------------------------------------
(* The line: a read ends after a second of silence. *)

Recorta(t) == {SubSeq(t, 1, k) : k \in 1 .. Len(t) - 1}
Altera(t, k, x) == [t EXCEPT ![k] = x]

LineaLibre == linea = <<>> /\ pc = "lee"

\* A whole frame, and perhaps the beginning of something else behind it.
LlegaEntera ==
  /\ LineaLibre
  /\ \E carga \in Cargas, cola1 \in {<<>>, <<Marca>>} :
       linea' = Trama(carga) \o cola1 /\ enviada' = carga
  /\ como' = "entera"
  /\ UNCHANGED <<bufer, leidos, pc, cola>>

\* The BMS or the line breaks off, or one element after the length is read
\* wrong (the data, the filling or the sum).
LlegaRota ==
  /\ LineaLibre
  /\ \E carga \in Cargas :
       /\ enviada' = carga
       /\ linea' \in Recorta(Trama(carga)) \cup
            {Altera(Trama(carga), k, x) : k \in 3 .. Largo + 4, x \in Datos}
       /\ linea' # Trama(carga)
  /\ como' = "rota"
  /\ UNCHANGED <<bufer, leidos, pc, cola>>

\* The answer to a write, or noise before a frame.
LlegaOtra ==
  /\ LineaLibre
  /\ linea' \in Cortas \cup {<<0>> \o Trama(carga) : carga \in Cargas}
  /\ como' = "otra" /\ enviada' = <<>>
  /\ UNCHANGED <<bufer, leidos, pc, cola>>
----------------------------------------------------------------------------
(* The capture task. *)

\* Serial2.readBytes writes over what the buffer holds.
Captura ==
  /\ linea # <<>> /\ pc = "lee"
  /\ pc' = "mira"
  /\ bufer' = [k \in 0 .. Tam - 1 |->
                 IF k < Len(linea) THEN linea[k + 1] ELSE bufer[k]]
  /\ leidos' = Len(linea) /\ linea' = <<>>
  /\ UNCHANGED <<cola, enviada, como>>

JK_bms_check_header(data) == data[0] = Marca /\ data[1] > LargoCorto

\* Mutant: the sum is not compared.
MutanteCheckCRC(data, n) == n >= LargoCorto + 1 /\ data[1] \in 2 .. Tam - 1

\* Mutant: the test of the length is the other way round.
MutanteCheckCorto(data, n) ==
  /\ n < LargoCorto + 1
  /\ data[data[1]] = SumaDe(data, data[1] - 1)

\* 23 bytes are the length of the answer to a write.
JK_Battery_485_Check_Frame_CRC(data, n) ==
  /\ n >= LargoCorto + 1
  /\ data[data[1]] = SumaDe(data, data[1] - 1)

Buena == JK_bms_check_header(bufer) /\ JK_Battery_485_Check_Frame_CRC(bufer, leidos)

Borra == bufer' = Borrado /\ leidos' = 0

\* Parse looks at the data only.
DatosDe(data) == [k \in 1 .. Largo |-> data[k + 1]]

Olvida == enviada' = <<>> /\ como' = "otra"

Descarta ==
  /\ pc = "mira" /\ ~Buena
  /\ pc' = "lee" /\ Borra /\ Olvida
  /\ UNCHANGED <<linea, cola>>

Encola ==
  /\ pc = "mira" /\ Buena /\ Len(cola) < CapCola
  /\ pc' = "lee" /\ Borra /\ Olvida
  /\ cola' = Append(cola, DatosDe(bufer))
  /\ UNCHANGED linea

\* The queue stays full for 200 ms.
ColaLlena ==
  /\ pc = "mira" /\ Buena /\ Len(cola) = CapCola
  /\ pc' = "lee" /\ Borra /\ Olvida
  /\ UNCHANGED <<linea, cola>>

Recoge ==
  /\ cola # <<>>
  /\ cola' = Tail(cola)
  /\ UNCHANGED <<linea, bufer, leidos, pc, enviada, como>>

CapturaNext == LlegaEntera \/ LlegaRota \/ LlegaOtra \/ Captura \/ Descarta \/ Encola
                 \/ ColaLlena \/ Recoge

CapturaSpec == CapturaInit /\ [][CapturaNext]_capturaVars
----------------------------------------------------------------------------
(* Properties. *)

\* Every variable keeps to its values; between two reads the buffer is empty.
CapturaTypeOK ==
  /\ pc \in {"lee", "mira"} /\ leidos \in 0 .. Tam
  /\ DOMAIN bufer = 0 .. Tam - 1
  /\ cola \in Seq(Cargas) /\ Len(cola) <= CapCola
  /\ pc = "lee" => bufer = Borrado /\ leidos = 0

\* The sum that closes the frame did not arrive, and the elements that did
\* add up to the zero the erased buffer has in its place.
SumaCero == leidos <= LargoTrama /\ SumaDe(bufer, leidos) = 0

\* What goes to the parser is the frame the BMS sent, data by data: never a
\* frame completed with the rest of an earlier one, nor one with an element
\* read wrong.  The one exception is a frame cut short that adds up to a
\* multiple of 2^16.
SoloTramas ==
  (pc = "mira" /\ Buena) =>
     /\ como # "otra"
     /\ enviada = DatosDe(bufer) \/ SumaCero

\* A frame that came whole is taken, whatever came before it.
EnteraVale == (pc = "mira" /\ como = "entera") => Buena
=============================================================================
