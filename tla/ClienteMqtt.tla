---------------------------- MODULE ClienteMqtt ----------------------------
(***************************************************************************)
(* The MQTT client and the page of its settings.                           *)
(*                                                                         *)
(* Every 3 s enviarDatosMqtt_task publishes when there is a session, asks  *)
(* the library for one when there is none, or ends it when MQTT is off.    *)
(* It reads the address of the broker member by member, from the struct    *)
(* that salvarmqtt assigns member by member in another task, and on        *)
(* connection the library's task reads the topic.  What is published is    *)
(* left out.  sscanf reads each octet of the address as an unsigned short: *)
(* the last one also clears the low byte of portmqtt, which comes next in  *)
(* the struct.                                                             *)
(*                                                                         *)
(* The handler of InfluxDB (salvarinfluxdb, PortalWeb.cpp:189) assigns the *)
(* same two members and saves.  Its route is there, but its form is        *)
(* commented out of data/principal.html, so no page submits it and it is   *)
(* no action here; with it AjustesEnteros would not hold.                  *)
(***************************************************************************)
EXTENDS Integers, Sequences, Persistencia

CONSTANT Brokers   \* what the page may submit

\* The octets of an address are one member, nodo.
ASSUME BrokersAssumption == Brokers \subseteq [nodo : Nat, puerto : Nat]

\* What the address overwrites of the port.
SinByteBajo(p) == p - (p % 256)

Nodos == {d.nodo : d \in Brokers}
Puertos == {d.puerto : d \in Brokers} \cup {SinByteBajo(d.puerto) : d \in Brokers}
Destino == [nodo : Nodos, puerto : Puertos]

\* Each broker has its topic; the client is enabled or not.
Tema(d) == d.nodo
Formularios == {[marcado |-> m, destino |-> d] : m \in BOOLEAN, d \in Brokers}

VARIABLES
  pcW,        \* the web server task
  pendW,      \* assignments salvarmqtt has still to make
  pcM,        \* enviarDatosMqtt_task
  leido,      \* the part of the address it has read
  destino,    \* the server the library was given last
  sesion,     \* the connection: its state, its broker and its topic
  wifi,       \* WiFi.isConnected()
  ultimo,     \* Auxiliary: the form that was saved last
  entero      \* Auxiliary: no restart cut the page of it or of a later one

webVars == <<pcW, pendW, ultimo, entero>>
mqttVars == <<pcM, leido, destino, sesion>>
clienteVars == <<cfgVars, webVars, mqttVars, wifi>>

Escrito(f) == [comunicarMQTT |-> f.marcado, nodo |-> f.destino.nodo,
               puerto |-> f.destino.puerto, tema |-> Tema(f.destino)]

DestinoDe(c) == [nodo |-> c.nodo, puerto |-> c.puerto]

SinSesion == [estado |-> "no"]

MqttInit ==
  /\ ultimo \in Formularios
  /\ cfg = Escrito(ultimo) /\ buf = cfg /\ flash = cfg /\ abierta = TRUE
  /\ pcW = "espera" /\ pendW = <<>> /\ entero = TRUE
  /\ pcM = "listo" /\ leido = DestinoDe(cfg) /\ destino = leido /\ sesion = SinSesion
  /\ wifi \in BOOLEAN

----------------------------------------------------------------------------
(* The page of the settings. *)

\* The assignments of salvarmqtt: a member and its value.
Desmarca == <<"comunicarMQTT", FALSE>>
Marca == <<"comunicarMQTT", TRUE>>
PonNodo(f) == <<"nodo", f.destino.nodo>>
PonPuerto(f) == <<"puerto", f.destino.puerto>>
PonTema(f) == <<"tema", Tema(f.destino)>>

\* Mutant: the port is assigned before the address.
MutanteAsignaciones(f) ==
  IF f.marcado THEN <<Desmarca, Marca, PonPuerto(f), PonNodo(f), PonTema(f)>>
  ELSE <<Desmarca, PonPuerto(f), PonNodo(f), PonTema(f)>>

\* In its order.
Asignaciones(f) ==
  IF f.marcado THEN <<Desmarca, Marca, PonNodo(f), PonPuerto(f), PonTema(f)>>
  ELSE <<Desmarca, PonNodo(f), PonPuerto(f), PonTema(f)>>

salvarmqtt ==
  /\ pcW = "espera" /\ pcW' = "asigna"
  /\ \E f \in Formularios : ultimo' = f /\ pendW' = Asignaciones(f)
  /\ UNCHANGED <<cfgVars, mqttVars, wifi, entero>>

\* That of the address ends in the low byte of the port.
Puesto(c, m, x) ==
  IF m = "nodo" THEN [c EXCEPT !.nodo = x, !.puerto = SinByteBajo(@)]
  ELSE [c EXCEPT ![m] = x]

Asigna ==
  /\ pendW # <<>> /\ pendW' = Tail(pendW)
  /\ cfg' = Puesto(cfg, Head(pendW)[1], Head(pendW)[2])
  /\ UNCHANGED <<buf, flash, abierta, pcW, ultimo, entero, mqttVars, wifi>>

PutMqtt ==
  /\ pcW = "asigna" /\ pendW = <<>> /\ pcW' = "commit"
  /\ Put
  /\ UNCHANGED <<pendW, ultimo, entero, mqttVars, wifi>>

CommitMqtt ==
  /\ pcW = "commit" /\ pcW' = "espera"
  /\ entero' = TRUE
  /\ Commit
  /\ UNCHANGED <<pendW, ultimo, mqttVars, wifi>>

PaginaMqtt == salvarmqtt \/ Asigna \/ PutMqtt \/ CommitMqtt

\* The parser saves the struct as it stands, this page half assigned or not.
SalvaParser ==
  /\ buf' = cfg /\ flash' = cfg
  /\ UNCHANGED <<cfg, abierta, webVars, mqttVars, wifi>>

\* setup() gives the library the server it read from flash.
setupMqtt ==
  /\ pcM' = "listo" /\ sesion' = SinSesion
  /\ leido' = DestinoDe(cfg') /\ destino' = DestinoDe(cfg')

\* A restart.  That of the reset button comes after configuracionInicial
\* cleared the flag and saved it; the page was then at rest or is cut.
Reinicio ==
  /\ \E c \in {flash, [cfg EXCEPT !.comunicarMQTT = FALSE]} :
       flash' = c /\ cfg' = c /\ buf' = c
  /\ UNCHANGED abierta
  /\ pcW' = "espera" /\ pendW' = <<>>
  /\ entero' = (entero /\ pcW = "espera" /\ flash' = flash)
  /\ setupMqtt
  /\ UNCHANGED <<ultimo, wifi>>

----------------------------------------------------------------------------
(* enviarDatosMqtt_task. *)

Pasa(de, a) == pcM = de /\ pcM' = a

Activo == cfg.comunicarMQTT /\ wifi

\* The test of a turn that finds no session and wants one.
Pide ==
  /\ Pasa("listo", "nodo")
  /\ Activo /\ sesion.estado # "hecha"
  /\ UNCHANGED <<cfgVars, webVars, leido, destino, sesion, wifi>>

LeeNodo ==
  /\ Pasa("nodo", "puerto")
  /\ leido' = [leido EXCEPT !.nodo = cfg.nodo]
  /\ UNCHANGED <<cfgVars, webVars, destino, sesion, wifi>>

\* Mutant: the server is the one setup() gave the library.
MutanteSetServer ==
  /\ Pasa("puerto", "connect")
  /\ UNCHANGED <<cfgVars, webVars, leido, destino, sesion, wifi>>

setServer ==
  /\ Pasa("puerto", "connect")
  /\ destino' = [leido EXCEPT !.puerto = cfg.puerto]
  /\ leido' = destino'
  /\ UNCHANGED <<cfgVars, webVars, sesion, wifi>>

\* connect(): the library ignores it while it is trying or has a session.
Conecta ==
  /\ Pasa("connect", "listo")
  /\ sesion' = IF sesion.estado = "no" THEN [estado |-> "intento", destino |-> destino]
               ELSE sesion
  /\ UNCHANGED <<cfgVars, webVars, leido, destino, wifi>>

\* Mutant: MQTT off only empties the queue of the library.
MutanteDesconecta ==
  /\ Pasa("listo", "listo") /\ ~Activo
  /\ UNCHANGED <<cfgVars, webVars, leido, destino, sesion, wifi>>

\* MQTT is off: disconnect() ends a session, and does not stop an attempt.
Desconecta ==
  /\ Pasa("listo", "listo") /\ ~Activo
  /\ sesion' = IF sesion.estado = "hecha" THEN SinSesion ELSE sesion
  /\ UNCHANGED <<cfgVars, webVars, leido, destino, wifi>>

Tarea == Pide \/ LeeNodo \/ setServer \/ Conecta \/ Desconecta

----------------------------------------------------------------------------
(* The library, the brokers and the network. *)

\* Somebody answers at the address; onConnect subscribes to the topic.
Responde ==
  /\ sesion.estado = "intento"
  /\ sesion' = [estado |-> "hecha", destino |-> sesion.destino, tema |-> cfg.tema]
  /\ UNCHANGED <<cfgVars, webVars, pcM, leido, destino, wifi>>

\* Nobody does, or the session breaks.
Cae ==
  /\ sesion.estado # "no"
  /\ sesion' = SinSesion
  /\ UNCHANGED <<cfgVars, webVars, pcM, leido, destino, wifi>>

CambiaWifi ==
  /\ wifi' = ~wifi
  /\ UNCHANGED <<cfgVars, webVars, mqttVars>>

MqttNext == PaginaMqtt \/ SalvaParser \/ Reinicio \/ Tarea \/ Responde \/ Cae \/ CambiaWifi

\* The two tasks run, and an attempt ends one way or the other.
Equidad == /\ WF_clienteVars(Asigna \/ PutMqtt \/ CommitMqtt) /\ WF_clienteVars(Tarea)
           /\ WF_clienteVars(sesion.estado = "intento" /\ (Responde \/ Cae))

MqttSpec == MqttInit /\ [][MqttNext]_clienteVars

MqttSpecJusta == MqttSpec /\ Equidad
----------------------------------------------------------------------------
(* Properties. *)

MqttTypeOK ==
  /\ DestinoDe(cfg) \in Destino /\ DestinoDe(flash) \in Destino
  /\ pcW \in {"espera", "asigna", "commit"}
  /\ pcM \in {"listo", "nodo", "puerto", "connect"}
  /\ leido \in Destino /\ destino \in Destino
  /\ sesion.estado \in {"no", "intento", "hecha"}
  /\ wifi \in BOOLEAN /\ entero \in BOOLEAN

\* When the page is done, RAM and flash hold just the form, the port too, which
\* the address overwrites on the way; the parser may save in the middle.  Not
\* so after a restart that cut the page: what it left may mix two forms.
AjustesEnteros ==
  (pcW = "espera" /\ entero) => cfg = Escrito(ultimo) /\ flash = cfg

\* MQTT that stays off, or without WiFi, ends with no session, although an
\* attempt may have been under way.
ApagadoCorta == (<>[]~Activo) => <>[](sesion.estado # "hecha")

\* Settings that stand are taken up: a session that was made with the former
\* ones, or with an address read half written, lasts until it breaks and does
\* not come back.  If sessions break again and again, in the end all are with
\* the broker and the topic of the struct.
SesionSegunAjustes ==
  (<>[][FALSE]_<<cfg, pcW, pendW>> /\ []<>(sesion.estado = "no"))
    => <>[](sesion.estado = "hecha" =>
              sesion.destino = DestinoDe(cfg) /\ sesion.tema = cfg.tema)
=============================================================================
