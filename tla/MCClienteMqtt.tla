--------------------------- MODULE MCClienteMqtt ---------------------------
(* Two brokers that differ in every member, the low byte of the port too. *)
EXTENDS ClienteMqtt

MCBrokers == {[nodo |-> 1, puerto |-> 1883], [nodo |-> 2, puerto |-> 8883]}
=============================================================================
