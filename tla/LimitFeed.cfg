\* Two voltages of the user beside zero, every form, every interleaving.
SPECIFICATION SpecJusta
CONSTANT Voltajes = {"v1", "v2"}
INVARIANTS
  LimitesAlDia
  PropioNoSePierde
PROPERTY NoQuedaCrudo
