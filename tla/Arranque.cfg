\* Every first flash, networks in and out of reach, users, power cuts and
\* hangs at any point, on a clock of seconds.
SPECIFICATION Spec
CONSTANT Formateo = 10
INVARIANTS
  ArranqueAcotado
  PerroSinFalsos
  CanSegunDriver
  RedGuardada
PROPERTY RedConservada
