\* Every interleaving of the parser, one page of limits, the other pages and
\* the reset button, with a restart between any two steps.
SPECIFICATION Spec
CONSTANTS
  VoltajeBorrado = 65535
  Tramas <- MCTramas
  Formularios <- MCFormularios
  UmbralReset = 1
INVARIANTS
  TypeOK
  PermisoCargaDurable
  AjustesDurables
  PermisoSeguro
PROPERTY CargaVuelveBajoRestart
