\* A restart gives back a discharge that the limits had withdrawn.
SPECIFICATION Spec
CONSTANTS
  VoltajeBorrado = 65535
  Tramas <- MCTramas
  Formularios <- MCFormularios
  UmbralReset = 1
PROPERTY DescargaVuelveSobreRestart
