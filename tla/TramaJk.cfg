\* Data of four elements, a sum that wraps around.
SPECIFICATION CapturaSpec
CONSTANTS
  Datos = {0, 1}
  Largo = 4
  Modulo = 16
  CapCola = 2
INVARIANTS
  SoloTramas
  EnteraVale
