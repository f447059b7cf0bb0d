\* The periods and the threshold of the code; the counter turns at 6, two
\* restarts, silence counted to 14 s.
SPECIFICATION SpecJusta
CONSTANTS
  Periodo = 3
  Espera = 2
  Umbral = 4
  MaxContador = 6
  CapCola = 2
  CotaSilencio = 14
  MaxReinicios = 2
INVARIANTS
  TypeOK
  DetectaSilencio
PROPERTIES
  SinFalsaAlarma
  Recupera
  ImplementaAlarma
