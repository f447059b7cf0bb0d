SPECIFICATION Spec
CONSTANTS
  Temperaturas <- MCTemperaturas
  Tensiones <- MCTensiones
  Corrientes <- MCCorrientes
  Limites = {0, 1, 100, 3000}
  Ciclos <- MCCiclos
  Alarmas <- MCAlarmas
INVARIANTS
  LecturaLV
  LecturaHV
  Extremos
  MismasAlarmas
