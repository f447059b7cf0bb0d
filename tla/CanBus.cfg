\* A queue of two, one message in the driver, a frame that may block a tick, a
\* sleep longer than a wait for the queue and shorter than a pause.
SPECIFICATION SpecJusta
CONSTANTS
  CapCola = 2
  CapDriver = 1
  Pausa = 3
  Sueno = 2
  Transmision = 1
  PeriodoBus = 2
  TiposBus = {"estado", "info", "control", "otro"}
  MaxGuardados = 1
INVARIANTS
  RespuestaAcotada
  CicloAcotado
PROPERTY ElTiempoPasa
