\* The driver holds one frame, besides the one under construction; one restart
\* at any point.
SPECIFICATION SpecJusta
CONSTANTS
  CapTx = 1
  MaxReinicios = 1
INVARIANTS
  Parado
  AtrasoAcotado
  ConcedeTrasEvaluar
PROPERTIES
  SilencioPara
  SigueAlBms
