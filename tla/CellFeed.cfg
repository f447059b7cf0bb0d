\* Three cells at two voltages: every frame after every frame.
SPECIFICATION CeldasSpecJusta
CONSTANTS
  N = 3
  Voltajes = {3200, 3300}
INVARIANTS
  ResumenCoherente
PROPERTY CeldasAlDia
