\* Every table of five rules over five values of scale, in strict order, equal
\* or in no order, and two of current.
SPECIFICATION Spec
CONSTANTS
  Escalas = {1, 2, 4, 6, 9}
  Corrientes = {0, 7}
  Valores = {0, 1, 2, 3, 4, 5, 6, 7, 8, 9, 10}
INVARIANTS
  EntreReglas
  Proporcional
  NoSube
