\* Two requests side by side in the dearer band, against docs/security.md 35.
SPECIFICATION Spec
CONSTANTS
  a1 = a1
  a2 = a2
  a3 = a3
  A = A
  B = B
  NoMatch = NoMatch
  OwnerOf <- OwnEach
  StartingBalance <- ThreeEach
  WorstMatch <- TwoBands
  Agents = {a1, a2, a3}
  Seeded = {}
  Legacy = {}
  Bands = {A, B}
  Callers = {c1, c2}
  Active = {a1, a2}
  OUTFLOW_BUDGET_FLOOR = 4
  OUTFLOW_BUDGET_DIVISOR = 5
  OUTFLOW_WINDOW = 2
  Bars = {}
  Nets = {0, 1, 2}
  MaxOps = 4
INVARIANTS
  NoOverdraft
\* The ops run out, and then nobody plays any more.
CHECK_DEADLOCK FALSE
