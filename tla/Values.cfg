\* The bounded heap may be full in the middle of an assignment.
CHECK_DEADLOCK FALSE
CONSTANTS
  Vars = {a}
  Lits = {one}
  Temps = {t}
  None = None
  Radix = 2
  Positions <- SmallPositions
  Inputs <- SmallInputs
  Cells = {c1, c2, c3, c4}
  Blocks = {b1, b2, b3}
  Old = Old
  Tmp = Tmp
  NoCell = NoCell
  NoBlock = NoBlock
SPECIFICATION Spec
INVARIANT Counted
PROPERTY ValueSemantics
