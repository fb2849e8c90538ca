SPECIFICATION Spec
CONSTANTS
  Caller = {f}
  Self = {x1, x2}
  Formal = {}
  Values = {v1, v2}
  Builtins = {"none"}
  Nested = FALSE
  Mixing = FALSE
  Cells = 6
  MaxCount = 3
  MaxDepth = 2
SYMMETRY Symmetry
INVARIANTS DeclaresGlobal
