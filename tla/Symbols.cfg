SPECIFICATION Spec
CONSTANTS
  Caller = {f, p}
  Self = {x1, x2}
  Formal = {p}
  Values = {v1, v2}
  Builtins = {"none", "bvar", "bfn"}
  Nested = TRUE
  Mixing = FALSE
  Cells = 6
  MaxCount = 3
  MaxDepth = 2
SYMMETRY Symmetry
INVARIANTS RefsLive CountCovers OwnValueKept DeclaredShared
PROPERTIES RunningKept
