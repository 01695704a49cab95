\* Every kind, up to three elements, one loop.
SPECIFICATION Spec
CONSTANTS
  Kinds = {"vector", "list", "forward_list", "array", "set", "map"}
  MaxLen = 3
  Values = {1, 2}
  Keys = {1, 2, 3}
  p = p
  Loops = {p}
  StartIndex = 1
  Nil = Nil
  End = End
  Dangling = Dangling
  Corners = {}
CHECK_DEADLOCK FALSE
INVARIANTS
  ReadsAgree
  LoopsAgree
PROPERTIES
  WritesAsPromised
