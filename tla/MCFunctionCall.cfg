\* Two protected results, an unsafe one and a load result.
SPECIFICATION Spec
CONSTANTS
  p1 = p1  p2 = p2  u = u  l = l
  Results = {p1, p2, u, l}
  ClassOf <- MCAll
  Values = {va, vb}
  Function = Function
  Handler = Handler
  MaxReturns = 2
  MaxArgs = 1
  MaxStack = 3
  Unmade = Unmade
  Corners = {}
SYMMETRY Symmetry
INVARIANTS
  NothingLost
  ValuesStay
  HeldOnce
