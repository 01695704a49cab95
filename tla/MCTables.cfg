SPECIFICATION Spec
CONSTANTS
  gt = gt
  t1 = t1
  t2 = t2
  ka = ka
  kp = kp
  n1 = n1
  l1 = l1
  l2 = l2
  Tables = {gt, t1}
  Globals = gt
  Rooted = {gt, t1}
  DirectKeys = {ka}
  PushedKeys = {kp}
  Numbers = {n1}
  Assigned = {n1}
  Nil = Nil
  Free = Free
  Other = Other
  Unmade = Unmade
  Loops = {l1, l2}
  KeyOrder <- MCKeyOrder
  PairsOf <- MCPairsOf
  MaxPath = 1
  MaxStack = 7
  MaxOwn = 1
  MaxBody = 2
  WriteDepth = 1
  Corners = {}
INVARIANTS
  StackAccounted
  VisitsEachOnce
PROPERTY LoopsEnd
