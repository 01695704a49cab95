SPECIFICATION AccessSpec
CONSTANTS
  gt = gt
  t1 = t1
  t2 = t2
  ka = ka
  kp = kp
  n1 = n1
  Tables = {gt, t1, t2}
  Globals = gt
  Rooted = {gt}
  DirectKeys = {ka}
  PushedKeys = {kp}
  Numbers = {n1}
  Assigned = {n1, t1}
  Nil = Nil
  Free = Free
  MaxPath = 3
  MaxStack = 1
  Corners = {}
INVARIANTS
  ReadsAgree
  CreatesAllTheWay
  WritesLand
