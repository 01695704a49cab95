\* Two objects, two threads with a result on each, and assignments across them.
SPECIFICATION Spec
CONSTANTS
  c1 = c1  c2 = c2  t1 = t1  t2 = t2  r1 = r1  r2 = r2  va = va  vb = vb
  Coroutines = {c1, c2}
  Threads = {t1, t2}
  Results = {r1, r2}
  Values = {va, vb}
  Function = Function
  Message = Message
  Handled = Handled
  MaxReturns = 2
  MaxInner = 1
  MaxStack = 2
  Unmade = Unmade
  NULL = NULL
  Corners = {}
SYMMETRY Symmetry
INVARIANTS
  StatusAgrees
  ResultsRead
  StackShared
