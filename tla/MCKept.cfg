\* Four handles, one of them main_only, over two states: one has a collectable coroutine.
SPECIFICATION MCSpec
CONSTANTS
  h1 = h1
  h2 = h2
  h3 = h3
  m = m
  g1 = g1
  g2 = g2
  main1 = main1
  main2 = main2
  co = co
  tbl = tbl
  obj2 = obj2
  r1 = r1
  r2 = r2
  r3 = r3
  r4 = r4
  Holders = {h1, h2, h3, m}
  MainOnly = {m}
  Globals = {g1, g2}
  Threads = {main1, co, main2}
  GlobalOf <- MCGlobalOf
  MainOf <- MCMainOf
  Objects = {co, tbl, obj2}
  ObjectsOf <- MCObjectsOf
  Slots = {r1, r2, r3, r4}
  NULL = NULL
  NOREF = NOREF
  REFNIL = REFNIL
  Free = Free
  Junk = Junk
  Nil = Nil
  Corners = {}
  AlignMemory = TRUE
  Ptr = 8
  MaxAlign = 16
  Types <- MCTypes
  Bases <- MCBases
  None = None
SYMMETRY Symmetry
INVARIANTS
  Ownership
  MainHandlesOnMain
  SectionsFit
  SectionsInPlace
  SectionsFound
PROPERTIES
  ObjectAssignmentKeepsPin
  IsHandles
