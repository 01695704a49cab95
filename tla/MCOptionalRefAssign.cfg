\* An optional of T& is assigned from an empty one of another type.
CONSTANTS
  o1 = o1
  o2 = o2
  o3 = o3
  u1 = u1
  r1 = r1
  r2 = r2
  r3 = r3
  Opts <- MCOpts
  Others <- MCOthers
  Refs <- MCRefs
  Values = {1, 2}
  Moved = 0
  Nothing = Nothing
  Gone = Gone
  Corners = {"ref_convert_assign_empty"}
SPECIFICATION Spec
INVARIANT RefConvertAssignResets
SYMMETRY Interchangeable
CHECK_DEADLOCK FALSE
