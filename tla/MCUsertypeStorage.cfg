\* Two kinds of objects, a string key and another, two storages.
SPECIFICATION Spec
CONSTANTS
  value = value  reference = reference  f = f  i = i  s1 = s1  s2 = s2
  o1 = o1  o2 = o2
  b1 = b1  b2 = b2  b3 = b3  va = va  vb = vb
  Kinds = {value, reference}
  Owning = {value}
  Strings = {f}
  Others = {i}
  Storages = {s1, s2}
  MaxTables = 3
  Objects = {o1, o2}
  Bindings = {b1, b2, b3}
  Values = {va, vb}
  None = None
  Self = Self
  Corners = {}
SYMMETRY Symmetry
INVARIANTS
  LookupsAgree
  NothingDangles
  NamesLeadToClass
