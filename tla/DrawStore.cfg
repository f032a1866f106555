SPECIFICATION Spec
CONSTANTS
  None = None
  s1 = s1
  s2 = s2
  i1 = i1
  i2 = i2
  lot1 = lot1
  lot2 = lot2
  ordinary = ordinary
  n1 = n1
  n2 = n2
  d1 = d1
  d2 = d2
  m1 = m1
  m2 = m2
  e1 = e1
  k1 = k1
  operator = operator
  renamed = renamed
  mirror = mirror
  Sessions = {s1, s2}
  RowIds = {i1, i2}
  Lotteries = {lot1, lot2}
  DrawTypes = {ordinary}
  Numbers = {n1, n2}
  Dates = {d1, d2}
  Mains = {m1, m2}
  Extras = {e1}
  Metas = {k1}
  Sources = {operator, renamed, mirror}
  SameHostFamily <- OneHost
  Records <- AllRecords
  AdminRows <- ManualRows
  Patches <- ManualPatches
SYMMETRY Symmetry
CONSTRAINT AloneOrRacing
INVARIANT UniqueIdentity
INVARIANT NoOrphans
INVARIANT RepeatIsNoOp
INVARIANT RejectionJustified
 
PROPERTY ImplementsTable
