SPECIFICATION RunSpec
CONSTANTS
  None = None
  s1 = s1
  s2 = s2
  i1 = i1
  i2 = i2
  lot1 = lot1
  lot2 = lot2
  ordinary = ordinary
  n1 = n1
  n2 = n2
  d1 = d1
  d2 = d2
  m1 = m1
  m2 = m2
  operator = operator
  Sessions = {s1, s2}
  Workers = {s1}
  JobLottery <- Lottery1
  Batches <- AllBatches
  MaxAttempts = 2
  RowIds = {i1, i2}
  Lotteries = {lot1, lot2}
  DrawTypes = {ordinary}
  Numbers = {n1, n2}
  Dates = {d1, d2}
  Mains = {m1, m2}
  Extras = {}
  Metas = {}
  Sources = {operator}
  SameHostFamily <- NoHosts
  Records <- BatchRecords
  AdminRows <- NoRows
  Patches <- Renumbering
SYMMETRY Symmetry
INVARIANT SuccessMeansStored
 
PROPERTY ImplementsStore
