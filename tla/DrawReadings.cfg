SPECIFICATION ReadingsSpec
CONSTANTS
  None = None
  l1 = l1
  l2 = l2
  RowIds = {1, 2, 3}
  Lotteries = {l1, l2}
  DrawTypes = {ordinary}
  Dates = {1, 2, 3}
  Sources = {operator}
  Lists <- MCLists
  MaxNumber = 2
  MaxItems = 1
  MaxDraws = 2
  Recent = 2
  FourDigit = {operator}
  Registered <- MCRegistered
 
 
INVARIANT RecencyIsExact
INVARIANT HistoryFitsGame
CHECK_DEADLOCK FALSE
