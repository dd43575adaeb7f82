CONSTANTS
  Clients = {c1, c2}
  Operations = {fund, drawA, drawB}
  Accounts = {cash, equity}
  Movement <- InAndOut
  DebitNormal = {cash}
  Entities = {"entity", "second", "other", "nobody"}
  Registered = {"entity", "second", "other"}
  Codes = {due, sales, thirdCode}
  Periods = {june, half, july}
  DaysOf <- Days
  Today = 2
  Orders = {o1}
  Total <- OneTotal
  Manual = {x1}
  FirstBooks <- TheBooks
  due = due  sales = sales  thirdCode = thirdCode
  june = june  half = half  july = july  o1 = o1  x1 = x1
  Scenes <- MoveScenes
  c1 = c1  c2 = c2  fund = fund  drawA = drawA  drawB = drawB
  cash = cash  equity = equity
  NoCall = NoCall
  NoRow = NoRow
  MaxCalls = 4
  Requests <- AllMoves
SYMMETRY AnyClient
SPECIFICATION CutoverSpec
INVARIANTS
  BalancesHold
  CutoverIsClean
  EngineFollowsControl
PROPERTIES
  BooksBehaveAsMemory
CHECK_DEADLOCK FALSE
