CONSTANTS
  Clients = {c1, c2}
  Warehouses = {w1}
  Items = {i1, i2}
  Keys <- LineKeys
  Corrections = {}
  Transfers = {}
  Orders = {o1, o2}
  WorkflowKeys = {ka, kb}
  OrderLines <- Opposite
  c1 = c1  c2 = c2  w1 = w1  i1 = i1  i2 = i2  o1 = o1  o2 = o2
  ka = ka  kb = kb  alice = alice  bob = bob  r1 = r1  k1 = k1
  NoCall = NoCall
  NoRow = NoRow
  MaxCalls = 4
  Requests <- OrderCalls
  Stock <- ThreeEach
SPECIFICATION OrderSpec
INVARIANTS
  OrderInv
PROPERTIES
  KeepsLifecycle
  AnswersAreStable
CHECK_DEADLOCK FALSE
