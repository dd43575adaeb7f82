CONSTANTS
  Clients = {c1, c2}
  Warehouses = {w1}
  Items = {i1, i2}
  Keys = {}
  Corrections = {}
  Transfers = {}
  Suppliers = {s1}
  Purchases = {p1, p2, p3}
  Drafts = {p1, p2}
  PurchaseLines <- TheLines
  ConfirmationKeys = {ka, kb}
  ReceiptKeys = {ra, rb}
  c1 = c1  c2 = c2  w1 = w1  i1 = i1  i2 = i2  s1 = s1  p1 = p1  p2 = p2  p3 = p3
  ka = ka  kb = kb  ra = ra  rb = rb
  NoCall = NoCall
  NoRow = NoRow
  MaxCalls = 4
  MaxRestarts = 1
  Requests <- AllCalls
  Stock <- NoStock
SYMMETRY AnyClient
SPECIFICATION CommunicationSpec
INVARIANTS
  ConsumedIsKnown
PROPERTIES
  PurchasesBehaveAsMemory
CHECK_DEADLOCK FALSE
