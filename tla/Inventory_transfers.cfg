CONSTANTS
  Clients = {c1, c2}
  Warehouses = {w1, w2}
  Items = {i1}
  Keys = {r1}
  Corrections = {k1}
  Transfers = {t1, t2}
  c1 = c1  c2 = c2  w1 = w1  w2 = w2  i1 = i1
  r1 = r1  k1 = k1  t1 = t1  t2 = t2
  NoCall = NoCall
  NoRow = NoRow
  MaxCalls = 4
  Requests <- TransferCalls
  Stock <- FourUnits
SPECIFICATION FairInventorySpec
INVARIANTS
  OnHandIsMoved
PROPERTIES
  BehavesAsMemory
  EveryCallEnds
CHECK_DEADLOCK FALSE
