SPECIFICATION Spec
CONSTANTS
  c1 = c1
  c2 = c2
  a1 = a1
  a2 = a2
  s1 = s1
  x1 = x1
  u1 = u1
  Clients = {c1, c2}
  Administrators = {c1, c2}
  Accounts = {a1, a2}
  Sessions = {s1}
  Assertions = {x1}
  Subjects = {u1}
  Capabilities = {"manage"}
  Requests <- MCRequests
  Ttl = 2
  Second = 2
  MaxNow = 2
  MaxCalls = 4
  NoAccount = NoAccount
  NoCall = NoCall
SYMMETRY AnyClient
INVARIANTS AuthenticatedIsGood AuthorizedIsGranted AccessInv
CHECK_DEADLOCK FALSE
