CONSTANTS
  Clients = {c1, c2}
  Instances = {p1, p2, p3}
  StepNames = {s1, s2}
  StepKeys = {ka, kb}
  EventIds = {e1}
  TimerIds = {t1}
  Checkpoints <- TwoStepped
  ControlKeys = {ka, kb}
  Releases = {d1}
  Environments = {"PROD"}
  Connectors = {n1, n2}
  AuditKeys = {ga, gb, gc, gd}
  ReplayKeys = {re}
  InvocationKeys = {ia}
  Events = {x1}
  MaxAttempts = 2
  MaxRestarts = 1
  Scenes <- TheScenes
  n1 = n1  n2 = n2  ga = ga  gb = gb  gc = gc  gd = gd  re = re  ia = ia  x1 = x1
  c1 = c1  c2 = c2  p1 = p1  p2 = p2  p3 = p3  ka = ka  kb = kb  e1 = e1  t1 = t1
  s1 = s1  s2 = s2  d1 = d1  alice = alice  bob = bob
  NoCall = NoCall
  NoRow = NoRow
  MaxCalls = 4
  Requests <- AllCalls
SYMMETRY AnyClient
SPECIFICATION IntegrationSpec
INVARIANTS
  RuntimeInv
PROPERTIES
  ProgressIsKept
  EvidenceIsKept
  NotInvokedAgain
CHECK_DEADLOCK FALSE
