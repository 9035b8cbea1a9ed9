SPECIFICATION MCSpec
CONSTANTS
  c1 = c1
  c2 = c2
  Calls = {c1, c2}
  Tools = {t1, t2}
  Keys = {k1, k2, kBad}
  BadKeys = {kBad}
  Proposals = {p1}
  GuardHooks = 1
  Nothing = Nothing
  Parts = {"project trust"}
  RoutedArgs <- MCArgs
  ParentDepths = {0, 1}
  Projects = {"p1", "p2"}
  Servers = {"s1"}
  Bundled = {}
  TrustCallers = {1, 2}
  CallIds = {"c1"}
  MaxDeltas = 2
  MaxKeys = 2
  Prompts = {"q1", "q2"}
  MaxDialogs = 2
  MaxReplies = 2
  Listeners = {"l1", "l2"}
  TokenListeners = {"t1"}
  BufferSize = 1
  MaxWrites = 2
CHECK_DEADLOCK FALSE
INVARIANT ProjectTrustHonoured
