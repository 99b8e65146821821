SPECIFICATION SuiteSpec
CONSTANTS
  r1 = r1
  r2 = r2
  c1 = c1
  Requests = {r1, r2}
  Clients = {c1}
  Resources = {"manage"}
  NumCodes = 1
  MaxPairs = 4
  MaxTime = 4
  FewPairs = 3
  FewTicks = 3
  Grace = 1
  CodeLifetime = 1
  AccessLifetime = 1
  IdleLifetime = 2
  AbsoluteLifetime = 3
  MaxClients = 1
  MaxReplays = 2
  MaxPending = 1
INVARIANT GrantsSound
SYMMETRY Symmetry
CHECK_DEADLOCK FALSE
