CONSTANTS
  Connections = {n1, n2}
  NameOwners = {n2}
  Cookies = {c1, c2}
  MaxFd = 3
  MaxInbox = 2
  BusMayDie = TRUE
  MaxRefusals = 1
  SaverMayRefuse = TRUE
  MaxCalls = 3
SPECIFICATION Spec
SYMMETRY Symmetry
INVARIANTS
  ActiveAgrees
  ThrottleFollows
  RequestsHold
  NoOrphans
  DescriptorsAgree
