SPECIFICATION FairSpec
CONSTANTS
  NameplateMax = 1
  TTL = 2
  Window = 1
  s1 = s1
  s2 = s2
  c1 = c1
  Slots <- MCSlots
  Clients <- MCClients
  Free = Free
  CreateLimit = 2
  AccessLimit = 2
  MaxTime = 3
  MaxRequests = 2
CHECK_DEADLOCK FALSE
PROPERTY ExpiredSwept
