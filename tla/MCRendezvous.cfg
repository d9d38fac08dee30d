SPECIFICATION FairSpec
CONSTANTS
  NameplateMax = 2
  TTL = 2
  Window = 1
  s1 = s1
  s2 = s2
  c1 = c1
  Slots <- MCSlots
  Clients <- MCClients
  Free = Free
  CreateLimit = 2
  AccessLimit = 2
  MaxTime = 3
  MaxRequests = 3
INVARIANTS TypeOK AtMostOneHandout KeptUntilPromised NoPlateShared ClaimTotalFollows
PROPERTIES HandoutInTime ImplementsOneShot RequestsAnswered SweptUnlessFull
CHECK_DEADLOCK FALSE
