SPECIFICATION FairSpec
CONSTANTS
  r1 = r1
  r2 = r2
  Receivers <- MCReceivers
  Stored <- MCStored
  Nobody = Nobody
INVARIANTS TypeOK OnlyTheRightPairs ReportsAgree
PROPERTIES ImplementsHandover FlowsEnd
CHECK_DEADLOCK FALSE
