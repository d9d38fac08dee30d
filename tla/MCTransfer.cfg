SPECIFICATION FairSpec
CONSTANTS
  q1 = q1
  q2 = q2
  Requests = {q1, q2}
  Size <- MCSize
  Total = 2
  FileCount = 2
  Exports <- MCExports
  Step = 50
  Capacity = 1
INVARIANTS ServedExact ShownClimbs ReportFollowsAnswer
PROPERTY FinalSeen
CHECK_DEADLOCK FALSE
