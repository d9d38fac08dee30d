SPECIFICATION FairSpec
CONSTANTS
  t1 = t1
  t2 = t2
  t3 = t3
  Callers <- MCCallers
  Nobody = Nobody
INVARIANT TypeOK
INVARIANT CancelHonoured
INVARIANT OneDecision
PROPERTY TerminalFinal
PROPERTY CallsAnswered
PROPERTY DisposeStops
