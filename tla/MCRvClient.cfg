SPECIFICATION Spec
CONSTANTS
  Senders = {s1, s2}
  Receivers = {r1, r2}
  Wordlist = {"acid", "bone"}
  WordCount = 1
  NameplateMax = 2
  NoTicket = NoTicket
  Claimed = Claimed
  Typed <- MCTyped
INVARIANTS TypeOK TicketOfTheCode NoLateClaim KeptWhileWaiting LeftoversExplained
CHECK_DEADLOCK FALSE
SYMMETRY MCSymmetry
