SPECIFICATION FairSpec
CONSTANTS
  CPU = {c1, c2}
  TicketMod = 4
  MaxTickets = 7
INVARIANTS
  MutualExclusion
PROPERTIES
  FirstComeFirstServed
  WaiterServed
CHECK_DEADLOCK FALSE
