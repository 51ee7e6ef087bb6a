SPECIFICATION SchedFairSpec
CONSTANTS
  Thread = {io, net}
  Disp = disp
  Plain = {e1, e2}
  Timed = {}
  Quit = {q1}
  SigHalt = {h1}
  QuitHalt = quitHalt
  Term = term
  None = none
  Io = io
  Event = {e1, e2}
INVARIANTS
  NoEventLost
PROPERTIES
  StopSettles
  DueIsDelivered
CHECK_DEADLOCK FALSE
