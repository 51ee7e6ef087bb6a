SPECIFICATION FairSpec
CONSTANTS
  Thread = {net, sig}
  Disp = disp
  Plain = {p1}
  Timed = {t1}
  Quit = {q1}
  SigHalt = {h1}
  QuitHalt = quitHalt
  Term = term
  None = none
INVARIANTS
  NoLostWakeup
  NothingLost
PROPERTIES
  ImplementsTaskService
  AcceptedRuns
  ShutdownEnds
CHECK_DEADLOCK FALSE
