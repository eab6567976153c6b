SPECIFICATION ProgramSpec
CONSTANTS
  Receivers = {r1, r2}
  Main = main
  Free = free
  MaxSpurious = 2
  Workers = {w1, w2}
  Sending = 10
  Timeout = 1
  Rest = 25
  SendLateness = 7
  Attempts = 10
  Poll = 1
  Handling = 50
  PollLateness = 20
INVARIANTS
  NoLostWakeup
  RunsUntilStopped
  RequestsAreGivenUp
  HandlersAreCancelled
PROPERTY EverythingEnds
CHECK_DEADLOCK FALSE
