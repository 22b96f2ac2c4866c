\* Every kind of task, crashes, interrupts and close at any time; one killed worker
\* may outlive the second join() gives it.
CONSTANTS
  PID = {p1, p2}
  CallId = {c1, c2}
  Task = {easy, runaway, faulty, large, big}
  Runaway = {runaway}
  Faulty = {faulty}
  Large = {large}
  BigAnswer = {big}
  MaxSurvivals = 1
  None = None
SPECIFICATION LiveSpec
\* A parent that waits for ever (Unread, HalfAnswered) is a final state.
CHECK_DEADLOCK FALSE
INVARIANTS
  AnswerMatchesCall
  NoOrphanWorker
  QuietBetweenCalls
PROPERTIES
  ImplementsService
  FinditerReturns
  RunawayReaped
