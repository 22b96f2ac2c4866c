\* A killed worker that outlives its join is kept with its queues, and so is
\* the answer in them: Attributed is violated.
CONSTANTS
  PID = {p1, p2}
  CallId = {c1, c2}
  Task = {easy, runaway, faulty, large, big}
  Runaway = {runaway}
  Faulty = {faulty}
  Large = {large}
  BigAnswer = {big}
  MaxSurvivals = 1
  None = None
SPECIFICATION LiveSpec
\* A parent that waits for ever (Unread, HalfAnswered) is a final state.
CHECK_DEADLOCK FALSE
INVARIANTS
  Attributed
