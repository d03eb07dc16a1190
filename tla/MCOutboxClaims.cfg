SPECIFICATION Spec
CONSTANTS
  Reservation = {r}
  Worker = {w1, w2}
  NoWorker = none
  Strategy = {"WHATSAPP_ONLY"}
  Start = {2}
  Email = {TRUE}
  Life = 1
  ReminderLead = 5
  LeaseTime = 1
  MaxAttempts = 1
  RetryDelay <- MCRetryDelay
  BatchSize = 2
  Concurrency = 1
  MaxChange = 1
  Horizon = 3
SYMMETRY MCSymmetry
PROPERTIES OnlyOneConcurrentClaim
\* The clock and the changes run out: the handlers may stop there.
CHECK_DEADLOCK FALSE
