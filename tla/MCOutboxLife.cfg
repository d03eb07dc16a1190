SPECIFICATION FairSpec
CONSTANTS
  Reservation = {r}
  Worker = {w1}
  NoWorker = none
  Strategy = {"WHATSAPP_WITH_EMAIL_FALLBACK"}
  Start = {2}
  Email = {TRUE}
  Life = 2
  ReminderLead = 1
  LeaseTime = 1
  MaxAttempts = 2
  RetryDelay <- MCRetryDelay
  BatchSize = 2
  Concurrency = 1
  MaxChange = 2
  Horizon = 3
INVARIANTS OneAttemptOpen
PROPERTIES EveryLegEnds
\* The clock and the changes run out: the handlers may stop there.
CHECK_DEADLOCK FALSE
