SPECIFICATION MCSpec
CONSTANTS
  Reservation = {r}
  Worker = {w1, w2}
  NoWorker = none
  Strategy = {"WHATSAPP_ONLY", "WHATSAPP_WITH_EMAIL_FALLBACK", "WHATSAPP_AND_EMAIL_PARALLEL"}
  Start = {2, 3}
  Email = {TRUE, FALSE}
  Life = 2
  ReminderLead = 5
  LeaseTime = 1
  MaxAttempts = 2
  RetryDelay <- MCRetryDelay
  BatchSize = 2
  Concurrency = 2
  MaxChange = 2
  Horizon = 4
SYMMETRY MCSymmetry
INVARIANTS TypeOK AnnouncedInTurn
PROPERTIES TerminalIsFinal CallsAreCurrent FallbackFollowsFailure
           NobodyEndsAnothersCall
\* The clock and the changes run out: the handlers may stop there.
CHECK_DEADLOCK FALSE
