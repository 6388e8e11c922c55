\* One message that a fault may duplicate, two deliveries at a time, two
\* retries after 2 and 3 seconds, one fault, on a broker that keeps queues and
\* messages over a restart.
SPECIFICATION TimedSpec
CONSTANTS
  m1 = m1
  m2 = m2
  Msg <- OneMsg
  MaxRetries = 2
  Prefetch = 2
  Durable = TRUE
  Persistent = TRUE
  MaxFaults = 1
  BaseDelay = 1
INVARIANT TimedTypeOK
INVARIANT WaitBounded
INVARIANT GivenUpLate
INVARIANT CommittedInTimeIsMailed
INVARIANT NoSilentLoss
INVARIANT DeadOnlyAfterBudget
INVARIANT MailsPaidFor
CHECK_DEADLOCK FALSE
