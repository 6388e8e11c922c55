\* Two messages, one delivery at a time (RABBITMQ_PREFETCH_COUNT=1), one retry
\* and one fault, on a broker that keeps queues and messages.
SPECIFICATION FairSpec
CONSTANTS
  m1 = m1
  m2 = m2
  Msg <- TwoMsgs
  MaxRetries = 1
  Prefetch = 1
  Durable = TRUE
  Persistent = TRUE
  MaxFaults = 1
CHECK_DEADLOCK FALSE
PROPERTY EventuallySettled
PROPERTY Drains
PROPERTY DeliverySpec
