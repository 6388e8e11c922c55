\* RABBITMQ_DURABLE=false, RABBITMQ_PERSISTENT=false, as in src/.env.public: a
\* broker restart leaves the consumer without retry and dead queues.
SPECIFICATION Spec
CONSTANTS
  m1 = m1
  m2 = m2
  Msg <- OneMsg
  MaxRetries = 1
  Prefetch = 1
  Durable = FALSE
  Persistent = FALSE
  MaxFaults = 1
PROPERTY FailedIsStored
CHECK_DEADLOCK FALSE
