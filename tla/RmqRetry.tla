------------------------------ MODULE RmqRetry ------------------------------
(***************************************************************************)
(* The e-mail queue: RabbitMQ's main, retry and dead queues, the consumer  *)
(* that handles a message (RmqEmailConsumer.eventsHandler around one       *)
(* RmqEmailService.send...) and RmqRetryService.processFailedMessage.      *)
(*                                                                         *)
(* A copy is a message with the x-retry-count header it carries.  Copies   *)
(* are counted per stage, so that a redelivered or republished message may *)
(* exist several times.  The order of the main queue and the delays of the *)
(* retry queue are left to module RetryBackoff.                            *)
(***************************************************************************)
EXTENDS Naturals, FiniteSetsExt

CONSTANTS
  Msg,          \* the messages the API process emits
  MaxRetries,   \* mainQueueOptions.maxRetriesCount
  Prefetch,     \* prefetchCount: unacknowledged deliveries at a time
  Durable,      \* queueOptions.durable: queues survive a broker restart
  Persistent,   \* persistent: the messages in durable queues survive too
  MaxFaults     \* bound: connection losses, crashes and broker restarts

ASSUME RmqAssumption ==
  /\ MaxRetries \in Nat \ {0}        \* parseInt(...) || 3 never yields 0
  /\ Prefetch \in Nat \ {0}          \* parseInt(...) || 1
  /\ Durable \in BOOLEAN
  /\ Persistent \in BOOLEAN
  /\ MaxFaults \in Nat

Copy == [msg : Msg, tries : 0..MaxRetries]

\* "handling": the handler runs and has not called sendMail; "mailed": the
\* mail is out, COMMIT and ack are ahead; "failed": the handler threw;
\* "forwarded": sendToQueue done, ack ahead.
Unacked == {"handling", "mailed", "failed", "forwarded"}
Stage == {"main", "retry", "dead"} \cup Unacked

VARIABLES
  at,         \* how many copies of each kind are at each stage
  orphan,     \* handlers still running for a copy whose channel is gone
  aux,        \* the retry and dead queues exist (setupRmqTopology)
  published,  \* messages emitted so far
  mailed,     \* ghost: mails sent for a message
  rejected,   \* ghost: copies nacked without requeue
  failures,   \* ghost: handler runs that threw, per message
  redone,     \* ghost: deliveries requeued, and transactions that failed
              \* after their mail was sent, per copy
  wiped,      \* ghost: messages known to a broker that lost its contents
  faults      \* number of faults so far, for the bound

vars == <<at, orphan, aux, published, mailed, rejected, failures, redone,
          wiped, faults>>

-----------------------------------------------------------------------------
(* State functions                                                          *)

UnackedOf(c) == at["handling"][c] + at["mailed"][c] + at["failed"][c]
                  + at["forwarded"][c]

InFlight == MapThenSumSet(UnackedOf, Copy)

\* A copy that a handler will still work on, or whose mail is out but not yet
\* acknowledged.  A forwarded copy is not counted: its successor is.
Carried(m) == \E c \in Copy :
                /\ c.msg = m
                /\ \E st \in Stage \ {"forwarded", "dead"} : at[st][c] > 0

Buried(m) == \E c \in Copy : c.msg = m /\ at["dead"][c] > 0

\* The message reached one of the ends the code knows.
Settled(m) == mailed[m] > 0 \/ Buried(m) \/ rejected[m] > 0

First(m) == [msg |-> m, tries |-> 0]

Again(c) == [c EXCEPT !.tries = @ + 1]

Move(c, from, to) == /\ at[from][c] > 0
                     /\ at' = [at EXCEPT ![from][c] = @ - 1, ![to][c] = @ + 1]

-----------------------------------------------------------------------------
(* Initial state: both processes are up, the topology is set up.            *)

Init ==
  /\ at = [st \in Stage |-> [c \in Copy |-> 0]]
  /\ orphan = [c \in Copy |-> 0]
  /\ aux = TRUE
  /\ published = {}
  /\ mailed = [m \in Msg |-> 0]
  /\ rejected = [m \in Msg |-> 0]
  /\ failures = [m \in Msg |-> 0]
  /\ redone = [c \in Copy |-> 0]
  /\ wiped = {}
  /\ faults = 0

-----------------------------------------------------------------------------
(* The API process                                                          *)

Publish(m) ==
  /\ m \notin published
  /\ published' = published \cup {m}
  /\ at' = [at EXCEPT !["main"][First(m)] = @ + 1]
  /\ UNCHANGED <<orphan, aux, mailed, rejected, failures, redone, wiped, faults>>

-----------------------------------------------------------------------------
(* The consumer                                                             *)

\* Mutant of Deliver: the broker does not look whether it has the message.
DeliverBlindly(c) ==
  /\ InFlight < Prefetch
  /\ at' = [at EXCEPT !["main"][c] = @ - 1, !["handling"][c] = @ + 1]
  /\ UNCHANGED <<orphan, aux, published, mailed, rejected, failures, redone,
                 wiped, faults>>

\* The broker pushes one more message while fewer than prefetchCount
\* deliveries are unacknowledged.
Deliver(c) ==
  /\ InFlight < Prefetch
  /\ Move(c, "main", "handling")
  /\ UNCHANGED <<orphan, aux, published, mailed, rejected, failures, redone,
                 wiped, faults>>

\* transporter.sendMail resolves, inside the handler's transaction.
SendMail(c) ==
  /\ Move(c, "handling", "mailed")
  /\ mailed' = [mailed EXCEPT ![c.msg] = @ + 1]
  /\ UNCHANGED <<orphan, aux, published, rejected, failures, redone, wiped, faults>>

\* A lookup finds no row, a query or sendMail throws.
HandlerThrows(c) ==
  /\ Move(c, "handling", "failed")
  /\ failures' = [failures EXCEPT ![c.msg] = @ + 1]
  /\ UNCHANGED <<orphan, aux, published, mailed, rejected, redone, wiped, faults>>

\* The mail is out and COMMIT fails: the handler throws all the same.
CommitFails(c) ==
  /\ Move(c, "mailed", "failed")
  /\ failures' = [failures EXCEPT ![c.msg] = @ + 1]
  /\ redone' = [redone EXCEPT ![c] = @ + 1]
  /\ UNCHANGED <<orphan, aux, published, mailed, rejected, wiped, faults>>

\* Mutant of Ack: the acknowledgement sits behind the catch, so that a handled
\* message runs into processFailedMessage.
AckInCatch(c) ==
  /\ Move(c, "mailed", "failed")
  /\ UNCHANGED <<orphan, aux, published, mailed, rejected, failures, redone,
                 wiped, faults>>

\* COMMIT succeeds and the delivery is acknowledged.
Ack(c) ==
  /\ at["mailed"][c] > 0
  /\ at' = [at EXCEPT !["mailed"][c] = @ - 1]
  /\ UNCHANGED <<orphan, aux, published, mailed, rejected, failures, redone,
                 wiped, faults>>

-----------------------------------------------------------------------------
(* RmqRetryService.processFailedMessage                                     *)

\* Mutants of SendToDeadQueue: an exhausted message is only acknowledged; the
\* count that is compared is the next one.
DropExhausted(c) == c.tries >= MaxRetries /\ Move(c, "failed", "forwarded")

DeadOneEarly(c) ==
  /\ c.tries + 1 >= MaxRetries
  /\ at["failed"][c] > 0
  /\ at' = [at EXCEPT !["failed"][c] = @ - 1,
                      !["forwarded"][c] = @ + 1,
                      !["dead"][c] = IF aux THEN @ + 1 ELSE @]

\* sendToDeadQueue.  The default exchange drops what it cannot route.
SendToDeadQueue(c) ==
  /\ c.tries >= MaxRetries
  /\ at["failed"][c] > 0
  /\ at' = [at EXCEPT !["failed"][c] = @ - 1,
                      !["forwarded"][c] = @ + 1,
                      !["dead"][c] = IF aux THEN @ + 1 ELSE @]

\* sendToRetryQueue: the republished copy carries x-retry-count + 1.
SendToRetryQueue(c) ==
  /\ c.tries < MaxRetries
  /\ at["failed"][c] > 0
  /\ at' = [at EXCEPT !["failed"][c] = @ - 1,
                      !["forwarded"][c] = @ + 1,
                      !["retry"][Again(c)] = IF aux THEN @ + 1 ELSE @]

Forward(c) ==
  /\ SendToDeadQueue(c) \/ SendToRetryQueue(c)
  /\ UNCHANGED <<orphan, aux, published, mailed, rejected, failures, redone,
                 wiped, faults>>

\* Mutant of AckForwarded: the ack after sendToQueue is forgotten.
NoAckForwarded(c) == at["forwarded"][c] > 0 /\ UNCHANGED vars

\* channel.ack(originalMsg) after sendToQueue, a frame of its own.
AckForwarded(c) ==
  /\ at["forwarded"][c] > 0
  /\ at' = [at EXCEPT !["forwarded"][c] = @ - 1]
  /\ UNCHANGED <<orphan, aux, published, mailed, rejected, failures, redone,
                 wiped, faults>>

\* sendToQueue throws: nack(originalMsg, false, false).  The main queue has
\* no dead-letter exchange, so the copy is gone.
InternalError(c) ==
  /\ at["failed"][c] > 0
  /\ at' = [at EXCEPT !["failed"][c] = @ - 1]
  /\ rejected' = [rejected EXCEPT ![c.msg] = @ + 1]
  /\ UNCHANGED <<orphan, aux, published, mailed, failures, redone, wiped, faults>>

-----------------------------------------------------------------------------
(* The broker's timer and the faults                                        *)

\* Mutant of Expire: a retry queue without a dead-letter routing key.
ExpireNowhere(c) ==
  /\ at["retry"][c] > 0
  /\ at' = [at EXCEPT !["retry"][c] = @ - 1]
  /\ UNCHANGED <<orphan, aux, published, mailed, rejected, failures, redone,
                 wiped, faults>>

\* The expiration of a message in the retry queue: dead-lettered to the main
\* queue through the default exchange.
Expire(c) ==
  /\ Move(c, "retry", "main")
  /\ UNCHANGED <<orphan, aux, published, mailed, rejected, failures, redone,
                 wiped, faults>>

Requeued == [st \in Stage |-> [c \in Copy |->
               CASE st = "main"     -> at[st][c] + UnackedOf(c)
                 [] st \in Unacked  -> 0
                 [] OTHER           -> at[st][c]]]

\* What every loss of the consumer's channel does at the broker.
ChannelLost ==
  /\ faults < MaxFaults
  /\ faults' = faults + 1
  /\ redone' = [c \in Copy |-> redone[c] + UnackedOf(c)]
  /\ UNCHANGED <<published, mailed, rejected, failures>>

\* The connection breaks, the process lives on: a handler that has not sent
\* its mail may still do so, though its ack will throw on the closed channel.
Orphaned == [c \in Copy |-> orphan[c] + at["handling"][c]]

Disconnect ==
  /\ ChannelLost
  /\ at' = Requeued
  /\ orphan' = Orphaned
  /\ UNCHANGED <<aux, wiped>>

\* The consumer process dies and boots again: bootstrap runs
\* setupRmqTopology before it listens.
ConsumerRestart ==
  /\ ChannelLost
  /\ at' = Requeued
  /\ orphan' = [c \in Copy |-> 0]
  /\ aux' = TRUE
  /\ UNCHANGED wiped

\* The broker restarts.  The clients reconnect and assert the main queue
\* again; nobody asserts the retry and dead queues.
BrokerRestart ==
  /\ ChannelLost
  /\ orphan' = Orphaned
  /\ aux' = (aux /\ Durable)
  /\ IF Durable /\ Persistent
       THEN at' = Requeued /\ UNCHANGED wiped
       ELSE /\ at' = [st \in Stage |-> [c \in Copy |-> 0]]
            /\ wiped' = wiped \cup published

\* An orphaned handler ends: it sends its mail, or it throws first.
OrphanEnds(c) ==
  /\ orphan[c] > 0
  /\ orphan' = [orphan EXCEPT ![c] = @ - 1]
  /\ mailed' \in {mailed, [mailed EXCEPT ![c.msg] = @ + 1]}
  /\ UNCHANGED <<at, aux, published, rejected, failures, redone, wiped, faults>>

-----------------------------------------------------------------------------
(* The specification                                                        *)

Consumer(c) ==
  \/ SendMail(c) \/ HandlerThrows(c)
  \/ CommitFails(c) \/ Ack(c)
  \/ Forward(c) \/ AckForwarded(c) \/ InternalError(c)

Fault == Disconnect \/ ConsumerRestart \/ BrokerRestart

Next ==
  \/ \E m \in Msg : Publish(m)
  \/ \E c \in Copy : Deliver(c) \/ Consumer(c) \/ Expire(c) \/ OrphanEnds(c)
  \/ Fault

Spec == Init /\ [][Next]_vars

\* A handler ends one way or the other (sendMail gives up in the end), the
\* process goes on to the next statement, the retry timer runs and the broker
\* pushes a ready message to a consumer with room for it.  No fault is fair.
Fairness ==
  \A c \in Copy :
    /\ WF_vars(Expire(c))
    /\ WF_vars(Deliver(c))
    /\ WF_vars(SendMail(c) \/ HandlerThrows(c))
    /\ WF_vars(CommitFails(c) \/ Ack(c))
    /\ WF_vars(Forward(c) \/ InternalError(c))
    /\ WF_vars(AckForwarded(c))

FairSpec == Spec /\ Fairness

-----------------------------------------------------------------------------
(* Correctness                                                              *)

\* Every count is a natural number and every ghost has its type.
TypeOK ==
  /\ at \in [Stage -> [Copy -> Nat]]
  /\ orphan \in [Copy -> Nat]
  /\ aux \in BOOLEAN
  /\ published \subseteq Msg
  /\ mailed \in [Msg -> Nat]
  /\ rejected \in [Msg -> Nat]
  /\ failures \in [Msg -> Nat]
  /\ redone \in [Copy -> Nat]
  /\ wiped \subseteq Msg
  /\ faults \in 0..MaxFaults

\* No message vanishes: one that was emitted, and that no broker restart took
\* away, is still carried by some copy, or was mailed, dead-lettered or
\* rejected - across requeues, retries, crashes between sendToQueue and ack,
\* and crashes between sendMail and ack.
NoSilentLoss ==
  \A m \in published \ wiped : Carried(m) \/ Settled(m)

\* A message is given up only after its whole retry budget: a dead-lettered
\* copy stands for MaxRetries + 1 handler runs that failed, whatever was
\* requeued and redelivered in between.
DeadOnlyAfterBudget ==
  \A m \in Msg : Buried(m) => failures[m] >= MaxRetries + 1

\* Behind the two properties above: a delivery in stage "mailed" has a mail to
\* show, and a copy has as many failed runs behind it as its stage and its
\* retry count say.
MailedHaveMail == \A c \in Copy : at["mailed"][c] > 0 => mailed[c.msg] > 0

FailuresOf(st, c) == CASE st = "dead" -> MaxRetries + 1
                       [] st \in {"failed", "forwarded"} -> c.tries + 1
                       [] OTHER -> c.tries

FailuresCounted ==
  \A st \in Stage, c \in Copy :
    at[st][c] > 0 => failures[c.msg] >= FailuresOf(st, c)

LossInv == aux /\ MailedHaveMail /\ NoSilentLoss

CopiesOf(m) == {c \in Copy : c.msg = m}

\* Duplicate mails are paid for: every mail of a message beyond the first
\* answers one requeued delivery or one transaction that failed after its
\* mail was sent.  Without those, a message is mailed at most once.
MailsPaidFor ==
  \A m \in Msg : mailed[m] <= 1 + MapThenSumSet(LAMBDA c : redone[c], CopiesOf(m))

\* Behind it: what a copy may still send, less what was paid for it, over all
\* copies of a message.
Unpaid == [c \in Copy |-> at["main"][c] + at["retry"][c] + at["handling"][c]
                            + at["failed"][c] + orphan[c] - redone[c]]

Afforded ==
  \A m \in Msg :
    mailed[m] + MapThenSumSet(LAMBDA c : Unpaid[c], CopiesOf(m))
      <= IF m \in published THEN 1 ELSE 0

\* Every emitted message is mailed, dead-lettered or rejected in the end,
\* unless a broker restart took it away.
EventuallySettled ==
  \A m \in Msg : m \in published ~> (Settled(m) \/ m \in wiped)

\* The retry loop ends: once the faults are over, the main and retry queues
\* drain and no delivery stays unacknowledged.
Drains ==
  <>[](\A c \in Copy : \A st \in Stage \ {"dead"} : at[st][c] = 0)

\* A message whose handler threw is stored in the retry queue or in the dead
\* queue before its delivery is acknowledged.
FailedIsStored ==
  [][\A c \in Copy : Forward(c) => at'["retry"] # at["retry"]
                                  \/ at'["dead"] # at["dead"]]_vars

-----------------------------------------------------------------------------
(* What the queue promises: module MailDelivery                             *)

\* The broker still has a copy of the message, acknowledged or not.
Held(m) == \E c \in Copy :
             /\ c.msg = m
             /\ \E st \in Stage \ {"dead"} : at[st][c] > 0

phase == [m \in Msg |-> IF m \notin published THEN "new"
                        ELSE IF Held(m) THEN "owed" ELSE "closed"]

givenUp == {m \in Msg : Buried(m) \/ rejected[m] > 0}

Delivery == INSTANCE MailDelivery WITH mails <- mailed

\* On a broker that keeps queues and messages, the queue implements
\* at-least-once delivery with giving up: every step is a step of MailDelivery
\* or none,
DeliverySteps == Delivery!SafeSpec

\* and what is owed is closed in the end.
DeliverySpec == Delivery!Spec

\* Behind the steps: only emitted messages have copies and handlers.
Known == \A c \in Copy :
           (orphan[c] > 0 \/ \E st \in Stage : at[st][c] > 0) => c.msg \in published

DeliveryInv == LossInv /\ wiped = {} /\ Known
=============================================================================
