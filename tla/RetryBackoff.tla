---------------------------- MODULE RetryBackoff ----------------------------
(***************************************************************************)
(* The e-mail queue of RmqRetry with what that module leaves out: the      *)
(* order of the main and retry queues, the delay of each retry, and the    *)
(* transaction inside which a sign-up emits its message.                   *)
(*                                                                         *)
(* Every action is the action of RmqRetry with a guard on the order or the *)
(* clock, so that a step here is a step there.                             *)
(***************************************************************************)
EXTENDS RmqRetry, Sequences

CONSTANT
  BaseDelay     \* baseDelayMs, in seconds

ASSUME BackoffAssumption ==
  /\ BaseDelay \in Nat
  /\ 2^0 = 1
  /\ \A n \in 0..MaxRetries : 2^n \in Nat /\ 2^(n + 1) = 2 * 2^n
  /\ \A i, j \in 0..MaxRetries : i <= j => 2^i <= 2^j

VARIABLES
  mainQ,        \* the main queue: copies, the next one to deliver first
  retryQ,       \* the retry queue: copies, and for how long they are in it
  outcome,      \* of the transaction that emitted the message
  age,          \* ghost: seconds since the message was emitted, up to Budget
  inTime,       \* ghost: messages committed before that was Budget
  glitch        \* ghost: messages whose last run failed on committed rows

timedVars == <<vars, mainQ, retryQ, outcome, age, inTime, glitch>>

-----------------------------------------------------------------------------
(* Delays                                                                   *)

\* Mutant of Delay: the exponent is forgotten.
ConstantDelay(n) == BaseDelay + 1

\* nextDelayMs of a message that was retried n times.
Delay(n) == BaseDelay + 2^n

\* Mutant of DelayOf: the count in the republished header is used.
DelayOfNext(c) == Delay(c.tries)

\* The expiration that a copy in the retry queue carries.
DelayOf(c) == Delay(c.tries - 1)

LongestDelay == Delay(MaxRetries - 1)

\* Delay(0) + ... + Delay(n - 1).
Elapsed(n) == n * BaseDelay + 2^n - 1

Budget == Elapsed(MaxRetries)

\* RabbitMQ looks at the head of a queue only.
Due == retryQ # <<>> /\ Head(retryQ).waited >= DelayOf(Head(retryQ).copy)

-----------------------------------------------------------------------------

TimedInit ==
  /\ Init
  /\ mainQ = <<>>
  /\ retryQ = <<>>
  /\ outcome = [m \in Msg |-> "none"]
  /\ age = [m \in Msg |-> 0]
  /\ inTime = {}
  /\ glitch = {}

(* The API process                                                          *)

\* localSignUp emits inside its transaction; other handlers emit when the
\* rows that the consumer will look for are committed.
Emit(m) ==
  /\ Publish(m)
  /\ mainQ' = Append(mainQ, First(m))
  /\ \/ outcome' = [outcome EXCEPT ![m] = "open"] /\ UNCHANGED inTime
     \/ /\ outcome' = [outcome EXCEPT ![m] = "committed"]
        /\ inTime' = inTime \cup {m}
  /\ UNCHANGED <<retryQ, age, glitch>>

CommitEmitter(m) ==
  /\ outcome[m] = "open"
  /\ outcome' = [outcome EXCEPT ![m] = "committed"]
  /\ inTime' = IF age[m] < Budget THEN inTime \cup {m} ELSE inTime
  /\ UNCHANGED <<vars, mainQ, retryQ, age, glitch>>

RollBackEmitter(m) ==
  /\ outcome[m] = "open"
  /\ outcome' = [outcome EXCEPT ![m] = "rolledBack"]
  /\ UNCHANGED <<vars, mainQ, retryQ, age, inTime, glitch>>

-----------------------------------------------------------------------------
(* The consumer                                                             *)

TakeHead(c) ==
  /\ mainQ # <<>>
  /\ c = Head(mainQ)
  /\ Deliver(c)
  /\ mainQ' = Tail(mainQ)
  /\ UNCHANGED <<retryQ, outcome, age, inTime, glitch>>

\* The lookup by primary key found the rows, and the mail goes out.
Mail(c) ==
  /\ outcome[c.msg] = "committed"
  /\ SendMail(c)
  /\ UNCHANGED <<mainQ, retryQ, outcome, age, inTime, glitch>>

\* Handler runs that fail although the rows are there, on the last retry.
Glitches(c) == IF outcome[c.msg] = "committed" /\ c.tries = MaxRetries
                 THEN glitch \cup {c.msg}
                 ELSE glitch

\* The rows are not there yet (or never will be), or something else throws.
Fail(c) ==
  /\ HandlerThrows(c)
  /\ glitch' = Glitches(c)
  /\ UNCHANGED <<mainQ, retryQ, outcome, age, inTime>>

MailTransactionFails(c) ==
  /\ CommitFails(c)
  /\ glitch' = Glitches(c)
  /\ UNCHANGED <<mainQ, retryQ, outcome, age, inTime>>

\* Mutant of ForwardTimed: the message never gets to the retry queue.
ForwardNowhere(c) ==
  /\ Forward(c)
  /\ UNCHANGED <<mainQ, retryQ, outcome, age, inTime, glitch>>

ForwardTimed(c) ==
  /\ Forward(c)
  /\ retryQ' = IF c.tries < MaxRetries /\ aux
                 THEN Append(retryQ, [copy |-> Again(c), waited |-> 0])
                 ELSE retryQ
  /\ UNCHANGED <<mainQ, outcome, age, inTime, glitch>>

Acknowledge(c) ==
  /\ Ack(c) \/ AckForwarded(c) \/ InternalError(c)
  /\ UNCHANGED <<mainQ, retryQ, outcome, age, inTime, glitch>>

-----------------------------------------------------------------------------
(* The broker                                                               *)

\* Mutant of ExpireHead: the message is dead-lettered at once.
ExpireAtOnce(c) ==
  /\ retryQ # <<>>
  /\ c = Head(retryQ).copy
  /\ Expire(c)
  /\ retryQ' = Tail(retryQ)
  /\ mainQ' = Append(mainQ, c)
  /\ UNCHANGED <<outcome, age, inTime, glitch>>

ExpireHead(c) ==
  /\ Due
  /\ c = Head(retryQ).copy
  /\ Expire(c)
  /\ retryQ' = Tail(retryQ)
  /\ mainQ' = Append(mainQ, c)
  /\ UNCHANGED <<outcome, age, inTime, glitch>>

Older(n) == IF n < Budget THEN n + 1 ELSE n

\* A second passes.  The broker's timer is punctual: none passes over a head
\* that is due.
Tick ==
  /\ ~Due
  /\ retryQ' = [i \in 1..Len(retryQ) |-> [retryQ[i] EXCEPT !.waited = @ + 1]]
  /\ age' = [m \in Msg |-> IF m \in published THEN Older(age[m]) ELSE 0]
  /\ UNCHANGED <<vars, mainQ, outcome, inTime, glitch>>

\* Unacknowledged deliveries return to the front of the main queue.
RequeueAtFront ==
  \E n \in 0..Prefetch : \E s \in [1..n -> Copy] :
    /\ \A c \in Copy : Cardinality({i \in 1..n : s[i] = c}) = UnackedOf(c)
    /\ mainQ' = s \o mainQ

LoseChannel ==
  /\ \/ (Disconnect \/ ConsumerRestart) /\ RequeueAtFront /\ UNCHANGED retryQ
     \/ /\ BrokerRestart
        /\ IF Durable /\ Persistent
             THEN RequeueAtFront /\ UNCHANGED retryQ
             ELSE mainQ' = <<>> /\ retryQ' = <<>>
  /\ UNCHANGED <<outcome, age, inTime, glitch>>

OrphanEndsTimed(c) ==
  /\ OrphanEnds(c)
  /\ mailed' # mailed => outcome[c.msg] = "committed"
  /\ UNCHANGED <<mainQ, retryQ, outcome, age, inTime, glitch>>

-----------------------------------------------------------------------------

TimedStep(c) ==
  \/ TakeHead(c) \/ Mail(c) \/ Fail(c) \/ MailTransactionFails(c)
  \/ ForwardTimed(c) \/ Acknowledge(c) \/ ExpireHead(c) \/ OrphanEndsTimed(c)

TimedNext ==
  \/ \E m \in Msg : Emit(m) \/ CommitEmitter(m) \/ RollBackEmitter(m)
  \/ \E c \in Copy : TimedStep(c)
  \/ Tick
  \/ LoseChannel

TimedSpec == TimedInit /\ [][TimedNext]_timedVars

-----------------------------------------------------------------------------
(* Correctness                                                              *)

\* The queues hold copies, and what is in the retry queue was retried.
TimedTyping ==
  /\ TypeOK
  /\ mainQ \in Seq(Copy)
  /\ retryQ \in Seq([copy : Copy, waited : Nat])
  /\ \A i \in 1..Len(retryQ) : retryQ[i].copy.tries > 0
  /\ outcome \in [Msg -> {"none", "open", "committed", "rolledBack"}]
  /\ age \in [Msg -> 0..Budget]
  /\ inTime \subseteq Msg
  /\ glitch \subseteq Msg

\* The counts of RmqRetry are those of the queues.
QueuesMatch ==
  \A c \in Copy :
    /\ at["main"][c] = Cardinality({i \in 1..Len(mainQ) : mainQ[i] = c})
    /\ at["retry"][c] = Cardinality({i \in 1..Len(retryQ) : retryQ[i].copy = c})

TimedTypeOK == TimedTyping /\ QueuesMatch

\* Messages expire at the head of the retry queue only, so a short delay waits
\* behind a long one; but no message waits longer than the longest delay.
WaitBounded ==
  \A i \in 1..Len(retryQ) : retryQ[i].waited <= LongestDelay

\* A message is given up only when the delays of all its retries have passed,
\* whatever was redelivered in between.
GivenUpLate == \A m \in Msg : Buried(m) => age[m] = Budget

\* The consumer may look for the rows of a sign-up before its COMMIT.  If they
\* are committed before the delays of all retries have passed, the message is
\* given up only if the last run of its handler failed for another reason.
CommittedInTimeIsMailed ==
  \A m \in inTime : Buried(m) => m \in glitch

\* Behind these properties: the retry queue is ordered by waiting time, a copy
\* is as old as the delays of its retries, and a failure on the last retry
\* came too late for the commit or after it.
Ordered ==
  \A i, j \in 1..Len(retryQ) : i < j => retryQ[i].waited >= retryQ[j].waited

Emitted ==
  /\ \A st \in Stage, c \in Copy : at[st][c] > 0 => c.msg \in published
  /\ \A i \in 1..Len(retryQ) : retryQ[i].copy.msg \in published
  /\ \A m \in Msg : outcome[m] # "none" => m \in published

\* A message of age a, in the retry queue for w seconds for the k-th time.
OldEnough(a, k, w) == a >= Elapsed(k) \/ a >= Elapsed(k - 1) + w

CopiesAged ==
  /\ \A st \in Stage \ {"retry"}, c \in Copy :
       at[st][c] > 0 => age[c.msg] >= Elapsed(c.tries)
  /\ \A i \in 1..Len(retryQ) :
       OldEnough(age[retryQ[i].copy.msg], retryQ[i].copy.tries, retryQ[i].waited)

LastAtBudget == \A c \in Copy : at["dead"][c] > 0 => c.tries = MaxRetries

LastFailures ==
  /\ \A m \in inTime : outcome[m] = "committed"
  /\ \A st \in {"failed", "forwarded", "dead"}, c \in Copy :
       at[st][c] > 0 /\ c.tries = MaxRetries /\ c.msg \in inTime => c.msg \in glitch

TimedInv ==
  /\ TimedTyping
  /\ Ordered
  /\ WaitBounded
  /\ Emitted
  /\ CopiesAged
  /\ LastAtBudget
  /\ LastFailures
=============================================================================
