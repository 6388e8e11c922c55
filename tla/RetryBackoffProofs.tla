------------------------- MODULE RetryBackoffProofs -------------------------
(***************************************************************************)
(* Theorems about RetryBackoff, for every set of messages, retry budget,   *)
(* base delay, prefetch count and number of faults.                        *)
(***************************************************************************)
EXTENDS RetryBackoff, RmqRetryProofs, SequenceTheorems

USE RmqAssumption

(***************************************************************************)
(* Delays                                                                  *)
(***************************************************************************)

\* The sum of the first delays: one more term adds one more delay, and no sum
\* exceeds the whole budget.
LEMMA ElapsedStep ==
  ASSUME NEW k \in 0..MaxRetries
  PROVE  /\ Elapsed(k) \in Nat
         /\ Elapsed(k) <= Budget
         /\ Elapsed(0) = 0
         /\ k > 0 => Elapsed(k) = Elapsed(k - 1) + Delay(k - 1)
<1>0. /\ k \in Nat /\ MaxRetries \in Nat /\ k <= MaxRetries /\ BaseDelay \in Nat
      /\ 0 \in 0..MaxRetries /\ MaxRetries \in 0..MaxRetries /\ 0 <= k
  BY BackoffAssumption
<1>1. /\ 2^0 = 1 /\ 2^k \in Nat /\ 2^MaxRetries \in Nat /\ 2^k <= 2^MaxRetries
      /\ 2^0 <= 2^k
      /\ k \in Nat /\ MaxRetries \in Nat /\ k <= MaxRetries /\ BaseDelay \in Nat
  BY <1>0, BackoffAssumption
<1>2. k * BaseDelay \in Nat /\ k * BaseDelay <= MaxRetries * BaseDelay
      /\ MaxRetries * BaseDelay \in Nat
  BY <1>1
<1>3. Elapsed(k) \in Nat /\ Elapsed(k) <= Budget
  BY <1>1, <1>2 DEF Elapsed, Budget
<1>4. Elapsed(0) = 0
  BY <1>1 DEF Elapsed
<1>5. ASSUME k > 0 PROVE Elapsed(k) = Elapsed(k - 1) + Delay(k - 1)
  <2>1. PICK j \in 0..MaxRetries : j = k - 1
    BY <1>1, <1>5
  <2>2. 2^j \in Nat /\ 2^(j + 1) = 2 * 2^j /\ k = j + 1
    BY <1>1, <2>1, BackoffAssumption
  <2>3. 2^k = 2 * 2^j
    BY <2>2
  <2>4. k * BaseDelay = j * BaseDelay + BaseDelay
    BY <1>1, <2>1
  <2>5. j * BaseDelay \in Nat
    BY <1>1
  <2> QED
    BY <1>1, <2>1, <2>2, <2>3, <2>4, <2>5 DEF Elapsed, Delay
<1> QED
  BY <1>3, <1>4, <1>5

\* No retry is delayed longer than the last one.
LEMMA DelayBound ==
  ASSUME NEW k \in 1..MaxRetries
  PROVE  /\ Delay(k - 1) \in Nat
         /\ LongestDelay \in Nat
         /\ Delay(k - 1) <= LongestDelay
<1>1. PICK j \in 0..MaxRetries : j = k - 1
  OBVIOUS
<1>2. PICK l \in 0..MaxRetries : l = MaxRetries - 1
  OBVIOUS
<1>3. j <= l
  BY <1>1, <1>2
<1>4. 2^j \in Nat /\ 2^l \in Nat /\ 2^j <= 2^l /\ BaseDelay \in Nat
  BY <1>3, BackoffAssumption
<1> QED
  BY <1>1, <1>2, <1>4 DEF Delay, LongestDelay

(***************************************************************************)
(* The queue without order and time                                        *)
(***************************************************************************)

\* A step of the timed queue is a step of RmqRetry, or leaves it alone.
LEMMA StepRefines == [TimedNext]_timedVars => [Next]_vars
<1> SUFFICES ASSUME [TimedNext]_timedVars PROVE [Next]_vars
  OBVIOUS
<1>1. ASSUME NEW m \in Msg, Emit(m) \/ CommitEmitter(m) \/ RollBackEmitter(m)
      PROVE  [Next]_vars
  BY <1>1 DEF Emit, CommitEmitter, RollBackEmitter, Next
<1>2. ASSUME NEW c \in Copy, TimedStep(c) PROVE Next
  BY <1>2 DEF TimedStep, TakeHead, Mail, Fail, MailTransactionFails, ForwardTimed,
              Acknowledge, ExpireHead, OrphanEndsTimed, Next, Consumer
<1>3. CASE Tick
  BY <1>3 DEF Tick
<1>4. CASE LoseChannel
  BY <1>4 DEF LoseChannel, Next, Fault
<1>5. CASE UNCHANGED timedVars
  BY <1>5 DEF timedVars
<1> QED
  BY <1>1, <1>2, <1>3, <1>4, <1>5 DEF TimedNext

\* The queue with order, delays and transactions implements the queue of
\* RmqRetry, so that whatever is proved there holds here.
THEOREM TimedImplementsQueue == TimedSpec => Spec
<1>1. TimedInit => Init
  BY DEF TimedInit
<1> QED
  BY <1>1, StepRefines, PTL DEF TimedSpec, Spec

(***************************************************************************)
(* Type correctness                                                        *)
(***************************************************************************)

Entry == [copy : Copy, waited : Nat]

\* How the retry queue changes in a step: a failed message is appended, the
\* head leaves when it is due, everything waits a second longer, or a broker
\* loses the queue.
LEMMA QueueStep ==
  ASSUME TimedNext
  PROVE  \/ UNCHANGED retryQ /\ (UNCHANGED age \/ Tick)
         \/ \E c \in Copy : /\ at["failed"][c] > 0 /\ c.tries < MaxRetries
                            /\ retryQ' = Append(retryQ, [copy |-> Again(c), waited |-> 0])
                            /\ UNCHANGED age
         \/ Due /\ retryQ' = Tail(retryQ) /\ UNCHANGED age
         \/ Tick
         \/ retryQ' = <<>> /\ UNCHANGED age
<1>1. ASSUME NEW c \in Copy, ForwardTimed(c)
      PROVE  \/ UNCHANGED retryQ
             \/ /\ at["failed"][c] > 0 /\ c.tries < MaxRetries
                /\ retryQ' = Append(retryQ, [copy |-> Again(c), waited |-> 0])
  BY <1>1 DEF ForwardTimed, Forward, SendToDeadQueue, SendToRetryQueue
<1>2. ASSUME NEW c \in Copy, ForwardTimed(c) PROVE UNCHANGED age
  BY <1>2 DEF ForwardTimed
<1>3. ASSUME NEW c \in Copy, TimedStep(c), ~ForwardTimed(c), ~ExpireHead(c)
      PROVE  UNCHANGED <<retryQ, age>>
  BY <1>3 DEF TimedStep, TakeHead, Mail, Fail, MailTransactionFails, Acknowledge,
              OrphanEndsTimed
<1>4. ASSUME NEW c \in Copy, ExpireHead(c)
      PROVE  Due /\ retryQ' = Tail(retryQ) /\ UNCHANGED age
  BY <1>4 DEF ExpireHead
<1>5. ASSUME NEW m \in Msg, Emit(m) \/ CommitEmitter(m) \/ RollBackEmitter(m)
      PROVE  UNCHANGED <<retryQ, age>>
  BY <1>5 DEF Emit, CommitEmitter, RollBackEmitter
<1>6. ASSUME LoseChannel PROVE (UNCHANGED retryQ \/ retryQ' = <<>>) /\ UNCHANGED age
  BY <1>6 DEF LoseChannel
<1> QED
  BY <1>1, <1>2, <1>3, <1>4, <1>5, <1>6 DEF TimedNext

\* A second adds one to the waiting time of every entry and moves none.
LEMMA TickQueue ==
  ASSUME TimedTyping, Tick
  PROVE  /\ retryQ' \in Seq(Entry)
         /\ Len(retryQ') = Len(retryQ)
         /\ \A i \in 1..Len(retryQ) : /\ retryQ'[i].copy = retryQ[i].copy
                                      /\ retryQ'[i].waited = retryQ[i].waited + 1
<1> DEFINE Aged(e) == [e EXCEPT !.waited = @ + 1]
<1>1. /\ retryQ \in Seq(Entry) /\ Len(retryQ) \in Nat
      /\ \A i \in 1..Len(retryQ) : retryQ[i] \in Entry
  BY ElementOfSeq, LenProperties DEF TimedTyping, Entry
<1>2. retryQ' = [i \in 1..Len(retryQ) |-> Aged(retryQ[i])]
  BY DEF Tick
<1>3. ASSUME NEW e \in Entry
      PROVE  Aged(e) \in Entry /\ Aged(e).copy = e.copy /\ Aged(e).waited = e.waited + 1
  BY DEF Entry
<1> HIDE DEF Aged
<1>4. retryQ' \in [1..Len(retryQ) -> Entry]
  BY <1>1, <1>2, <1>3
<1>5. retryQ' \in Seq(Entry)
  BY <1>1, <1>4, SeqDef
<1>6. DOMAIN retryQ' = 1..Len(retryQ') /\ Len(retryQ') \in Nat
  BY <1>5, LenProperties
<1>7. DOMAIN retryQ' = 1..Len(retryQ)
  BY <1>4
<1>8. Len(retryQ') = Len(retryQ)
  BY <1>1, <1>6, <1>7
<1> QED
  BY <1>1, <1>2, <1>3, <1>5, <1>8

\* A step keeps the retry queue a sequence of copies that were retried.
LEMMA QueueTyped ==
  ASSUME TimedTyping, TimedNext
  PROVE  /\ retryQ' \in Seq(Entry)
         /\ \A i \in 1..Len(retryQ') : retryQ'[i].copy.tries > 0
<1> USE DEF Entry
<1>0. /\ retryQ \in Seq(Entry) /\ Len(retryQ) \in Nat
      /\ \A i \in 1..Len(retryQ) : retryQ[i] \in Entry /\ retryQ[i].copy.tries > 0
  BY ElementOfSeq, LenProperties DEF TimedTyping
<1>1. CASE UNCHANGED retryQ
  BY <1>0, <1>1
<1>2. ASSUME NEW c \in Copy, c.tries < MaxRetries,
             retryQ' = Append(retryQ, [copy |-> Again(c), waited |-> 0])
      PROVE  /\ retryQ' \in Seq(Entry)
             /\ \A i \in 1..Len(retryQ') : retryQ'[i].copy.tries > 0
  <2>1. PICK e \in Entry : e = [copy |-> Again(c), waited |-> 0] /\ e.copy.tries > 0
    BY <1>2, AgainIsCopy, CopyParts
  <2> QED
    BY <1>0, <1>2, <2>1, AppendProperties
<1>3. CASE Due /\ retryQ' = Tail(retryQ)
  BY <1>0, <1>3, HeadTailProperties DEF Due
<1>4. CASE Tick
  BY <1>0, <1>4, TickQueue
<1>5. CASE retryQ' = <<>>
  BY <1>5, EmptySeq
<1> QED
  BY <1>1, <1>2, <1>3, <1>4, <1>5, QueueStep

\* Deliveries that return to the main queue make it a queue of copies again.
LEMMA RequeueTyped ==
  ASSUME mainQ \in Seq(Copy), RequeueAtFront
  PROVE  mainQ' \in Seq(Copy)
<1>1. PICK n \in 0..Prefetch : \E s \in [1..n -> Copy] : mainQ' = s \o mainQ
  BY DEF RequeueAtFront
<1>2. PICK s \in [1..n -> Copy] : mainQ' = s \o mainQ
  BY <1>1
<1>3. n \in Nat /\ s \in Seq(Copy)
  OBVIOUS
<1> QED
  BY <1>2, <1>3, ConcatProperties

\* Every step keeps the types of the queues, of the transactions and of the
\* ghosts.
LEMMA NextTimedTyping == TimedTyping /\ [TimedNext]_timedVars => TimedTyping'
<1> SUFFICES ASSUME TimedTyping, [TimedNext]_timedVars PROVE TimedTyping'
  OBVIOUS
<1>0. TypeOK'
  BY StepRefines, NextTypeOK DEF TimedTyping
<1>1. CASE UNCHANGED timedVars
  BY <1>0, <1>1 DEF timedVars, vars, TimedTyping
<1>2. CASE TimedNext
  <2>1. /\ retryQ' \in Seq([copy : Copy, waited : Nat])
        /\ \A i \in 1..Len(retryQ') : retryQ'[i].copy.tries > 0
    BY <1>2, QueueTyped DEF Entry
  <2>2. mainQ' \in Seq(Copy)
    <3>1. ASSUME NEW c \in Copy PROVE Append(mainQ, c) \in Seq(Copy)
      BY AppendProperties DEF TimedTyping
    <3>2. mainQ # <<>> => Tail(mainQ) \in Seq(Copy)
      BY HeadTailProperties DEF TimedTyping
    <3>3. mainQ \in Seq(Copy) /\ <<>> \in Seq(Copy)
      BY EmptySeq DEF TimedTyping
    <3>4. ASSUME LoseChannel PROVE mainQ' \in Seq(Copy)
      BY <3>3, <3>4, RequeueTyped DEF LoseChannel
    <3>5. ASSUME NEW c \in Copy, TimedStep(c) PROVE mainQ' \in Seq(Copy)
      BY <3>1, <3>2, <3>3, <3>5
      DEF TimedStep, TakeHead, Mail, Fail, MailTransactionFails, ForwardTimed,
          Acknowledge, ExpireHead, OrphanEndsTimed
    <3>6. ASSUME NEW m \in Msg, Emit(m) \/ CommitEmitter(m) \/ RollBackEmitter(m)
          PROVE  mainQ' \in Seq(Copy)
      BY <3>1, <3>3, <3>6, FirstIsCopy DEF Emit, CommitEmitter, RollBackEmitter
    <3> QED
      BY <1>2, <3>3, <3>4, <3>5, <3>6 DEF TimedNext, Tick
  <2>3. age' \in [Msg -> 0..Budget]
    <3>1. age \in [Msg -> 0..Budget]
      BY DEF TimedTyping
    <3>2. Budget \in Nat
      BY ElapsedStep DEF Budget
    <3>3. CASE Tick
      BY <3>1, <3>2, <3>3 DEF Tick, Older
    <3> QED
      BY <1>2, <3>1, <3>3, QueueStep
  <2>4. /\ outcome' \in [Msg -> {"none", "open", "committed", "rolledBack"}]
        /\ inTime' \subseteq Msg
        /\ glitch' \subseteq Msg
    BY <1>2, CopyParts
    DEF TimedTyping, TimedNext, TimedStep, TakeHead, Mail, Fail, MailTransactionFails,
        Glitches, ForwardTimed, Acknowledge, ExpireHead, OrphanEndsTimed, Emit, CommitEmitter,
        RollBackEmitter, Tick, LoseChannel
  <2> QED
    BY <1>0, <2>1, <2>2, <2>3, <2>4 DEF TimedTyping
<1> QED
  BY <1>1, <1>2

\* The queues are empty at first.
LEMMA InitTimedTyping == TimedInit => TimedTyping
<1>1. Budget \in Nat
  BY ElapsedStep DEF Budget
<1> QED
  BY <1>1, InitTypeOK, EmptySeq DEF TimedInit, TimedTyping

\* The queues, clocks and transactions are well typed in every reachable state,
\* and only copies that were retried sit in the retry queue.
THEOREM TimedTypeCorrect == TimedSpec => []TimedTyping
<1> QED
  BY InitTimedTyping, NextTimedTyping, PTL DEF TimedSpec

(***************************************************************************)
(* Head-of-line blocking                                                   *)
(***************************************************************************)

\* Entries of the retry queue have their types, and a delay that is at most
\* the longest one.
LEMMA EntryParts ==
  ASSUME TimedTyping
  PROVE  /\ retryQ \in Seq(Entry) /\ Len(retryQ) \in Nat
         /\ retryQ # <<>> => Len(retryQ) > 0
         /\ \A i \in 1..Len(retryQ) :
              /\ retryQ[i].copy \in Copy /\ retryQ[i].waited \in Nat
              /\ retryQ[i].copy.tries \in 1..MaxRetries
              /\ DelayOf(retryQ[i].copy) \in Nat
              /\ DelayOf(retryQ[i].copy) <= LongestDelay
         /\ LongestDelay \in Nat
<1>1. /\ retryQ \in Seq(Entry) /\ Len(retryQ) \in Nat
      /\ retryQ # <<>> => Len(retryQ) > 0
  BY LenProperties, EmptySeq DEF TimedTyping, Entry
<1>2. ASSUME NEW i \in 1..Len(retryQ)
      PROVE  /\ retryQ[i].copy \in Copy /\ retryQ[i].waited \in Nat
             /\ retryQ[i].copy.tries \in 1..MaxRetries
  <2>1. retryQ[i] \in Entry /\ retryQ[i].copy.tries > 0
    BY <1>1, ElementOfSeq DEF TimedTyping
  <2> QED
    BY <2>1, CopyParts DEF Entry
<1>3. LongestDelay \in Nat
  BY DelayBound
<1> QED
  BY <1>1, <1>2, <1>3, DelayBound DEF DelayOf

\* Every step keeps the retry queue ordered by waiting time and the wait
\* bounded: what is behind the head entered later, and no second passes over
\* a head that is due.
LEMMA NextWaitBounded ==
  ASSUME TimedTyping, Ordered, WaitBounded, TimedNext
  PROVE  Ordered' /\ WaitBounded'
<1>0. /\ retryQ \in Seq(Entry) /\ Len(retryQ) \in Nat
      /\ \A i \in 1..Len(retryQ) : retryQ[i].waited \in Nat
      /\ LongestDelay \in Nat
  BY EntryParts
<1>1. CASE UNCHANGED retryQ
  BY <1>1 DEF Ordered, WaitBounded
<1>2. ASSUME NEW c \in Copy, c.tries < MaxRetries,
             retryQ' = Append(retryQ, [copy |-> Again(c), waited |-> 0])
      PROVE  Ordered' /\ WaitBounded'
  <2>1. PICK e \in Entry : e = [copy |-> Again(c), waited |-> 0] /\ e.waited = 0
    BY <1>2, AgainIsCopy DEF Entry
  <2>2. /\ Len(retryQ') = Len(retryQ) + 1
        /\ \A i \in 1..Len(retryQ) : retryQ'[i] = retryQ[i]
        /\ retryQ'[Len(retryQ) + 1].waited = 0
    BY <1>0, <1>2, <2>1, AppendProperties
  <2> QED
    BY <1>0, <2>2 DEF Ordered, WaitBounded
<1>3. CASE Due /\ retryQ' = Tail(retryQ)
  <2>1. /\ Len(retryQ') = Len(retryQ) - 1
        /\ \A i \in 1..Len(retryQ') : retryQ'[i] = retryQ[i + 1]
    BY <1>0, <1>3, HeadTailProperties DEF Due
  <2>2. Ordered'
    BY <1>0, <2>1 DEF Ordered
  <2>3. WaitBounded'
    <3> SUFFICES ASSUME NEW i \in 1..Len(retryQ')
                 PROVE  retryQ'[i].waited <= LongestDelay
      BY DEF WaitBounded
    <3> QED
      BY <1>0, <2>1 DEF WaitBounded
  <2> QED
    BY <2>2, <2>3
<1>4. CASE Tick
  <2>1. /\ Len(retryQ') = Len(retryQ)
        /\ \A i \in 1..Len(retryQ) : retryQ'[i].waited = retryQ[i].waited + 1
    BY <1>4, TickQueue
  <2>2. Ordered'
    BY <1>0, <2>1 DEF Ordered
  <2>3. ASSUME NEW i \in 1..Len(retryQ) PROVE retryQ'[i].waited <= LongestDelay
    <3>1. retryQ # <<>> /\ 1 \in 1..Len(retryQ) /\ Head(retryQ) = retryQ[1]
      BY <1>0, <2>3, EmptySeq
    <3>2. retryQ[1].waited < DelayOf(retryQ[1].copy)
      BY <1>0, <1>4, <3>1, EntryParts DEF Tick, Due
    <3>3. retryQ[i].waited <= retryQ[1].waited
      BY <1>0, <2>3, <3>1 DEF Ordered
    <3>4. /\ DelayOf(retryQ[1].copy) \in Nat
          /\ DelayOf(retryQ[1].copy) <= LongestDelay
      BY <3>1, EntryParts
    <3> QED
      BY <1>0, <2>1, <2>3, <3>1, <3>2, <3>3, <3>4
  <2> QED
    BY <2>1, <2>2, <2>3 DEF WaitBounded
<1>5. CASE retryQ' = <<>>
  BY <1>5, EmptySeq DEF Ordered, WaitBounded
<1> QED
  BY <1>1, <1>2, <1>3, <1>4, <1>5, QueueStep

\* A message may wait in the retry queue behind one with a longer delay, but
\* never longer than the longest delay, for any number of messages and any
\* base delay, provided that the broker's timer is punctual.
THEOREM HeadOfLineBound == TimedSpec => []WaitBounded
<1>1. TimedInit => Ordered /\ WaitBounded
  BY EmptySeq DEF TimedInit, Ordered, WaitBounded
<1>2. TimedTyping /\ Ordered /\ WaitBounded /\ [TimedNext]_timedVars
        => (Ordered /\ WaitBounded)'
  <2>1. ASSUME Ordered, WaitBounded, UNCHANGED timedVars
        PROVE  (Ordered /\ WaitBounded)'
    BY <2>1 DEF timedVars, Ordered, WaitBounded
  <2> QED
    BY <2>1, NextWaitBounded
<1> QED
  BY <1>1, <1>2, TimedTypeCorrect, PTL DEF TimedSpec

(***************************************************************************)
(* Where a copy comes from, with its age                                   *)
(***************************************************************************)

\* Where the handler of a copy stands before it is at a stage; a copy that is
\* handed out stays the same copy.
Before(st) == CASE st = "main"      -> Unacked
                [] st = "handling"  -> {"main"}
                [] st = "mailed"    -> {"handling"}
                [] st = "failed"    -> {"handling", "mailed"}
                [] st = "forwarded" -> {"failed"}
                [] st = "dead"      -> {"failed"}
                [] OTHER            -> {}

\* A copy at a stage was there before, or has just been emitted, or comes from
\* the head of the retry queue, or from the stage before, or is republished.
LEMMA CopyTrace ==
  ASSUME TypeOK, TimedNext, NEW st \in Stage, NEW d \in Copy, at'[st][d] > 0
  PROVE  \/ at[st][d] > 0
         \/ st = "main" /\ d.tries = 0 /\ Emit(d.msg)
         \/ st = "main" /\ ExpireHead(d)
         \/ st = "retry" /\ \E c \in Copy : at["failed"][c] > 0 /\ d.msg = c.msg
         \/ /\ \E u \in Before(st) : at[u][d] > 0
            /\ st = "failed" => Fail(d) \/ MailTransactionFails(d)
            /\ st = "dead" => d.tries = MaxRetries
<1> DEFINE Goal == \/ at[st][d] > 0
                   \/ st = "main" /\ d.tries = 0 /\ Emit(d.msg)
                   \/ st = "main" /\ ExpireHead(d)
                   \/ st = "retry" /\ \E c \in Copy : at["failed"][c] > 0 /\ d.msg = c.msg
                   \/ /\ \E u \in Before(st) : at[u][d] > 0
                      /\ st = "failed" => Fail(d) \/ MailTransactionFails(d)
                      /\ st = "dead" => d.tries = MaxRetries
<1> SUFFICES Goal
  OBVIOUS
<1>0. {"main", "retry", "dead", "handling", "mailed", "failed", "forwarded"} = Stage
  BY DEF Stage, Unacked
<1>1. ASSUME NEW m \in Msg, Emit(m) PROVE Goal
  <2>1. Publish(m)
    BY <1>1 DEF Emit
  <2>2. at[st][d] > 0 \/ (st = "main" /\ d = First(m))
    BY <2>1, PublishTrace
  <2> QED
    BY <1>1, <2>2, FirstIsCopy
<1>2. ASSUME NEW c \in Copy, TakeHead(c) PROVE Goal
  <2>1. at["main"][c] > 0 /\ (at[st][d] > 0 \/ (st = "handling" /\ d = c))
    BY <1>0, <1>2, MoveTrace DEF TakeHead, Deliver
  <2> QED
    BY <2>1 DEF Before
<1>3. ASSUME NEW c \in Copy, Mail(c) PROVE Goal
  <2>1. at["handling"][c] > 0 /\ (at[st][d] > 0 \/ (st = "mailed" /\ d = c))
    BY <1>0, <1>3, MoveTrace DEF Mail, SendMail
  <2> QED
    BY <2>1 DEF Before
<1>4. ASSUME NEW c \in Copy, Fail(c) \/ MailTransactionFails(c) PROVE Goal
  <2>1. PICK u \in {"handling", "mailed"} : Move(c, u, "failed")
    BY <1>4 DEF Fail, MailTransactionFails, HandlerThrows, CommitFails
  <2>2. at[u][c] > 0 /\ (at[st][d] > 0 \/ (st = "failed" /\ d = c))
    BY <1>0, <2>1, MoveTrace
  <2> QED
    BY <1>4, <2>2 DEF Before
<1>5. ASSUME NEW c \in Copy, ForwardTimed(c) PROVE Goal
  <2>1. /\ at["failed"][c] > 0
        /\ Target(c).copy \in Copy /\ Target(c).copy.msg = c.msg
        /\ \/ at[st][d] > 0
           \/ st = "forwarded" /\ d = c
           \/ st = Target(c).stage /\ d = Target(c).copy
    BY <1>5, ForwardTrace DEF ForwardTimed
  <2>2. CASE st = Target(c).stage /\ d = Target(c).copy
    <3>1. CASE c.tries >= MaxRetries
      <4>1. st = "dead" /\ d = c /\ d.tries = MaxRetries
        BY <2>2, <3>1, CopyParts DEF Target
      <4> QED
        BY <2>1, <4>1 DEF Before
    <3>2. CASE ~(c.tries >= MaxRetries)
      <4>1. st = "retry"
        BY <2>2, <3>2 DEF Target
      <4> QED
        BY <2>1, <2>2, <4>1
    <3> QED
      BY <3>1, <3>2
  <2> QED
    BY <2>1, <2>2 DEF Before
<1>6. ASSUME NEW c \in Copy, Acknowledge(c) PROVE Goal
  <2>1. PICK u \in Stage : at[u][c] > 0 /\ at' = [at EXCEPT ![u][c] = @ - 1]
    BY <1>0, <1>6 DEF Acknowledge, Ack, AckForwarded, InternalError
  <2> QED
    BY <2>1, TakeTrace
<1>7. ASSUME NEW c \in Copy, ExpireHead(c) PROVE Goal
  <2>0. Move(c, "retry", "main")
    BY <1>7 DEF ExpireHead, Expire
  <2>1. at[st][d] > 0 \/ (st = "main" /\ d = c)
    BY <1>0, <2>0, MoveTrace
  <2> QED
    BY <1>7, <2>1
<1>8. CASE LoseChannel
  <2>1. CASE at' = Requeued
    <3>1. at[st][d] > 0 \/ (st = "main" /\ \E u \in Unacked : at[u][d] > 0)
      BY <2>1, RequeueTrace
    <3> QED
      BY <3>1 DEF Before
  <2>2. CASE at' = [s \in Stage |-> [c \in Copy |-> 0]]
    BY <2>2
  <2> QED
    BY <1>8, <2>1, <2>2 DEF LoseChannel, Disconnect, ConsumerRestart, BrokerRestart
<1>9. CASE UNCHANGED at
  BY <1>9
<1>10. ASSUME NEW c \in Copy, OrphanEndsTimed(c) PROVE Goal
  BY <1>9, <1>10 DEF OrphanEndsTimed, OrphanEnds
<1>11. ASSUME NEW m \in Msg, CommitEmitter(m) \/ RollBackEmitter(m) PROVE Goal
  BY <1>9, <1>11 DEF CommitEmitter, RollBackEmitter, vars
<1>12. CASE Tick
  BY <1>9, <1>12 DEF Tick, vars
<1> HIDE DEF Goal
<1>14. ASSUME NEW c \in Copy, TimedStep(c) PROVE Goal
  BY <1>2, <1>3, <1>4, <1>5, <1>6, <1>7, <1>10, <1>14 DEF TimedStep
<1> QED
  BY <1>1, <1>8, <1>11, <1>12, <1>14 DEF TimedNext

\* What only grows: the emitted messages, their ages and the glitches.
LEMMA GhostsGrow ==
  ASSUME TimedTyping, TimedNext
  PROVE  /\ published \subseteq published'
         /\ \A m \in published :
              age[m] \in Nat /\ age'[m] \in Nat /\ age'[m] >= age[m]
         /\ glitch \subseteq glitch'
<1>1. published \subseteq published' /\ published \subseteq Msg
  <2>1. [Next]_vars
    BY StepRefines
  <2> QED
    BY <2>1 DEF TimedTyping, TypeOK, Next, vars, Publish, Deliver, Consumer, SendMail,
         HandlerThrows, CommitFails, Ack, Forward, AckForwarded, InternalError, Expire,
         OrphanEnds, Fault, Disconnect, ConsumerRestart, BrokerRestart, ChannelLost
<1>2. \A m \in published :
        age[m] \in Nat /\ age'[m] \in Nat /\ age'[m] >= age[m]
  <2>1. age \in [Msg -> 0..Budget] /\ Budget \in Nat
    BY ElapsedStep DEF TimedTyping, Budget
  <2>2. CASE Tick
    BY <1>1, <2>1, <2>2 DEF Tick, Older
  <2>3. UNCHANGED age \/ Tick
    BY QueueStep
  <2>4. CASE UNCHANGED age
    BY <1>1, <2>1, <2>4
  <2> QED
    BY <2>2, <2>3, <2>4
<1>3. glitch \subseteq glitch'
  BY DEF TimedNext, TimedStep, TakeHead, Mail, Fail, MailTransactionFails, Glitches, ForwardTimed,
         Acknowledge, ExpireHead, OrphanEndsTimed, Emit, CommitEmitter, RollBackEmitter,
         Tick, LoseChannel
<1> QED
  BY <1>1, <1>2, <1>3

\* Every copy and every entry of the retry queue belongs to an emitted message.
LEMMA NextEmitted ==
  ASSUME TimedTyping, Emitted, TimedNext
  PROVE  Emitted'
<1>0. Before("main") \cup Before("handling") \cup Before("mailed") \cup Before("failed")
        \cup Before("forwarded") \cup Before("dead") \cup Before("retry") \subseteq Stage
  BY DEF Before, Stage, Unacked
<1>1. ASSUME NEW st \in Stage, NEW d \in Copy, at'[st][d] > 0
      PROVE  d.msg \in published'
  <2>1. TypeOK /\ Before(st) \subseteq Stage /\ "failed" \in Stage
    BY <1>0 DEF TimedTyping, Stage, Unacked
  <2>2. ASSUME Emit(d.msg) PROVE d.msg \in published'
    BY <2>2 DEF Emit, Publish
  <2>3. ASSUME ExpireHead(d) PROVE d.msg \in published
    <3>1. Head(retryQ) = retryQ[1] /\ 1 \in 1..Len(retryQ)
      BY <2>3, EntryParts DEF ExpireHead, Due
    <3> QED
      BY <2>3, <3>1 DEF ExpireHead, Emitted
  <2> QED
    BY <1>1, <2>1, <2>2, <2>3, CopyTrace, GhostsGrow DEF Emitted
<1>2. ASSUME NEW i \in 1..Len(retryQ') PROVE retryQ'[i].copy.msg \in published'
  <2>0. retryQ \in Seq(Entry) /\ Len(retryQ) \in Nat
    BY EntryParts
  <2>1. CASE UNCHANGED retryQ
    BY <1>2, <2>1, GhostsGrow DEF Emitted
  <2>2. ASSUME NEW c \in Copy, at["failed"][c] > 0, c.tries < MaxRetries,
               retryQ' = Append(retryQ, [copy |-> Again(c), waited |-> 0])
        PROVE  retryQ'[i].copy.msg \in published'
    <3>1. PICK e \in Entry : e = [copy |-> Again(c), waited |-> 0] /\ e.copy.msg = c.msg
      BY <2>2, AgainIsCopy DEF Entry
    <3>2. "failed" \in Stage
      BY DEF Stage, Unacked
    <3> QED
      BY <1>2, <2>0, <2>2, <3>1, <3>2, AppendProperties, GhostsGrow DEF Emitted
  <2>3. CASE Due /\ retryQ' = Tail(retryQ)
    BY <1>2, <2>0, <2>3, HeadTailProperties, GhostsGrow DEF Emitted, Due
  <2>4. CASE Tick
    BY <1>2, <2>0, <2>4, TickQueue, GhostsGrow DEF Emitted
  <2>5. CASE retryQ' = <<>>
    BY <1>2, <2>5, EmptySeq
  <2> QED
    BY <2>1, <2>2, <2>3, <2>4, <2>5, QueueStep
<1>3. ASSUME NEW m \in Msg, outcome'[m] # "none" PROVE m \in published'
  <2>1. outcome \in [Msg -> {"none", "open", "committed", "rolledBack"}]
    BY DEF TimedTyping
  <2>2. outcome[m] # "none" \/ Emit(m)
    BY <1>3, <2>1
    DEF TimedNext, TimedStep, TakeHead, Mail, Fail, MailTransactionFails, ForwardTimed,
        Acknowledge, ExpireHead, OrphanEndsTimed, Emit, CommitEmitter, RollBackEmitter,
        Tick, LoseChannel
  <2>3. ASSUME Emit(m) PROVE m \in published'
    BY <2>3 DEF Emit, Publish
  <2> QED
    BY <2>2, <2>3, GhostsGrow DEF Emitted
<1> QED
  BY <1>1, <1>2, <1>3 DEF Emitted

(***************************************************************************)
(* Giving up takes the delays of all retries                               *)
(***************************************************************************)

\* What is old enough stays so while it gets older, and for every second that
\* it waits.
LEMMA OldEnoughLater ==
  ASSUME NEW k \in 1..MaxRetries, NEW a \in 0..Budget, NEW b \in 0..Budget,
         NEW w \in Nat, OldEnough(a, k, w)
  PROVE  /\ b >= a => OldEnough(b, k, w)
         /\ b = Older(a) => OldEnough(b, k, w + 1)
         /\ w >= Delay(k - 1) => a >= Elapsed(k)
<1>1. /\ Elapsed(k) \in Nat /\ Elapsed(k - 1) \in Nat /\ Elapsed(k) <= Budget
      /\ Elapsed(k) = Elapsed(k - 1) + Delay(k - 1) /\ Delay(k - 1) \in Nat
      /\ Budget \in Nat
  BY ElapsedStep, DelayBound DEF Budget
<1> QED
  BY <1>1 DEF OldEnough, Older

\* A message that enters the retry queue for the k-th time.
LEMMA OldEnoughAtFirst ==
  ASSUME NEW k \in 0..MaxRetries - 1, NEW a \in 0..Budget, a >= Elapsed(k)
  PROVE  OldEnough(a, k + 1, 0)
<1>1. PICK j \in 0..MaxRetries : j = (k + 1) - 1 /\ a >= Elapsed(j)
  OBVIOUS
<1>2. Elapsed((k + 1) - 1) = Elapsed(j) /\ Elapsed(j) \in Nat
  BY <1>1, ElapsedStep
<1>3. a \in Nat /\ a >= Elapsed((k + 1) - 1) + 0
  BY <1>1, <1>2, ElapsedStep DEF Budget
<1> QED
  BY <1>3 DEF OldEnough

\* Every step keeps copies as old as the delays of their retries: a copy leaves
\* the retry queue when its own delay has passed.
LEMMA NextCopiesAged ==
  ASSUME TimedTyping, Emitted, CopiesAged, TimedNext
  PROVE  CopiesAged'
<1>0. /\ age \in [Msg -> 0..Budget] /\ age' \in [Msg -> 0..Budget]
      /\ TypeOK /\ published \subseteq Msg
  <2>1. TimedTyping'
    BY NextTimedTyping
  <2>2. published \subseteq Msg /\ age \in [Msg -> 0..Budget] /\ TypeOK
    BY DEF TimedTyping, TypeOK
  <2>3. age' \in [Msg -> 0..Budget]
    BY <2>1 DEF TimedTyping, Budget, Elapsed
  <2> QED
    BY <2>2, <2>3
<1>b. Budget \in Nat
  BY ElapsedStep DEF Budget
<1>a. ASSUME NEW d \in Copy
      PROVE  /\ d.msg \in Msg /\ Elapsed(d.tries) \in Nat /\ Elapsed(0) = 0
  BY CopyParts, ElapsedStep
<1>c. ASSUME NEW j \in 1..Len(retryQ)
      PROVE  /\ retryQ[j].copy \in Copy /\ retryQ[j].waited \in Nat
             /\ retryQ[j].copy.msg \in published /\ retryQ[j].copy.msg \in Msg
             /\ retryQ[j].copy.tries \in 1..MaxRetries
             /\ OldEnough(age[retryQ[j].copy.msg], retryQ[j].copy.tries, retryQ[j].waited)
  BY EntryParts, CopyParts DEF Emitted, CopiesAged
<1>1. ASSUME NEW st \in Stage \ {"retry"}, NEW d \in Copy, at'[st][d] > 0
      PROVE  age'[d.msg] >= Elapsed(d.tries)
  <2>1. ASSUME NEW u \in Stage \ {"retry"}, at[u][d] > 0
        PROVE  age'[d.msg] >= Elapsed(d.tries)
    <3>1. d.msg \in published /\ age[d.msg] >= Elapsed(d.tries)
      BY <2>1 DEF Emitted, CopiesAged
    <3> QED
      BY <1>0, <1>a, <1>b, <3>1, GhostsGrow
  <2>2. CASE d.tries = 0
    BY <1>0, <1>a, <1>b, <2>2
  <2>3. CASE ExpireHead(d)
    <3>1. /\ 1 \in 1..Len(retryQ) /\ retryQ[1].copy = d
          /\ retryQ[1].waited >= Delay(d.tries - 1)
      BY <2>3, EntryParts DEF ExpireHead, Due, DelayOf
    <3>2. age[d.msg] >= Elapsed(d.tries)
      BY <1>0, <1>c, <3>1, OldEnoughLater
    <3> QED
      BY <1>0, <1>a, <1>b, <1>c, <3>1, <3>2, GhostsGrow
  <2>4. Before(st) \subseteq Stage \ {"retry"}
    BY DEF Before, Stage, Unacked
  <2> QED
    BY <1>0, <1>1, <2>1, <2>2, <2>3, <2>4, CopyTrace
<1>2. ASSUME NEW i \in 1..Len(retryQ')
      PROVE  OldEnough(age'[retryQ'[i].copy.msg], retryQ'[i].copy.tries, retryQ'[i].waited)
  <2> DEFINE Goal == OldEnough(age'[retryQ'[i].copy.msg], retryQ'[i].copy.tries,
                               retryQ'[i].waited)
  <2> SUFFICES Goal
    OBVIOUS
  <2>0. retryQ \in Seq(Entry) /\ Len(retryQ) \in Nat
    BY EntryParts
  <2>b. ASSUME NEW j \in 1..Len(retryQ), retryQ'[i] = retryQ[j] PROVE Goal
    <3>1. PICK m \in Msg : m = retryQ[j].copy.msg /\ m \in published
      BY <1>c
    <3>2. OldEnough(age[m], retryQ[j].copy.tries, retryQ[j].waited)
      BY <1>c, <3>1
    <3>3. age'[m] >= age[m] /\ age[m] \in 0..Budget /\ age'[m] \in 0..Budget
      BY <1>0, <3>1, GhostsGrow
    <3>4. OldEnough(age'[m], retryQ[j].copy.tries, retryQ[j].waited)
      BY <1>c, <3>2, <3>3, OldEnoughLater
    <3> QED
      BY <2>b, <3>1, <3>4
  <2>1. CASE UNCHANGED retryQ
    BY <1>2, <2>b, <2>1
  <2>2. ASSUME NEW c \in Copy, at["failed"][c] > 0, c.tries < MaxRetries,
               retryQ' = Append(retryQ, [copy |-> Again(c), waited |-> 0])
        PROVE  Goal
    <3>1. /\ Again(c) \in Copy /\ Again(c).msg = c.msg /\ Again(c).tries = c.tries + 1
          /\ c.tries \in Nat
      BY <2>2, AgainIsCopy, CopyParts
    <3> DEFINE e == [copy |-> Again(c), waited |-> 0]
    <3>2. e \in Entry /\ e.copy = Again(c) /\ e.waited = 0
      BY <3>1 DEF Entry
    <3> HIDE DEF e
    <3>3. "failed" \in Stage \ {"retry"}
      BY DEF Stage, Unacked
    <3>4. c.msg \in published /\ age[c.msg] >= Elapsed(c.tries)
      BY <2>2, <3>3 DEF Emitted, CopiesAged
    <3>5. age'[c.msg] \in 0..Budget /\ age'[c.msg] >= Elapsed(c.tries)
      BY <1>0, <1>a, <1>b, <3>1, <3>4, GhostsGrow
    <3>8. OldEnough(age'[c.msg], c.tries + 1, 0)
      BY <2>2, <3>1, <3>5, OldEnoughAtFirst
    <3>6. retryQ'[i] = e \/ (i \in 1..Len(retryQ) /\ retryQ'[i] = retryQ[i])
      BY <1>2, <2>0, <2>2, <3>2, AppendProperties DEF e
    <3>7. CASE retryQ'[i] = e
      <4>1. /\ retryQ'[i].copy.msg = c.msg /\ retryQ'[i].copy.tries = c.tries + 1
            /\ retryQ'[i].waited = 0
        BY <3>1, <3>2, <3>7
      <4> QED
        BY <3>8, <4>1
    <3> QED
      BY <2>b, <3>6, <3>7
  <2>3. CASE Due /\ retryQ' = Tail(retryQ)
    <3>1. i + 1 \in 1..Len(retryQ) /\ retryQ'[i] = retryQ[i + 1]
      BY <1>2, <2>0, <2>3, HeadTailProperties DEF Due
    <3> QED
      BY <2>b, <3>1
  <2>4. CASE Tick
    <3>1. /\ i \in 1..Len(retryQ)
          /\ retryQ'[i].copy = retryQ[i].copy
          /\ retryQ'[i].waited = retryQ[i].waited + 1
      BY <1>2, <2>4, TickQueue
    <3>2. PICK m \in Msg : m = retryQ[i].copy.msg /\ m \in published
      BY <1>c, <3>1
    <3>3. age'[m] = Older(age[m]) /\ age[m] \in 0..Budget /\ age'[m] \in 0..Budget
      BY <1>0, <2>4, <3>2 DEF Tick
    <3>4. OldEnough(age[m], retryQ[i].copy.tries, retryQ[i].waited)
      BY <1>c, <3>1, <3>2
    <3>5. OldEnough(age'[m], retryQ[i].copy.tries, retryQ[i].waited + 1)
      BY <1>c, <3>1, <3>3, <3>4, OldEnoughLater
    <3> QED
      BY <3>1, <3>2, <3>5
  <2>5. CASE retryQ' = <<>>
    BY <1>2, <2>5, EmptySeq
  <2> HIDE DEF Goal
  <2> QED
    BY <2>1, <2>2, <2>3, <2>4, <2>5, QueueStep
<1> QED
  BY <1>1, <1>2 DEF CopiesAged

\* Only a copy that used up its retries is dead-lettered.
LEMMA NextLastAtBudget ==
  ASSUME TimedTyping, LastAtBudget, TimedNext
  PROVE  LastAtBudget'
<1> SUFFICES ASSUME NEW c \in Copy, at'["dead"][c] > 0 PROVE c.tries = MaxRetries
  BY DEF LastAtBudget
<1>1. "dead" \in Stage /\ TypeOK
  BY DEF Stage, TimedTyping
<1> QED
  BY <1>1, CopyTrace DEF LastAtBudget

\* No message is given up before the delays of all its retries have passed,
\* whatever is requeued and redelivered: a requeued copy keeps its header.
THEOREM GivingUpTakesAllDelays == TimedSpec => []GivenUpLate
<1> DEFINE AgeInv == TimedTyping /\ Emitted /\ CopiesAged /\ LastAtBudget
<1>1. TimedInit => AgeInv
  <2> SUFFICES ASSUME TimedInit PROVE AgeInv
    OBVIOUS
  <2>1. TimedTyping
    BY InitTimedTyping
  <2>2. /\ \A st \in Stage, c \in Copy : ~(at[st][c] > 0)
        /\ Len(retryQ) = 0 /\ outcome = [m \in Msg |-> "none"]
    BY EmptySeq DEF TimedInit, Init
  <2>3. "dead" \in Stage
    BY DEF Stage
  <2> QED
    BY <2>1, <2>2, <2>3 DEF Emitted, CopiesAged, LastAtBudget
<1>2. AgeInv /\ [TimedNext]_timedVars => AgeInv'
  <2>1. ASSUME AgeInv, UNCHANGED timedVars PROVE AgeInv'
    <3>1. TimedTyping'
      BY <2>1, NextTimedTyping
    <3> QED
      BY <2>1, <3>1 DEF timedVars, vars, Emitted, CopiesAged, LastAtBudget
  <2> QED
    BY <2>1, NextTimedTyping, NextEmitted, NextCopiesAged, NextLastAtBudget
<1>3. AgeInv => GivenUpLate
  <2> SUFFICES ASSUME AgeInv, NEW m \in Msg, Buried(m) PROVE age[m] = Budget
    BY DEF GivenUpLate
  <2>1. PICK c \in Copy : c.msg = m /\ at["dead"][c] > 0
    BY DEF Buried
  <2>2. "dead" \in Stage \ {"retry"}
    BY DEF Stage
  <2>3. age[m] >= Elapsed(MaxRetries)
    BY <2>1, <2>2 DEF CopiesAged, LastAtBudget
  <2>4. age[m] \in 0..Budget /\ Budget \in Nat
    BY ElapsedStep DEF TimedTyping, Budget
  <2> QED
    BY <2>3, <2>4 DEF Budget
<1> QED
  BY <1>1, <1>2, <1>3, PTL DEF TimedSpec

(***************************************************************************)
(* A commit that comes in time                                             *)
(***************************************************************************)

\* A message is counted as committed in time while it is emitted, or by a
\* commit before its budget is over.
LEMMA InTimeStep ==
  ASSUME TimedNext, NEW m \in inTime'
  PROVE  m \in inTime \/ Emit(m) \/ (CommitEmitter(m) /\ age[m] < Budget)
<1>1. ASSUME NEW n \in Msg, Emit(n) PROVE m \in inTime \/ m = n
  BY <1>1 DEF Emit
<1>2. ASSUME NEW n \in Msg, CommitEmitter(n)
      PROVE  m \in inTime \/ (m = n /\ age[n] < Budget)
  BY <1>2 DEF CommitEmitter
<1>3. ASSUME NEW n \in Msg, RollBackEmitter(n) PROVE m \in inTime
  BY <1>3 DEF RollBackEmitter
<1>4. ASSUME NEW c \in Copy, TimedStep(c) PROVE m \in inTime
  BY <1>4 DEF TimedStep, TakeHead, Mail, Fail, MailTransactionFails, ForwardTimed,
              Acknowledge, ExpireHead, OrphanEndsTimed
<1>5. ASSUME Tick \/ LoseChannel PROVE m \in inTime
  BY <1>5 DEF Tick, LoseChannel
<1> QED
  BY <1>1, <1>2, <1>3, <1>4, <1>5 DEF TimedNext

\* Every step keeps the account of failures on the last retry: a handler that
\* then fails on committed rows is a glitch, and a commit after it is late.
LEMMA NextLastFailures ==
  ASSUME TimedTyping, Emitted, CopiesAged, LastFailures, TimedNext
  PROVE  LastFailures'
<1>0. /\ TypeOK /\ age \in [Msg -> 0..Budget] /\ Budget \in Nat
      /\ outcome \in [Msg -> {"none", "open", "committed", "rolledBack"}]
      /\ inTime \subseteq Msg /\ glitch \subseteq Msg
  BY ElapsedStep DEF TimedTyping, Budget
<1>1. ASSUME NEW m \in inTime' PROVE outcome'[m] = "committed"
  <2>1. m \in Msg
    BY NextTimedTyping DEF TimedTyping
  <2>2. ASSUME m \in inTime PROVE outcome'[m] = "committed"
    <3>1. outcome[m] = "committed" /\ m \in published
      BY <2>1, <2>2 DEF LastFailures, Emitted
    <3> QED
      BY <1>0, <2>1, <3>1
      DEF TimedNext, TimedStep, TakeHead, Mail, Fail, MailTransactionFails, ForwardTimed,
          Acknowledge, ExpireHead, OrphanEndsTimed, Emit, Publish, CommitEmitter,
          RollBackEmitter, Tick, LoseChannel
  <2>3. ASSUME Emit(m), m \notin inTime PROVE outcome'[m] = "committed"
    BY <1>0, <1>1, <2>1, <2>3 DEF Emit
  <2>4. ASSUME CommitEmitter(m) PROVE outcome'[m] = "committed"
    BY <1>0, <2>1, <2>4 DEF CommitEmitter
  <2> QED
    BY <1>1, <2>2, <2>3, <2>4, InTimeStep
<1>2. ASSUME NEW c \in Copy, NEW st \in {"failed", "forwarded", "dead"}, at[st][c] > 0,
             c.tries = MaxRetries, c.msg \in inTime'
      PROVE  c.msg \in glitch'
  <2>1. st \in Stage \ {"retry"} /\ c.msg \in Msg
    BY CopyParts DEF Stage, Unacked
  <2>2. c.msg \in published /\ age[c.msg] >= Budget
    BY <1>2, <2>1 DEF Emitted, CopiesAged, Budget
  <2>3. ~Emit(c.msg)
    BY <2>2 DEF Emit, Publish
  <2>4. ~(age[c.msg] < Budget)
    BY <1>0, <2>1, <2>2
  <2>5. c.msg \in inTime
    BY <1>2, <2>3, <2>4, InTimeStep
  <2>6. c.msg \in glitch
    BY <1>2, <2>5 DEF LastFailures
  <2> QED
    BY <2>6, GhostsGrow
<1>3. ASSUME NEW st \in {"failed", "forwarded", "dead"}, NEW c \in Copy, at'[st][c] > 0,
             c.tries = MaxRetries, c.msg \in inTime'
      PROVE  c.msg \in glitch'
  <2>1. st \in Stage /\ c.msg \in Msg
    BY CopyParts DEF Stage, Unacked
  <2>2. ASSUME st = "failed", Fail(c) \/ MailTransactionFails(c) PROVE c.msg \in glitch'
    <3>1. inTime' = inTime
      BY <2>2 DEF Fail, MailTransactionFails
    <3>2. outcome[c.msg] = "committed"
      BY <1>3, <3>1 DEF LastFailures
    <3> QED
      BY <1>3, <2>2, <3>2 DEF Fail, MailTransactionFails, Glitches
  <2>3. ASSUME st # "failed", NEW u \in Before(st), at[u][c] > 0 PROVE u = "failed"
    BY <1>3, <2>3 DEF Before
  <2> QED
    BY <1>0, <1>2, <1>3, <2>1, <2>2, <2>3, CopyTrace
<1> QED
  BY <1>1, <1>3 DEF LastFailures

\* A sign-up's message that the consumer handles before COMMIT finds no user
\* and is retried.  If the COMMIT comes before the delays of all retries have
\* passed, it is given up only if the handler's last run failed on committed rows.
THEOREM CommitInTimeIsEnough == TimedSpec => []CommittedInTimeIsMailed
<1> DEFINE LateInv == /\ TimedTyping /\ Emitted /\ CopiesAged
                      /\ LastAtBudget /\ LastFailures
<1>1. TimedInit => LateInv
  <2> SUFFICES ASSUME TimedInit PROVE LateInv
    OBVIOUS
  <2>1. TimedTyping
    BY InitTimedTyping
  <2>2. /\ \A st \in Stage, c \in Copy : ~(at[st][c] > 0)
        /\ Len(retryQ) = 0 /\ outcome = [m \in Msg |-> "none"] /\ inTime = {}
    BY EmptySeq DEF TimedInit, Init
  <2>3. {"failed", "forwarded", "dead"} \subseteq Stage
    BY DEF Stage, Unacked
  <2> QED
    BY <2>1, <2>2, <2>3 DEF Emitted, CopiesAged, LastAtBudget, LastFailures
<1>2. LateInv /\ [TimedNext]_timedVars => LateInv'
  <2>1. ASSUME LateInv, UNCHANGED timedVars PROVE LateInv'
    <3>1. TimedTyping'
      BY <2>1, NextTimedTyping
    <3> QED
      BY <2>1, <3>1
      DEF timedVars, vars, Emitted, CopiesAged, LastAtBudget, LastFailures
  <2> QED
    BY <2>1, NextTimedTyping, NextEmitted, NextCopiesAged, NextLastAtBudget,
       NextLastFailures
<1>3. LateInv => CommittedInTimeIsMailed
  <2> SUFFICES ASSUME LateInv, NEW m \in inTime, Buried(m) PROVE m \in glitch
    BY DEF CommittedInTimeIsMailed
  <2>1. PICK c \in Copy : c.msg = m /\ at["dead"][c] > 0
    BY DEF Buried
  <2> QED
    BY <2>1 DEF LastAtBudget, LastFailures
<1> QED
  BY <1>1, <1>2, <1>3, PTL DEF TimedSpec
=============================================================================
