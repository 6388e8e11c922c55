------------------------- MODULE MailDeliveryProofs -------------------------
(***************************************************************************)
(* On a broker that keeps its queues and their messages over a restart,    *)
(* every step of RmqRetry is a step of MailDelivery, or changes nothing    *)
(* that MailDelivery speaks of.                                            *)
(***************************************************************************)
EXTENDS RmqRetryProofs, SumLemmas, FunctionTheorems

USE RmqAssumption

(***************************************************************************)
(* Messages behind copies                                                  *)
(***************************************************************************)

\* The stages, and the ones in which the broker holds a copy that counts for
\* Held.
LEMMA StagesListed ==
  /\ Stage = {"main", "retry", "dead", "handling", "mailed", "failed", "forwarded"}
  /\ Unacked = {"handling", "mailed", "failed", "forwarded"}
  /\ "dead" \notin Stage \ {"dead"}
BY DEF Stage, Unacked

\* What a step does to the copies it moves and to those it takes away.
LEMMA Steps ==
  ASSUME [Next]_vars
  PROVE  \/ UNCHANGED <<at, orphan>>
         \/ \E m \in Msg : Publish(m)
         \/ \E c \in Copy, from, to \in Stage :
              /\ from # to /\ from # "dead" /\ to # "dead"
              /\ Move(c, from, to) /\ UNCHANGED orphan
         \/ \E c \in Copy : Ack(c) \/ AckForwarded(c) \/ InternalError(c)
         \/ \E c \in Copy : Forward(c)
         \/ \E c \in Copy : OrphanEnds(c)
         \/ Fault
BY StagesListed
DEF Next, Consumer, vars, Deliver, SendMail, HandlerThrows, CommitFails, Expire

\* Only emitted messages have copies and handlers: a copy never changes its
\* message.
LEMMA KnownStays ==
  ASSUME TypeOK, Known, [Next]_vars
  PROVE  Known'
<1>1. published \subseteq published'
  BY DEF Next, vars, Publish, Deliver, Consumer, SendMail, HandlerThrows,
         CommitFails, Ack, Forward, AckForwarded, InternalError, Expire,
         OrphanEnds, Fault, Disconnect, ConsumerRestart, BrokerRestart, ChannelLost
<1> SUFFICES ASSUME NEW d \in Copy,
                    orphan'[d] > 0 \/ \E st \in Stage : at'[st][d] > 0
             PROVE  d.msg \in published'
  BY DEF Known
<1>2. ASSUME NEW st \in Stage, at[st][d] > 0 PROVE d.msg \in published'
  BY <1>1, <1>2 DEF Known
<1>3. ASSUME orphan[d] > 0 PROVE d.msg \in published'
  BY <1>1, <1>3 DEF Known
<1>4. CASE UNCHANGED <<at, orphan>>
  BY <1>2, <1>3, <1>4
<1>5. ASSUME NEW m \in Msg, Publish(m) PROVE d.msg \in published'
  <2>1. orphan' = orphan /\ m \in published'
    BY <1>5 DEF Publish
  <2>2. ASSUME NEW st \in Stage, at'[st][d] > 0
        PROVE  at[st][d] > 0 \/ d.msg = m
    BY <1>5, <2>2, PublishTrace, FirstIsCopy
  <2> QED BY <1>2, <1>3, <2>1, <2>2
<1>6. ASSUME NEW c \in Copy, NEW from \in Stage, NEW to \in Stage, from # to,
             Move(c, from, to), orphan' = orphan
      PROVE  d.msg \in published'
  BY <1>2, <1>3, <1>6, MoveTrace
<1>7. ASSUME NEW c \in Copy, Ack(c) \/ AckForwarded(c) \/ InternalError(c)
      PROVE  d.msg \in published'
  <2>1. PICK from \in Stage : /\ at[from][c] > 0
                              /\ at' = [at EXCEPT ![from][c] = @ - 1]
    BY <1>7, StagesListed DEF Ack, AckForwarded, InternalError
  <2>2. orphan' = orphan
    BY <1>7 DEF Ack, AckForwarded, InternalError
  <2> QED BY <1>2, <1>3, <2>1, <2>2, TakeTrace
<1>8. ASSUME NEW c \in Copy, Forward(c) PROVE d.msg \in published'
  <2>1. /\ at["failed"][c] > 0 /\ Target(c).copy.msg = c.msg
        /\ \A st \in Stage : at'[st][d] > 0 =>
             at[st][d] > 0 \/ d = c \/ d = Target(c).copy
    BY <1>8, ForwardTrace
  <2>2. c.msg \in published'
    BY <1>1, <2>1, StagesListed DEF Known
  <2>3. orphan' = orphan
    BY <1>8 DEF Forward
  <2> QED BY <1>2, <1>3, <2>1, <2>2, <2>3
<1>9. ASSUME NEW c \in Copy, OrphanEnds(c) PROVE d.msg \in published'
  <2>1. at' = at /\ orphan[c] > 0 /\ orphan' = [orphan EXCEPT ![c] = @ - 1]
    BY <1>9 DEF OrphanEnds
  <2>2. orphan'[d] > 0 => orphan[d] > 0
    BY <2>1 DEF TypeOK
  <2> QED BY <1>2, <1>3, <2>1, <2>2
<1>10. CASE Fault
  <2>1. /\ \/ at' = Requeued
           \/ at' = [st \in Stage |-> [c \in Copy |-> 0]]
        /\ orphan' = Orphaned \/ orphan' = [c \in Copy |-> 0]
    BY <1>10 DEF Fault, Disconnect, ConsumerRestart, BrokerRestart
  <2>2. ASSUME NEW st \in Stage, at'[st][d] > 0
        PROVE  \E from \in Stage : at[from][d] > 0
    BY <2>1, <2>2, RequeueTrace, StagesListed
  <2>3. orphan'[d] > 0 => orphan[d] > 0 \/ at["handling"][d] > 0
    <3>1. orphan[d] \in Nat /\ at["handling"][d] \in Nat
      BY StagesListed DEF TypeOK
    <3>2. orphan'[d] = orphan[d] + at["handling"][d] \/ orphan'[d] = 0
      BY <2>1 DEF Orphaned
    <3> QED BY <3>1, <3>2
  <2> QED BY <1>2, <1>3, <2>2, <2>3, StagesListed
<1> QED
  BY <1>4, <1>5, <1>6, <1>7, <1>8, <1>9, <1>10, Steps

\* A broker that keeps queues and messages loses none.
LEMMA NextDeliveryInv ==
  ASSUME Durable, Persistent, TypeOK, DeliveryInv, [Next]_vars
  PROVE  DeliveryInv'
<1>1. wiped' = wiped
  BY DEF Next, vars, Publish, Deliver, Consumer, SendMail, HandlerThrows,
         CommitFails, Ack, Forward, AckForwarded, InternalError, Expire,
         OrphanEnds, Fault, Disconnect, ConsumerRestart, BrokerRestart, ChannelLost
<1> QED
  BY <1>1, NextLossInv, KnownStays DEF DeliveryInv

(***************************************************************************)
(* The abstract state before and after a step                              *)
(***************************************************************************)

\* One witness is enough for a message to be held, or buried.
LEMMA HeldBy ==
  ASSUME NEW d \in Copy, NEW st \in Stage, st # "dead"
  PROVE  /\ at[st][d] > 0 => Held(d.msg)
         /\ at'[st][d] > 0 => Held(d.msg)'
         /\ at["dead"][d] > 0 => Buried(d.msg)
         /\ at'["dead"][d] > 0 => Buried(d.msg)'
BY DEF Held, Buried

\* A message changes its phase when it is emitted, and when its last copy
\* leaves.
LEMMA PhaseKept ==
  ASSUME published' = published, \A m \in Msg : Held(m)' <=> Held(m)
  PROVE  phase' = phase
BY DEF phase

LEMMA PhaseClosed ==
  ASSUME published' = published, NEW n \in published, n \in Msg, Held(n), ~Held(n)',
         \A m \in Msg : m # n => (Held(m)' <=> Held(m))
  PROVE  phase[n] = "owed" /\ phase' = [phase EXCEPT ![n] = "closed"]
BY DEF phase

LEMMA GivenUpKept ==
  ASSUME rejected' = rejected, \A m \in Msg : Buried(m)' <=> Buried(m)
  PROVE  givenUp' = givenUp
BY DEF givenUp

\* A move between live stages is seen by nobody.
LEMMA MoveIsSilent ==
  ASSUME TypeOK, NEW c \in Copy, NEW from \in Stage \ {"dead"},
         NEW to \in Stage \ {"dead"}, from # to, Move(c, from, to)
  PROVE  \A m \in Msg : (Held(m)' <=> Held(m)) /\ (Buried(m)' <=> Buried(m))
<1>1. /\ at[from][c] > 0 /\ at'[to][c] > 0
      /\ \A st \in Stage, d \in Copy :
              /\ at'[st][d] > 0 => at[st][d] > 0 \/ (st = to /\ d = c)
              /\ at[st][d] > 0 => at'[st][d] > 0 \/ (st = from /\ d = c)
  BY MoveTrace
<1> QED BY <1>1, StagesListed DEF Held, Buried

\* Requeueing is seen by nobody.
LEMMA RequeueIsSilent ==
  ASSUME TypeOK, at' = Requeued
  PROVE  \A m \in Msg : (Held(m)' <=> Held(m)) /\ (Buried(m)' <=> Buried(m))
<1>1. \A st \in Stage, d \in Copy :
        /\ at'[st][d] > 0 => \/ at[st][d] > 0
                             \/ st = "main" /\ \E u \in Unacked : at[u][d] > 0
        /\ at[st][d] > 0 => \/ at'[st][d] > 0
                            \/ st \in Unacked /\ at'["main"][d] > 0
  BY RequeueTrace
<1> SUFFICES ASSUME NEW m \in Msg
             PROVE  (Held(m)' <=> Held(m)) /\ (Buried(m)' <=> Buried(m))
  OBVIOUS
<1>2. "main" \in Stage \ {"dead"} /\ Unacked \subseteq Stage \ {"dead"}
  BY StagesListed
<1>3. Held(m)' => Held(m)
  BY <1>1, <1>2 DEF Held
<1>4. Held(m) => Held(m)'
  BY <1>1, <1>2 DEF Held
<1>5. Buried(m)' <=> Buried(m)
  BY <1>1, <1>2, StagesListed DEF Buried
<1> QED BY <1>3, <1>4, <1>5

\* Taking a live copy away may be the end of its message, and of no other.
LEMMA TakeMayClose ==
  ASSUME TypeOK, NEW c \in Copy, NEW from \in Stage \ {"dead"}, at[from][c] > 0,
         at' = [at EXCEPT ![from][c] = @ - 1]
  PROVE  /\ Held(c.msg)
         /\ \A m \in Msg : /\ Buried(m)' <=> Buried(m)
                           /\ m # c.msg => (Held(m)' <=> Held(m))
<1>1. \A st \in Stage, d \in Copy :
           /\ at'[st][d] > 0 => at[st][d] > 0
           /\ at[st][d] > 0 => at'[st][d] > 0 \/ (st = from /\ d = c)
  BY TakeTrace
<1> QED BY <1>1, StagesListed DEF Held, Buried

(***************************************************************************)
(* Every step of the queue is a step of MailDelivery                       *)
(***************************************************************************)

\* Nothing that MailDelivery speaks of changes.
LEMMA SilentStep ==
  ASSUME mailed' = mailed, published' = published, rejected' = rejected,
         \A m \in Msg : (Held(m)' <=> Held(m)) /\ (Buried(m)' <=> Buried(m))
  PROVE  UNCHANGED Delivery!deliveryVars
BY PhaseKept, GivenUpKept DEF Delivery!deliveryVars

\* The services' emit is what MailDelivery accepts.
LEMMA PublishAccepts ==
  ASSUME TypeOK, NEW m \in Msg, Publish(m)
  PROVE  Delivery!Accept(m)
<1>1. /\ at'["main"][First(m)] > 0
      /\ \A st \in Stage, d \in Copy :
           /\ at'[st][d] > 0 => at[st][d] > 0 \/ (st = "main" /\ d = First(m))
           /\ at[st][d] > 0 => at'[st][d] > 0
  BY PublishTrace
<1>2. /\ m \notin published /\ published' = published \cup {m}
      /\ mailed' = mailed /\ rejected' = rejected
  BY DEF Publish
<1>3. Held(m)'
  BY <1>1, HeldBy, FirstIsCopy, StagesListed
<1>4. \A n \in Msg : n # m => (Held(n)' <=> Held(n))
  BY <1>1, FirstIsCopy DEF Held
<1>5. \A n \in Msg : Buried(n)' <=> Buried(n)
  BY <1>1, StagesListed DEF Buried
<1>6. phase[m] = "new" /\ phase' = [phase EXCEPT ![m] = "owed"]
  BY <1>2, <1>3, <1>4 DEF phase
<1>7. givenUp' = givenUp
  BY <1>2, <1>5, GivenUpKept
<1> QED BY <1>2, <1>6, <1>7 DEF Delivery!Accept

\* A mail that goes out is one of an emitted message.
LEMMA MailIsMail ==
  ASSUME TypeOK, NEW m \in published,
         mailed' = [mailed EXCEPT ![m] = @ + 1],
         published' = published, rejected' = rejected,
         \A n \in Msg : (Held(n)' <=> Held(n)) /\ (Buried(n)' <=> Buried(n))
  PROVE  m \in Msg /\ Delivery!Mail(m)
<1>1. m \in Msg
  BY DEF TypeOK
<1>2. phase[m] # "new"
  BY <1>1 DEF phase
<1> QED BY <1>1, <1>2, PhaseKept, GivenUpKept DEF Delivery!Mail

\* A step that takes the last copy of a message away closes it, with a mail or
\* a reason to show.
LEMMA LastCopyCloses ==
  ASSUME NEW n \in Msg, n \in published, published' = published,
         mailed' = mailed, rejected' = rejected, wiped' = {}, NoSilentLoss',
         mailed[n] \in Nat,
         Held(n), ~Held(n)',
         \A m \in Msg : /\ Buried(m)' <=> Buried(m)
                        /\ m # n => (Held(m)' <=> Held(m))
  PROVE  Delivery!Close(n)
<1>1. ~Carried(n)'
  BY DEF Held, Carried
<1>2. Settled(n)'
  BY <1>1 DEF NoSilentLoss
<1>3. mailed[n] > 0 \/ n \in givenUp
  BY <1>2 DEF Settled, givenUp
<1> QED BY <1>3, PhaseClosed, GivenUpKept DEF Delivery!Close

\* An acknowledgement is no step of MailDelivery, or closes the message.
LEMMA AckStep ==
  ASSUME Durable, Persistent, TypeOK, DeliveryInv, [Next]_vars,
         NEW c \in Copy, Ack(c) \/ AckForwarded(c)
  PROVE  UNCHANGED Delivery!deliveryVars \/ Delivery!Close(c.msg)
<1>1. /\ wiped' = {} /\ NoSilentLoss'
  BY NextDeliveryInv DEF DeliveryInv, LossInv
<1>2. /\ published' = published /\ mailed' = mailed /\ rejected' = rejected
  BY DEF Ack, AckForwarded
<1>3. PICK from \in Stage \ {"dead"} : /\ at[from][c] > 0
                                       /\ at' = [at EXCEPT ![from][c] = @ - 1]
  BY StagesListed DEF Ack, AckForwarded
<1>4. /\ Held(c.msg)
      /\ \A m \in Msg : /\ Buried(m)' <=> Buried(m)
                        /\ m # c.msg => (Held(m)' <=> Held(m))
  BY <1>3, TakeMayClose
<1>5. c.msg \in Msg /\ c.msg \in published /\ mailed[c.msg] \in Nat
  BY <1>3, CopyParts DEF DeliveryInv, Known, TypeOK
<1>6. CASE Held(c.msg)'
  BY <1>2, <1>4, <1>6, SilentStep
<1>7. CASE ~Held(c.msg)'
  BY <1>1, <1>2, <1>4, <1>5, <1>7, LastCopyCloses
<1> QED BY <1>6, <1>7

\* sendToQueue that throws gives the message up.
LEMMA InternalErrorGivesUp ==
  ASSUME TypeOK, DeliveryInv, NEW c \in Copy, InternalError(c)
  PROVE  Delivery!GiveUp(c.msg)
<1> DEFINE n == c.msg
<1>1. /\ published' = published /\ mailed' = mailed /\ at["failed"][c] > 0
      /\ rejected' = [rejected EXCEPT ![n] = @ + 1]
      /\ at' = [at EXCEPT !["failed"][c] = @ - 1]
  BY DEF InternalError
<1>2. /\ Held(n)
      /\ \A m \in Msg : /\ Buried(m)' <=> Buried(m)
                        /\ m # n => (Held(m)' <=> Held(m))
  BY <1>1, TakeMayClose, StagesListed
<1>3. n \in Msg /\ n \in published
  BY <1>1, CopyParts, StagesListed DEF DeliveryInv, Known
<1>4. phase[n] = "owed"
  BY <1>2, <1>3 DEF phase
<1>5. phase' \in {phase, [phase EXCEPT ![n] = "closed"]}
  <2>1. CASE Held(n)'
    BY <1>1, <1>2, <2>1, PhaseKept
  <2>2. CASE ~Held(n)'
    BY <1>1, <1>2, <1>3, <2>2, PhaseClosed
  <2> QED BY <2>1, <2>2
<1>6. givenUp' = givenUp \cup {n}
  <2>1. rejected'[n] > 0 /\ \A m \in Msg \ {n} : rejected'[m] = rejected[m]
    BY <1>1, <1>3 DEF TypeOK
  <2> QED BY <1>2, <1>3, <2>1 DEF givenUp
<1> QED BY <1>1, <1>4, <1>5, <1>6 DEF Delivery!GiveUp

\* processFailedMessage gives the message up when it goes to the dead queue,
\* and is no step of MailDelivery when it is retried.
LEMMA ForwardStep ==
  ASSUME TypeOK, DeliveryInv, NEW c \in Copy, Forward(c)
  PROVE  UNCHANGED Delivery!deliveryVars \/ Delivery!GiveUp(c.msg)
<1> DEFINE n == c.msg
<1> DEFINE t == Target(c)
<1>1. /\ published' = published /\ mailed' = mailed /\ rejected' = rejected
  BY DEF Forward
<1>2. /\ at["failed"][c] > 0 /\ at'["forwarded"][c] > 0
      /\ t.copy \in Copy /\ t.copy.msg = n
      /\ at'[t.stage][t.copy] > 0
      /\ \A st \in Stage, d \in Copy :
           /\ at'[st][d] > 0 => \/ at[st][d] > 0
                                \/ st = "forwarded" /\ d = c
                                \/ st = t.stage /\ d = t.copy
           /\ at[st][d] > 0 => at'[st][d] > 0 \/ (st = "failed" /\ d = c)
  BY ForwardTrace DEF DeliveryInv, LossInv
<1>3. t.stage \in {"dead", "retry"}
  BY DEF Target
<1>4. n \in Msg /\ n \in published
  BY <1>2, CopyParts, StagesListed DEF DeliveryInv, Known
<1> HIDE DEF t
<1>5. \A m \in Msg : Held(m)' <=> Held(m)
  BY <1>2, <1>3, StagesListed DEF Held
<1>6. CASE t.stage = "retry"
  <2>1. \A m \in Msg : Buried(m)' <=> Buried(m)
    BY <1>2, <1>6, StagesListed DEF Buried
  <2> QED BY <1>1, <1>5, <2>1, SilentStep
<1>7. CASE t.stage = "dead"
  <2>1. Buried(n)' /\ \A m \in Msg \ {n} : Buried(m)' <=> Buried(m)
    BY <1>2, <1>7, StagesListed DEF Buried
  <2>2. givenUp' = givenUp \cup {n}
    BY <1>1, <1>4, <2>1 DEF givenUp
  <2>3. phase[n] = "owed"
    BY <1>2, <1>4, HeldBy, StagesListed DEF phase
  <2>4. phase' = phase
    BY <1>1, <1>5, PhaseKept
  <2> QED BY <1>1, <2>2, <2>3, <2>4 DEF Delivery!GiveUp
<1> QED BY <1>3, <1>6, <1>7

\* Moves between live stages: only SendMail is seen.
LEMMA MoveStep ==
  ASSUME TypeOK, DeliveryInv, NEW c \in Copy,
         Deliver(c) \/ SendMail(c) \/ HandlerThrows(c) \/ CommitFails(c) \/ Expire(c)
  PROVE  UNCHANGED Delivery!deliveryVars \/ Delivery!Mail(c.msg)
<1>1. PICK from \in Stage \ {"dead"}, to \in Stage \ {"dead"} :
        from # to /\ Move(c, from, to)
  BY StagesListed DEF Deliver, SendMail, HandlerThrows, CommitFails, Expire
<1>2. \A m \in Msg : (Held(m)' <=> Held(m)) /\ (Buried(m)' <=> Buried(m))
  BY <1>1, MoveIsSilent
<1>3. /\ published' = published /\ rejected' = rejected
      /\ mailed' = mailed \/ mailed' = [mailed EXCEPT ![c.msg] = @ + 1]
  BY DEF Deliver, SendMail, HandlerThrows, CommitFails, Expire
<1>4. c.msg \in published
  BY <1>1 DEF Move, DeliveryInv, Known
<1> QED BY <1>2, <1>3, <1>4, SilentStep, MailIsMail

\* A handler that lost its channel may still send its mail.
LEMMA OrphanStep ==
  ASSUME TypeOK, DeliveryInv, NEW c \in Copy, OrphanEnds(c)
  PROVE  UNCHANGED Delivery!deliveryVars \/ Delivery!Mail(c.msg)
<1>1. /\ published' = published /\ rejected' = rejected /\ at' = at
      /\ mailed' = mailed \/ mailed' = [mailed EXCEPT ![c.msg] = @ + 1]
  BY DEF OrphanEnds
<1>2. \A m \in Msg : (Held(m)' <=> Held(m)) /\ (Buried(m)' <=> Buried(m))
  BY <1>1 DEF Held, Buried
<1>3. c.msg \in published
  BY DEF OrphanEnds, DeliveryInv, Known
<1> QED BY <1>1, <1>2, <1>3, SilentStep, MailIsMail

\* Faults requeue, and are seen by nobody.
LEMMA FaultStep ==
  ASSUME Durable, Persistent, TypeOK, Fault
  PROVE  UNCHANGED Delivery!deliveryVars
<1>1. /\ published' = published /\ mailed' = mailed /\ rejected' = rejected
      /\ at' = Requeued
  BY DEF Fault, Disconnect, ConsumerRestart, BrokerRestart, ChannelLost
<1> QED BY <1>1, RequeueIsSilent, SilentStep

\* Every step of the queue is a step of MailDelivery, or none.
LEMMA StepsAreDelivery ==
  ASSUME Durable, Persistent, TypeOK, DeliveryInv, [Next]_vars
  PROVE  [Delivery!Next]_(Delivery!deliveryVars)
<1>1. ASSUME NEW m \in Msg, Publish(m) PROVE Delivery!Next
  BY <1>1, PublishAccepts DEF Delivery!Next
<1>2. ASSUME NEW c \in Copy,
             Deliver(c) \/ SendMail(c) \/ HandlerThrows(c) \/ CommitFails(c)
               \/ Expire(c) \/ OrphanEnds(c)
      PROVE  Delivery!Next \/ UNCHANGED Delivery!deliveryVars
  BY <1>2, MoveStep, OrphanStep, CopyParts DEF Delivery!Next
<1>3. ASSUME NEW c \in Copy, Ack(c) \/ AckForwarded(c)
      PROVE  Delivery!Next \/ UNCHANGED Delivery!deliveryVars
  BY <1>3, AckStep, CopyParts DEF Delivery!Next
<1>4. ASSUME NEW c \in Copy, Forward(c) \/ InternalError(c)
      PROVE  Delivery!Next \/ UNCHANGED Delivery!deliveryVars
  BY <1>4, ForwardStep, InternalErrorGivesUp, CopyParts DEF Delivery!Next
<1>5. CASE Fault
  BY <1>5, FaultStep
<1>6. CASE UNCHANGED vars
  <2>1. \A m \in Msg : (Held(m)' <=> Held(m)) /\ (Buried(m)' <=> Buried(m))
    BY <1>6 DEF vars, Held, Buried
  <2> QED BY <1>6, <2>1, SilentStep DEF vars
<1> QED
  BY <1>1, <1>2, <1>3, <1>4, <1>5, <1>6 DEF Next, Consumer

\* The e-mail queue keeps the promise of MailDelivery as long as the broker
\* keeps its queues and messages: what was emitted is owed until it was mailed
\* at least once or given up visibly, and is closed for good then.
THEOREM QueueImplementsDelivery == Durable /\ Persistent => (Spec => DeliverySteps)
<1> SUFFICES ASSUME Durable, Persistent PROVE Spec => DeliverySteps
  OBVIOUS
<1>1. Init => Delivery!Init
  BY StagesListed DEF Init, Delivery!Init, phase, givenUp, Buried
<1>2. Init => DeliveryInv
  BY StagesListed DEF Init, DeliveryInv, LossInv, MailedHaveMail, NoSilentLoss, Known
<1>3. TypeOK /\ DeliveryInv /\ [Next]_vars => DeliveryInv'
  BY NextDeliveryInv
<1>4. TypeOK /\ DeliveryInv /\ [Next]_vars => [Delivery!Next]_(Delivery!deliveryVars)
  BY StepsAreDelivery
<1> QED
  BY <1>1, <1>2, <1>3, <1>4, TypeCorrect, PTL DEF Spec, DeliverySteps, Delivery!SafeSpec

(***************************************************************************)
(* How often a message is mailed                                           *)
(***************************************************************************)

\* A message has finitely many copies: one per retry count.
LEMMA FewCopies == ASSUME NEW m \in Msg PROVE IsFiniteSet(CopiesOf(m))
<1> DEFINE f == [c \in CopiesOf(m) |-> c.tries]
<1>1. f \in [CopiesOf(m) -> 0..MaxRetries]
  BY CopyParts DEF CopiesOf
<1>2. \A c, d \in CopiesOf(m) : c.tries = d.tries => c = d
  BY DEF CopiesOf, Copy
<1>3. f \in Injection(CopiesOf(m), 0..MaxRetries)
  <2>1. \A c, d \in CopiesOf(m) : f[c] = f[d] => c = d
    BY <1>2
  <2> HIDE DEF f
  <2> QED BY <1>1, <2>1, Fun_IsInj
<1>4. IsFiniteSet(0..MaxRetries)
  BY FS_Interval
<1> HIDE DEF f
<1> QED BY <1>3, <1>4, FS_Injection

\* The sums that the properties speak of.
LEMMA SumsAre ==
  ASSUME NEW m \in Msg
  PROVE  /\ MapThenSumSet(LAMBDA c : Unpaid[c], CopiesOf(m)) = Sum(Unpaid, CopiesOf(m))
         /\ MapThenSumSet(LAMBDA c : redone[c], CopiesOf(m)) = Sum(redone, CopiesOf(m))
BY DEF Sum

AffordedBySums ==
  \A m \in Msg : mailed[m] + Sum(Unpaid, CopiesOf(m))
                   <= IF m \in published THEN 1 ELSE 0

LEMMA AffordedIsBySums == Afforded <=> AffordedBySums
BY DEF Sum, Afforded, AffordedBySums

LEMMA AffordedIs ==
  /\ Afforded <=> \A m \in Msg : mailed[m] + Sum(Unpaid, CopiesOf(m))
                                   <= IF m \in published THEN 1 ELSE 0
  /\ Afforded' <=> \A m \in Msg : mailed'[m] + Sum(Unpaid', CopiesOf(m))
                                    <= IF m \in published' THEN 1 ELSE 0
<1>1. (Afforded <=> AffordedBySums) /\ (Afforded' <=> AffordedBySums')
  BY AffordedIsBySums, PTL
<1> QED BY <1>1 DEF AffordedBySums

\* Counts are natural numbers, and Unpaid and the sums are integers,
UnpaidTyped ==
  /\ \A c \in Copy : /\ Unpaid[c] \in Int
                     /\ \A st \in Stage : at[st][c] \in Nat
                     /\ orphan[c] \in Nat /\ redone[c] \in Nat
  /\ \A m \in Msg : /\ Numbers(Unpaid, CopiesOf(m))
                    /\ Numbers(redone, CopiesOf(m))
                    /\ mailed[m] \in Nat
                    /\ Sum(Unpaid, CopiesOf(m)) \in Int

LEMMA UnpaidType == TypeOK => UnpaidTyped
<1> SUFFICES ASSUME TypeOK PROVE UnpaidTyped
  OBVIOUS
<1>1. ASSUME NEW c \in Copy
      PROVE  /\ \A st \in Stage : at[st][c] \in Nat
             /\ orphan[c] \in Nat /\ redone[c] \in Nat
  BY DEF TypeOK
<1>2. \A c \in Copy : Unpaid[c] \in Int
  BY <1>1, StagesListed DEF Unpaid
<1>3. ASSUME NEW m \in Msg
      PROVE  Numbers(Unpaid, CopiesOf(m)) /\ Numbers(redone, CopiesOf(m))
  BY <1>1, <1>2 DEF Numbers, CopiesOf
<1>4. ASSUME NEW m \in Msg PROVE Sum(Unpaid, CopiesOf(m)) \in Int
  BY <1>3, FewCopies, SumFirst
<1> QED BY <1>1, <1>2, <1>3, <1>4 DEF TypeOK, UnpaidTyped

\* before a step and after it.
LEMMA UnpaidTypes == TypeOK /\ [Next]_vars => UnpaidTyped /\ UnpaidTyped'
BY UnpaidType, NextTypeOK, PTL

\* A step in which no copy but c has more to send, and in which c has as much
\* less to send as its message was mailed more often, keeps Afforded.
LEMMA AffordedByOne ==
  ASSUME UnpaidTyped, UnpaidTyped', Afforded, published' = published, NEW c \in Copy,
         \A d \in Copy \ {c} : Unpaid'[d] <= Unpaid[d],
         \A m \in Msg \ {c.msg} : mailed'[m] = mailed[m],
         mailed'[c.msg] + Unpaid'[c] <= mailed[c.msg] + Unpaid[c]
  PROVE  Afforded'
<1>1. /\ \A m \in Msg : /\ mailed[m] \in Nat /\ Sum(Unpaid, CopiesOf(m)) \in Int
                        /\ mailed'[m] \in Nat /\ Sum(Unpaid', CopiesOf(m)) \in Int
                        /\ Numbers(Unpaid, CopiesOf(m)) /\ Numbers(Unpaid', CopiesOf(m))
      /\ Unpaid[c] \in Int /\ Unpaid'[c] \in Int
  BY DEF UnpaidTyped
<1> SUFFICES ASSUME NEW m \in Msg
             PROVE  mailed'[m] + Sum(Unpaid', CopiesOf(m))
                      <= mailed[m] + Sum(Unpaid, CopiesOf(m))
  BY <1>1, AffordedIs
<1>2. CASE m # c.msg
  <2>1. \A d \in CopiesOf(m) : Unpaid'[d] <= Unpaid[d]
    BY <1>2 DEF CopiesOf
  <2>2. Sum(Unpaid', CopiesOf(m)) <= Sum(Unpaid, CopiesOf(m))
    BY <1>1, <2>1, FewCopies, SumMonotonic
  <2> QED BY <1>1, <1>2, <2>2
<1>3. CASE m = c.msg
  <2>1. c \in CopiesOf(m) /\ \A d \in CopiesOf(m) \ {c} : Unpaid'[d] <= Unpaid[d]
    BY <1>3 DEF CopiesOf
  <2>2. Sum(Unpaid', CopiesOf(m)) <= Sum(Unpaid, CopiesOf(m)) - Unpaid[c] + Unpaid'[c]
    BY <1>1, <2>1, FewCopies, SumChanged
  <2> QED BY <1>1, <1>3, <2>2
<1> QED BY <1>2, <1>3

\* So does one that only takes away what copies have to send,
LEMMA AffordedByNone ==
  ASSUME UnpaidTyped, UnpaidTyped', Afforded, published' = published,
         mailed' = mailed, \A d \in Copy : Unpaid'[d] <= Unpaid[d]
  PROVE  Afforded'
<1>1. \A m \in Msg : /\ mailed[m] \in Nat /\ Sum(Unpaid, CopiesOf(m)) \in Int
                     /\ Sum(Unpaid', CopiesOf(m)) \in Int
                     /\ Numbers(Unpaid, CopiesOf(m)) /\ Numbers(Unpaid', CopiesOf(m))
  BY DEF UnpaidTyped
<1>2. ASSUME NEW m \in Msg
      PROVE  Sum(Unpaid', CopiesOf(m)) <= Sum(Unpaid, CopiesOf(m))
  <2>1. \A d \in CopiesOf(m) : Unpaid'[d] <= Unpaid[d]
    BY DEF CopiesOf
  <2> QED BY <1>1, <2>1, FewCopies, SumMonotonic
<1> QED BY <1>1, <1>2, AffordedIs

\* and one in which a copy passes what it has to send to another copy of its
\* message.
LEMMA AffordedByTwo ==
  ASSUME UnpaidTyped, UnpaidTyped', Afforded, published' = published,
         mailed' = mailed, NEW c \in Copy, NEW d \in Copy, c # d, c.msg = d.msg,
         \A e \in Copy \ {c, d} : Unpaid'[e] <= Unpaid[e],
         Unpaid'[c] <= Unpaid[c] - 1, Unpaid'[d] <= Unpaid[d] + 1
  PROVE  Afforded'
<1>1. /\ \A m \in Msg : /\ mailed[m] \in Nat /\ Sum(Unpaid, CopiesOf(m)) \in Int
                        /\ Sum(Unpaid', CopiesOf(m)) \in Int
                        /\ Numbers(Unpaid, CopiesOf(m)) /\ Numbers(Unpaid', CopiesOf(m))
      /\ \A e \in Copy : Unpaid[e] \in Int /\ Unpaid'[e] \in Int
  BY DEF UnpaidTyped
<1> SUFFICES ASSUME NEW m \in Msg
             PROVE  Sum(Unpaid', CopiesOf(m)) <= Sum(Unpaid, CopiesOf(m))
  BY <1>1, AffordedIs
<1> DEFINE between == [e \in Copy |-> IF e = d THEN Unpaid[e] + 1 ELSE Unpaid[e]]
<1>2. Numbers(between, CopiesOf(m)) /\ Sum(between, CopiesOf(m)) \in Int
  <2>1. Numbers(between, CopiesOf(m))
    BY <1>1 DEF Numbers, CopiesOf
  <2> HIDE DEF between
  <2> QED BY <2>1, FewCopies, SumFirst
<1>3. CASE m # c.msg
  <2>1. \A e \in CopiesOf(m) : Unpaid'[e] <= Unpaid[e]
    BY <1>3 DEF CopiesOf
  <2> QED BY <1>1, <2>1, FewCopies, SumMonotonic
<1>4. CASE m = c.msg
  <2>1. c \in CopiesOf(m) /\ d \in CopiesOf(m)
    BY <1>4 DEF CopiesOf
  <2>2. \A e \in CopiesOf(m) \ {d} : between[e] <= Unpaid[e]
    BY <1>1 DEF CopiesOf
  <2>3. \A e \in CopiesOf(m) \ {c} : Unpaid'[e] <= between[e]
    BY <1>1 DEF CopiesOf
  <2>4. between[d] = Unpaid[d] + 1 /\ between[c] = Unpaid[c]
    OBVIOUS
  <2> HIDE DEF between
  <2>5. Sum(between, CopiesOf(m)) <= Sum(Unpaid, CopiesOf(m)) - Unpaid[d] + between[d]
    BY <1>1, <1>2, <2>1, <2>2, FewCopies, SumChanged
  <2>6. Sum(Unpaid', CopiesOf(m)) <= Sum(between, CopiesOf(m)) - between[c] + Unpaid'[c]
    BY <1>1, <1>2, <2>1, <2>3, FewCopies, SumChanged
  <2> QED BY <1>1, <1>2, <2>4, <2>5, <2>6
<1> QED BY <1>3, <1>4

(***************************************************************************)
(* What each step does to Unpaid                                           *)
(***************************************************************************)

\* A copy whose counts do not change has as much to send as before.
LEMMA UnpaidKept ==
  ASSUME NEW d \in Copy, \A st \in Stage : at'[st][d] = at[st][d],
         orphan'[d] = orphan[d], redone'[d] = redone[d]
  PROVE  Unpaid'[d] = Unpaid[d]
BY StagesListed DEF Unpaid

LEMMA PublishAfforded ==
  ASSUME UnpaidTyped, UnpaidTyped', TypeOK, Afforded, NEW m \in Msg, Publish(m)
  PROVE  Afforded'
<1> DEFINE c == First(m)
<1>1. c \in Copy /\ c.msg = m
  BY FirstIsCopy
<1>2. /\ \A n \in Msg : /\ mailed[n] \in Nat /\ Sum(Unpaid, CopiesOf(n)) \in Int
                        /\ Sum(Unpaid', CopiesOf(n)) \in Int
                        /\ Numbers(Unpaid, CopiesOf(n)) /\ Numbers(Unpaid', CopiesOf(n))
      /\ Unpaid[c] \in Int /\ Unpaid'[c] \in Int
  BY <1>1 DEF UnpaidTyped
<1>3. /\ m \notin published /\ published' = published \cup {m}
      /\ mailed' = mailed /\ orphan' = orphan /\ redone' = redone
      /\ at' = [at EXCEPT !["main"][c] = @ + 1]
  BY DEF Publish
<1> HIDE DEF c
<1>4. /\ at'["main"][c] = at["main"][c] + 1
      /\ \A st \in Stage \ {"main"} : at'[st][c] = at[st][c]
      /\ \A st \in Stage, d \in Copy \ {c} : at'[st][d] = at[st][d]
  BY <1>1, <1>3, StagesListed DEF TypeOK
<1>5. \A d \in Copy \ {c} : Unpaid'[d] = Unpaid[d]
  BY <1>3, <1>4, UnpaidKept
<1>6. Unpaid'[c] = Unpaid[c] + 1
  BY <1>1, <1>3, <1>4, StagesListed DEF Unpaid, UnpaidTyped
<1>7. ASSUME NEW n \in Msg \ {m}
      PROVE  Sum(Unpaid', CopiesOf(n)) <= Sum(Unpaid, CopiesOf(n))
  <2>1. \A d \in CopiesOf(n) : Unpaid'[d] <= Unpaid[d]
    BY <1>1, <1>5 DEF CopiesOf, UnpaidTyped
  <2> QED BY <1>2, <2>1, FewCopies, SumMonotonic
<1>8. Sum(Unpaid', CopiesOf(m)) <= Sum(Unpaid, CopiesOf(m)) + 1
  <2>1. c \in CopiesOf(m) /\ \A d \in CopiesOf(m) \ {c} : Unpaid'[d] <= Unpaid[d]
    BY <1>1, <1>5 DEF CopiesOf, UnpaidTyped
  <2>2. Sum(Unpaid', CopiesOf(m)) <= Sum(Unpaid, CopiesOf(m)) - Unpaid[c] + Unpaid'[c]
    BY <1>2, <2>1, FewCopies, SumChanged
  <2> QED BY <1>2, <1>6, <2>2
<1> QED
  <2>1. ASSUME NEW n \in Msg \ {m}
        PROVE  mailed'[n] + Sum(Unpaid', CopiesOf(n))
                 <= IF n \in published' THEN 1 ELSE 0
    BY <1>2, <1>3, <1>7, AffordedIs
  <2>2. mailed'[m] + Sum(Unpaid', CopiesOf(m)) <= 1
    BY <1>2, <1>3, <1>8, AffordedIs
  <2> QED BY <1>3, <2>1, <2>2, AffordedIs

\* Moves, mails and failed commits: only c changes, a mail is one less to
\* send, and what a failed commit puts back was paid for.
LEMMA MoveAfforded ==
  ASSUME UnpaidTyped, UnpaidTyped', TypeOK, Afforded, NEW c \in Copy,
         Deliver(c) \/ SendMail(c) \/ HandlerThrows(c) \/ CommitFails(c) \/ Expire(c)
  PROVE  Afforded'
<1>1. ASSUME NEW from \in Stage, NEW to \in Stage, from # to, Move(c, from, to),
             orphan' = orphan, redone' = redone
      PROVE  \A d \in Copy \ {c} : Unpaid'[d] <= Unpaid[d]
  BY <1>1, MoveCounts, UnpaidKept DEF UnpaidTyped
<1>2. CASE Deliver(c) \/ HandlerThrows(c) \/ Expire(c)
  <2>1. PICK from \in Stage, to \in Stage :
          /\ from # to /\ Move(c, from, to)
          /\ <<from, to>> \in {<<"main", "handling">>, <<"handling", "failed">>,
                               <<"retry", "main">>}
    BY <1>2, StagesListed DEF Deliver, HandlerThrows, Expire
  <2>2. /\ published' = published /\ orphan' = orphan
        /\ redone' = redone /\ mailed' = mailed
    BY <1>2 DEF Deliver, HandlerThrows, Expire
  <2>3. /\ at'[from][c] = at[from][c] - 1 /\ at'[to][c] = at[to][c] + 1
        /\ \A st \in Stage \ {from, to} : at'[st][c] = at[st][c]
    BY <2>1, MoveCounts
  <2>4. Unpaid'[c] = Unpaid[c]
    <3>1. CASE from = "main" /\ to = "handling"
      <4>1. /\ at'["main"][c] = at["main"][c] - 1
            /\ at'["handling"][c] = at["handling"][c] + 1
            /\ at'["retry"][c] = at["retry"][c]
            /\ at'["failed"][c] = at["failed"][c]
        BY <2>3, <3>1, StagesListed
      <4>2. /\ at["main"][c] \in Nat /\ at["handling"][c] \in Nat
            /\ at["retry"][c] \in Nat /\ at["failed"][c] \in Nat
            /\ orphan[c] \in Nat /\ redone[c] \in Nat
        BY StagesListed DEF UnpaidTyped
      <4>3. Unpaid'[c] = at'["main"][c] + at'["retry"][c] + at'["handling"][c]
                           + at'["failed"][c] + orphan[c] - redone[c]
        BY <2>2 DEF Unpaid
      <4> QED BY <4>1, <4>2, <4>3 DEF Unpaid
    <3>2. CASE from = "handling" /\ to = "failed"
      BY <2>2, <2>3, <3>2, StagesListed DEF Unpaid, UnpaidTyped
    <3>3. CASE from = "retry" /\ to = "main"
      BY <2>2, <2>3, <3>3, StagesListed DEF Unpaid, UnpaidTyped
    <3> QED BY <2>1, <3>1, <3>2, <3>3
  <2>5. \A d \in Copy : Unpaid'[d] <= Unpaid[d]
    BY <1>1, <2>1, <2>2, <2>4 DEF UnpaidTyped
  <2> QED BY <2>2, <2>5, AffordedByNone
<1>3. CASE SendMail(c)
  <2>1. /\ published' = published /\ orphan' = orphan /\ redone' = redone
        /\ mailed' = [mailed EXCEPT ![c.msg] = @ + 1]
        /\ Move(c, "handling", "mailed")
    BY <1>3 DEF SendMail
  <2>2. /\ at'["handling"][c] = at["handling"][c] - 1
        /\ \A st \in Stage \ {"handling", "mailed"} : at'[st][c] = at[st][c]
    BY <2>1, MoveCounts, StagesListed
  <2>3. Unpaid'[c] = Unpaid[c] - 1
    BY <2>1, <2>2, StagesListed DEF Unpaid, UnpaidTyped
  <2>4. \A d \in Copy \ {c} : Unpaid'[d] <= Unpaid[d]
    BY <1>1, <2>1, StagesListed
  <2>5. /\ mailed'[c.msg] = mailed[c.msg] + 1
        /\ \A m \in Msg \ {c.msg} : mailed'[m] = mailed[m]
    BY <2>1, CopyParts DEF TypeOK
  <2>6. mailed'[c.msg] + Unpaid'[c] <= mailed[c.msg] + Unpaid[c]
    BY <2>3, <2>5, CopyParts DEF UnpaidTyped
  <2> QED BY <2>1, <2>4, <2>5, <2>6, AffordedByOne
<1>4. CASE CommitFails(c)
  <2>1. /\ published' = published /\ orphan' = orphan /\ mailed' = mailed
        /\ redone' = [redone EXCEPT ![c] = @ + 1]
        /\ Move(c, "mailed", "failed")
    BY <1>4 DEF CommitFails
  <2>2. /\ at'["failed"][c] = at["failed"][c] + 1
        /\ \A st \in Stage \ {"mailed", "failed"} : at'[st][c] = at[st][c]
        /\ \A st \in Stage, d \in Copy \ {c} : at'[st][d] = at[st][d]
    BY <2>1, MoveCounts, StagesListed
  <2>3. redone'[c] = redone[c] + 1 /\ \A d \in Copy \ {c} : redone'[d] = redone[d]
    BY <2>1 DEF TypeOK
  <2>4. Unpaid'[c] = Unpaid[c]
    BY <2>1, <2>2, <2>3, StagesListed DEF Unpaid, UnpaidTyped
  <2>5. \A d \in Copy \ {c} : Unpaid'[d] = Unpaid[d]
    BY <2>1, <2>2, <2>3, UnpaidKept
  <2>6. \A d \in Copy : Unpaid'[d] <= Unpaid[d]
    BY <2>4, <2>5 DEF UnpaidTyped
  <2> QED BY <2>1, <2>6, AffordedByNone
<1> QED BY <1>2, <1>3, <1>4

\* Acknowledgements and rejections take copies away.
LEMMA TakeAfforded ==
  ASSUME UnpaidTyped, UnpaidTyped', TypeOK, Afforded, NEW c \in Copy,
         Ack(c) \/ AckForwarded(c) \/ InternalError(c)
  PROVE  Afforded'
<1>1. PICK from \in Stage : /\ from \in {"mailed", "forwarded", "failed"}
                            /\ at' = [at EXCEPT ![from][c] = @ - 1]
  BY StagesListed DEF Ack, AckForwarded, InternalError
<1>2. /\ published' = published /\ orphan' = orphan
      /\ redone' = redone /\ mailed' = mailed
  BY DEF Ack, AckForwarded, InternalError
<1>3. /\ at'[from][c] = at[from][c] - 1
      /\ \A st \in Stage \ {from} : at'[st][c] = at[st][c]
      /\ \A st \in Stage, d \in Copy \ {c} : at'[st][d] = at[st][d]
  BY <1>1, TakeCounts
<1>4. Unpaid'[c] <= Unpaid[c]
  BY <1>2, <1>3, StagesListed DEF Unpaid, UnpaidTyped
<1>5. \A d \in Copy \ {c} : Unpaid'[d] = Unpaid[d]
  BY <1>2, <1>3, UnpaidKept
<1>6. \A d \in Copy : Unpaid'[d] <= Unpaid[d]
  BY <1>4, <1>5 DEF UnpaidTyped
<1> QED BY <1>2, <1>6, AffordedByNone

\* processFailedMessage hands what a copy has to send to its successor, which
\* is another copy, or to nobody.
LEMMA ForwardAfforded ==
  ASSUME UnpaidTyped, UnpaidTyped', TypeOK, Afforded, NEW c \in Copy, Forward(c)
  PROVE  Afforded'
<1>1. /\ published' = published /\ orphan' = orphan
      /\ redone' = redone /\ mailed' = mailed
  BY DEF Forward
<1>2. at \in [Stage -> [Copy -> Nat]]
  BY DEF TypeOK
<1>3. CASE SendToDeadQueue(c)
  <2>1. /\ at'["failed"][c] = at["failed"][c] - 1
        /\ \A st \in Stage \ {"failed", "forwarded", "dead"} : at'[st][c] = at[st][c]
        /\ \A st \in Stage, d \in Copy \ {c} : at'[st][d] = at[st][d]
    BY <1>2, <1>3, StagesListed DEF SendToDeadQueue
  <2>2. Unpaid'[c] <= Unpaid[c]
    BY <1>1, <2>1, StagesListed DEF Unpaid, UnpaidTyped
  <2>3. \A d \in Copy \ {c} : Unpaid'[d] = Unpaid[d]
    BY <1>1, <2>1, UnpaidKept
  <2>4. \A d \in Copy : Unpaid'[d] <= Unpaid[d]
    BY <2>2, <2>3 DEF UnpaidTyped
  <2> QED BY <1>1, <2>4, AffordedByNone
<1>4. CASE SendToRetryQueue(c)
  <2> DEFINE e == Again(c)
  <2>1. e \in Copy /\ e.msg = c.msg /\ e # c
    BY <1>4, AgainIsCopy, CopyParts DEF SendToRetryQueue
  <2>2. at' = [at EXCEPT !["failed"][c] = @ - 1,
                         !["forwarded"][c] = @ + 1,
                         !["retry"][e] = IF aux THEN @ + 1 ELSE @]
    BY <1>4 DEF SendToRetryQueue
  <2> HIDE DEF e
  <2>3. /\ at'["failed"][c] = at["failed"][c] - 1
        /\ \A st \in Stage \ {"failed", "forwarded"} : at'[st][c] = at[st][c]
        /\ at'["retry"][e] <= at["retry"][e] + 1
        /\ \A st \in Stage \ {"retry"} : at'[st][e] = at[st][e]
        /\ \A st \in Stage, d \in Copy \ {c, e} : at'[st][d] = at[st][d]
    <3>1. "failed" \in Stage /\ "forwarded" \in Stage /\ "retry" \in Stage
      BY StagesListed
    <3>2. /\ at'["failed"] = [at["failed"] EXCEPT ![c] = @ - 1]
          /\ at'["forwarded"] = [at["forwarded"] EXCEPT ![c] = @ + 1]
          /\ at'["retry"] = [at["retry"] EXCEPT ![e] = IF aux THEN @ + 1 ELSE @]
          /\ \A st \in Stage \ {"failed", "forwarded", "retry"} : at'[st] = at[st]
      BY <1>2, <2>2, <3>1
    <3>3. \A st \in Stage : at[st] \in [Copy -> Nat]
      BY <1>2
    <3> QED BY <2>1, <3>1, <3>2, <3>3
  <2>4. Unpaid'[c] <= Unpaid[c] - 1
    BY <1>1, <2>3, StagesListed DEF Unpaid, UnpaidTyped
  <2>5. Unpaid'[e] <= Unpaid[e] + 1
    BY <1>1, <2>1, <2>3, StagesListed DEF Unpaid, UnpaidTyped
  <2>6. \A d \in Copy \ {c, e} : Unpaid'[d] = Unpaid[d]
    BY <1>1, <2>3, UnpaidKept
  <2>7. \A d \in Copy \ {c, e} : Unpaid'[d] <= Unpaid[d]
    BY <2>6 DEF UnpaidTyped
  <2> QED BY <1>1, <2>1, <2>4, <2>5, <2>7, AffordedByTwo
<1> QED BY <1>3, <1>4 DEF Forward

\* A handler without a channel has one mail less to send when it ends.
LEMMA OrphanAfforded ==
  ASSUME UnpaidTyped, UnpaidTyped', TypeOK, Afforded, NEW c \in Copy, OrphanEnds(c)
  PROVE  Afforded'
<1>1. /\ published' = published /\ redone' = redone /\ at' = at
      /\ orphan' = [orphan EXCEPT ![c] = @ - 1]
      /\ mailed' = mailed \/ mailed' = [mailed EXCEPT ![c.msg] = @ + 1]
  BY DEF OrphanEnds
<1>2. /\ orphan'[c] = orphan[c] - 1
      /\ \A d \in Copy \ {c} : orphan'[d] = orphan[d]
      /\ mailed'[c.msg] <= mailed[c.msg] + 1
      /\ \A m \in Msg \ {c.msg} : mailed'[m] = mailed[m]
  BY <1>1, CopyParts DEF TypeOK
<1>3. Unpaid'[c] = Unpaid[c] - 1
  BY <1>1, <1>2, StagesListed DEF Unpaid, UnpaidTyped
<1>4. \A d \in Copy \ {c} : Unpaid'[d] = Unpaid[d]
  BY <1>1, <1>2, UnpaidKept
<1>5. \A d \in Copy \ {c} : Unpaid'[d] <= Unpaid[d]
  BY <1>4 DEF UnpaidTyped
<1>6. mailed'[c.msg] + Unpaid'[c] <= mailed[c.msg] + Unpaid[c]
  BY <1>2, <1>3, CopyParts DEF UnpaidTyped
<1> QED BY <1>1, <1>2, <1>5, <1>6, AffordedByOne

\* Whatever a fault gives back to the main queue or leaves to a handler was
\* unacknowledged, and is paid for.
LEMMA FaultAfforded ==
  ASSUME UnpaidTyped, UnpaidTyped', TypeOK, Afforded, Fault
  PROVE  Afforded'
<1>1. /\ published' = published /\ mailed' = mailed
      /\ redone' = [c \in Copy |-> redone[c] + UnackedOf(c)]
      /\ at' = Requeued \/ at' = [st \in Stage |-> [c \in Copy |-> 0]]
      /\ orphan' = Orphaned \/ orphan' = [c \in Copy |-> 0]
  BY DEF Fault, Disconnect, ConsumerRestart, BrokerRestart, ChannelLost
<1>2. ASSUME NEW c \in Copy PROVE Unpaid'[c] <= Unpaid[c]
  <2> DEFINE u == UnackedOf(c)
  <2>1. /\ \A st \in Stage : at[st][c] \in Nat
        /\ orphan[c] \in Nat /\ redone[c] \in Nat
        /\ u = at["handling"][c] + at["mailed"][c] + at["failed"][c]
                 + at["forwarded"][c]
    BY DEF UnpaidTyped, UnackedOf
  <2>2. redone'[c] = redone[c] + u /\ orphan'[c] <= orphan[c] + at["handling"][c]
    BY <1>1, <2>1, StagesListed DEF Orphaned
  <2>3. /\ at'["main"][c] <= at["main"][c] + u
        /\ at'["retry"][c] <= at["retry"][c]
        /\ at'["handling"][c] = 0 /\ at'["failed"][c] = 0
    BY <1>1, <2>1, StagesListed DEF Requeued
  <2> HIDE DEF u
  <2>4. /\ \A st \in Stage : at'[st][c] \in Nat
        /\ orphan'[c] \in Nat /\ redone'[c] \in Nat
    BY DEF UnpaidTyped
  <2>5. u \in Nat
    BY <2>1, StagesListed
  <2> QED BY <2>1, <2>2, <2>3, <2>4, <2>5, StagesListed DEF Unpaid
<1> QED BY <1>1, <1>2, AffordedByNone

LEMMA NextAfforded ==
  ASSUME TypeOK, Afforded, [Next]_vars
  PROVE  Afforded'
<1>1. UnpaidTyped /\ UnpaidTyped'
  BY UnpaidTypes
<1>2. CASE UNCHANGED vars
  <2>1. \A d \in Copy : Unpaid'[d] = Unpaid[d]
    BY <1>2, UnpaidKept DEF vars
  <2>2. \A d \in Copy : Unpaid'[d] <= Unpaid[d]
    BY <1>1, <2>1 DEF UnpaidTyped
  <2> QED BY <1>1, <1>2, <2>2, AffordedByNone DEF vars
<1> QED
  BY <1>1, <1>2, PublishAfforded, MoveAfforded, TakeAfforded, ForwardAfforded,
     OrphanAfforded, FaultAfforded DEF Next, Consumer

LEMMA InitAfforded == Init => Afforded
<1> SUFFICES ASSUME Init PROVE Afforded
  OBVIOUS
<1>1. UnpaidTyped
  BY InitTypeOK, UnpaidType
<1>2. \A c \in Copy : Unpaid[c] = 0
  BY StagesListed DEF Init, Unpaid
<1>3. ASSUME NEW m \in Msg PROVE Sum(Unpaid, CopiesOf(m)) = 0
  <2>1. \A c \in CopiesOf(m) : Unpaid[c] = 0
    BY <1>2 DEF CopiesOf
  <2> QED BY <2>1, FewCopies, SumOfZeros
<1> QED BY <1>3, AffordedIs DEF Init

\* What a copy may send is no less than nothing, so that Afforded leaves no
\* more mails than one and those that were paid for.
LEMMA AffordedMeansPaid == TypeOK /\ Afforded => MailsPaidFor
<1> SUFFICES ASSUME TypeOK, Afforded, NEW m \in Msg
             PROVE  mailed[m] <= 1 + Sum(redone, CopiesOf(m))
  BY DEF MailsPaidFor, Sum
<1>1. UnpaidTyped
  BY UnpaidType
<1>2. \A c \in CopiesOf(m) : Unpaid[c] + redone[c] >= 0
  BY <1>1, StagesListed DEF Unpaid, UnpaidTyped, CopiesOf
<1>3. Numbers(Unpaid, CopiesOf(m)) /\ Numbers(redone, CopiesOf(m))
  BY <1>1 DEF UnpaidTyped
<1>4. Sum(Unpaid, CopiesOf(m)) + Sum(redone, CopiesOf(m)) >= 0
  BY <1>2, <1>3, FewCopies, SumsBalance
<1>5. /\ Sum(Unpaid, CopiesOf(m)) \in Int /\ Sum(redone, CopiesOf(m)) \in Int
      /\ mailed[m] \in Nat
  BY <1>1, <1>3, FewCopies, SumFirst DEF UnpaidTyped
<1>6. mailed[m] + Sum(Unpaid, CopiesOf(m)) <= 1
  BY <1>5, AffordedIs
<1> QED BY <1>4, <1>5, <1>6

\* Every mail of a message beyond the first answers one requeued delivery or
\* one transaction that failed after its mail was sent: the retry queue, the
\* republished copies and the handlers that outlive their channel send no mail
\* of their own making, however many messages, retries and faults there are and
\* whatever the broker keeps.
THEOREM DuplicatesArePaidFor == Spec => []MailsPaidFor
<1>1. TypeOK /\ Afforded /\ [Next]_vars => Afforded'
  BY NextAfforded
<1> QED
  BY <1>1, InitAfforded, AffordedMeansPaid, TypeCorrect, PTL DEF Spec
=============================================================================
