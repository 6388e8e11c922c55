--------------------------- MODULE RmqRetryProofs ---------------------------
(***************************************************************************)
(* Theorems about RmqRetry, for every set of messages, retry budget,       *)
(* prefetch count and number of faults.                                    *)
(***************************************************************************)
EXTENDS RmqRetry, TLAPS

USE RmqAssumption

(***************************************************************************)
(* Facts about copies and stages                                           *)
(***************************************************************************)

\* The parts of a copy have their types: its message, and a retry count that
\* never exceeds maxRetriesCount.
LEMMA CopyParts ==
  ASSUME NEW c \in Copy
  PROVE  c.msg \in Msg /\ c.tries \in 0..MaxRetries
BY DEF Copy

\* The copy that sendToRetryQueue publishes is a copy of the same message
\* with the next retry count.
LEMMA AgainIsCopy ==
  ASSUME NEW c \in Copy, c.tries < MaxRetries
  PROVE  /\ Again(c) \in Copy
         /\ Again(c).msg = c.msg
         /\ Again(c).tries = c.tries + 1
BY DEF Copy, Again

\* The copy that an emitted message enters the main queue as.
LEMMA FirstIsCopy ==
  ASSUME NEW m \in Msg
  PROVE  First(m) \in Copy /\ First(m).msg = m /\ First(m).tries = 0
BY DEF Copy, First

(***************************************************************************)
(* Type correctness                                                        *)
(***************************************************************************)

\* Initially every count is zero.
LEMMA InitTypeOK == Init => TypeOK
BY DEF Init, TypeOK

\* Moving a copy between two stages keeps the counts natural numbers.
LEMMA MoveType ==
  ASSUME TypeOK, NEW c \in Copy, NEW from \in Stage, NEW to \in Stage,
         Move(c, from, to)
  PROVE  at' \in [Stage -> [Copy -> Nat]]
<1>1. at \in [Stage -> [Copy -> Nat]]
  BY DEF TypeOK
<1>2. at[from][c] - 1 \in Nat /\ at[to][c] + 1 \in Nat
  BY <1>1 DEF Move
<1> QED
  BY <1>1, <1>2 DEF Move

\* Returning the unacknowledged copies to the main queue does so too.
LEMMA RequeuedType ==
  ASSUME TypeOK
  PROVE  /\ Requeued \in [Stage -> [Copy -> Nat]]
         /\ Orphaned \in [Copy -> Nat]
         /\ [c \in Copy |-> redone[c] + UnackedOf(c)] \in [Copy -> Nat]
BY DEF TypeOK, Requeued, Orphaned, UnackedOf, Stage, Unacked

\* Every step keeps the types.
LEMMA NextTypeOK == TypeOK /\ [Next]_vars => TypeOK'
<1> SUFFICES ASSUME TypeOK, [Next]_vars PROVE TypeOK'
  OBVIOUS
<1> USE CopyParts
<1>0. {"main", "retry", "dead", "handling", "mailed", "failed", "forwarded"} = Stage
  BY DEF Stage, Unacked
<1>1. ASSUME NEW m \in Msg, Publish(m) PROVE TypeOK'
  BY <1>0, <1>1, FirstIsCopy DEF Publish, TypeOK
<1>2. ASSUME NEW c \in Copy, Deliver(c) PROVE TypeOK'
  <2>1. at' \in [Stage -> [Copy -> Nat]]
    BY <1>0, <1>2, MoveType DEF Deliver
  <2> QED BY <1>2, <2>1 DEF Deliver, TypeOK
<1>3. ASSUME NEW c \in Copy, SendMail(c) PROVE TypeOK'
  <2>1. at' \in [Stage -> [Copy -> Nat]]
    BY <1>0, <1>3, MoveType DEF SendMail
  <2> QED BY <1>3, <2>1 DEF SendMail, TypeOK
<1>4. ASSUME NEW c \in Copy, HandlerThrows(c) PROVE TypeOK'
  <2>1. at' \in [Stage -> [Copy -> Nat]]
    BY <1>0, <1>4, MoveType DEF HandlerThrows
  <2> QED BY <1>4, <2>1 DEF HandlerThrows, TypeOK
<1>5. ASSUME NEW c \in Copy, CommitFails(c) PROVE TypeOK'
  <2>1. at' \in [Stage -> [Copy -> Nat]]
    BY <1>0, <1>5, MoveType DEF CommitFails
  <2> QED BY <1>5, <2>1 DEF CommitFails, TypeOK
<1>6. ASSUME NEW c \in Copy, Ack(c) PROVE TypeOK'
  BY <1>0, <1>6 DEF Ack, TypeOK
<1>7. ASSUME NEW c \in Copy, Forward(c) PROVE TypeOK'
  <2>1. at \in [Stage -> [Copy -> Nat]]
    BY DEF TypeOK
  <2>2. CASE SendToDeadQueue(c)
    <3>1. /\ at["failed"][c] - 1 \in Nat
          /\ at["forwarded"][c] + 1 \in Nat
          /\ (IF aux THEN at["dead"][c] + 1 ELSE at["dead"][c]) \in Nat
      BY <1>0, <2>1, <2>2 DEF SendToDeadQueue
    <3>2. at' \in [Stage -> [Copy -> Nat]]
      BY <1>0, <2>1, <2>2, <3>1 DEF SendToDeadQueue
    <3> QED BY <1>7, <3>2 DEF Forward, TypeOK
  <2>3. CASE SendToRetryQueue(c)
    <3> DEFINE d == Again(c)
    <3>1. d \in Copy
      BY <2>3, AgainIsCopy DEF SendToRetryQueue
    <3>2. /\ at["failed"][c] - 1 \in Nat
          /\ at["forwarded"][c] + 1 \in Nat
          /\ (IF aux THEN at["retry"][d] + 1 ELSE at["retry"][d]) \in Nat
      BY <1>0, <2>1, <2>3, <3>1 DEF SendToRetryQueue
    <3>3. at' = [at EXCEPT !["failed"][c] = @ - 1,
                           !["forwarded"][c] = @ + 1,
                           !["retry"][d] = IF aux THEN @ + 1 ELSE @]
      BY <2>3 DEF SendToRetryQueue
    <3> HIDE DEF d
    <3>4. at' \in [Stage -> [Copy -> Nat]]
      BY <1>0, <2>1, <3>1, <3>2, <3>3
    <3> QED BY <1>7, <3>4 DEF Forward, TypeOK
  <2> QED BY <1>7, <2>2, <2>3 DEF Forward
<1>8. ASSUME NEW c \in Copy, AckForwarded(c) PROVE TypeOK'
  BY <1>0, <1>8 DEF AckForwarded, TypeOK
<1>9. ASSUME NEW c \in Copy, InternalError(c) PROVE TypeOK'
  BY <1>0, <1>9 DEF InternalError, TypeOK
<1>10. ASSUME NEW c \in Copy, Expire(c) PROVE TypeOK'
  <2>1. at' \in [Stage -> [Copy -> Nat]]
    BY <1>0, <1>10, MoveType DEF Expire
  <2> QED BY <1>10, <2>1 DEF Expire, TypeOK
<1>11. ASSUME NEW c \in Copy, OrphanEnds(c) PROVE TypeOK'
  BY <1>11 DEF OrphanEnds, TypeOK
<1>12. CASE Disconnect
  BY <1>12, RequeuedType DEF Disconnect, ChannelLost, TypeOK
<1>13. CASE ConsumerRestart
  BY <1>13, RequeuedType DEF ConsumerRestart, ChannelLost, TypeOK
<1>14. CASE BrokerRestart
  BY <1>14, RequeuedType DEF BrokerRestart, ChannelLost, TypeOK
<1>15. CASE UNCHANGED vars
  BY <1>15 DEF vars, TypeOK
<1> QED
  BY <1>1, <1>2, <1>3, <1>4, <1>5, <1>6, <1>7, <1>8, <1>9, <1>10, <1>11, <1>12,
     <1>13, <1>14, <1>15 DEF Next, Consumer, Fault

\* The counts of the queue model are natural numbers, and retry counts stay
\* within maxRetriesCount, in every reachable state.
THEOREM TypeCorrect == Spec => []TypeOK
BY InitTypeOK, NextTypeOK, PTL DEF Spec

(***************************************************************************)
(* Where copies come from and go to                                        *)
(***************************************************************************)

\* The counts after a copy moved.
LEMMA MoveCounts ==
  ASSUME TypeOK, NEW c \in Copy, NEW from \in Stage, NEW to \in Stage,
         from # to, Move(c, from, to)
  PROVE  /\ at'[from][c] = at[from][c] - 1 /\ at'[to][c] = at[to][c] + 1
         /\ \A st \in Stage \ {from, to} : at'[st][c] = at[st][c]
         /\ \A st \in Stage, d \in Copy \ {c} : at'[st][d] = at[st][d]
<1>1. at \in [Stage -> [Copy -> Nat]]
  BY DEF TypeOK
<1> QED BY <1>1 DEF Move

\* The counts after a copy was taken away.
LEMMA TakeCounts ==
  ASSUME TypeOK, NEW c \in Copy, NEW from \in Stage,
         at' = [at EXCEPT ![from][c] = @ - 1]
  PROVE  /\ at'[from][c] = at[from][c] - 1
         /\ \A st \in Stage \ {from} : at'[st][c] = at[st][c]
         /\ \A st \in Stage, d \in Copy \ {c} : at'[st][d] = at[st][d]
<1>1. at \in [Stage -> [Copy -> Nat]]
  BY DEF TypeOK
<1> QED BY <1>1

\* A move adds a copy to one stage only, takes it from one stage only, and
\* the copy is there afterwards.
LEMMA MoveTrace ==
  ASSUME TypeOK, NEW c \in Copy, NEW from \in Stage, NEW to \in Stage,
         from # to, Move(c, from, to)
  PROVE  /\ at[from][c] > 0
         /\ at'[to][c] > 0
         /\ \A st \in Stage, d \in Copy :
              /\ at'[st][d] > 0 => at[st][d] > 0 \/ (st = to /\ d = c)
              /\ at[st][d] > 0 => at'[st][d] > 0 \/ (st = from /\ d = c)
<1>1. at \in [Stage -> [Copy -> Nat]]
  BY DEF TypeOK
<1>2. at[from][c] - 1 \in Nat /\ at[to][c] + 1 \in Nat /\ at[from][c] > 0
  BY <1>1 DEF Move
<1> QED
  BY <1>1, <1>2 DEF Move

\* An acknowledgement takes a copy away and adds none.
LEMMA TakeTrace ==
  ASSUME TypeOK, NEW c \in Copy, NEW from \in Stage, at[from][c] > 0,
         at' = [at EXCEPT ![from][c] = @ - 1]
  PROVE  \A st \in Stage, d \in Copy :
           /\ at'[st][d] > 0 => at[st][d] > 0
           /\ at[st][d] > 0 => at'[st][d] > 0 \/ (st = from /\ d = c)
<1>1. at \in [Stage -> [Copy -> Nat]]
  BY DEF TypeOK
<1>2. at[from][c] - 1 \in Nat
  BY <1>1
<1> QED
  BY <1>1, <1>2

\* An emitted message adds one copy to the main queue.
LEMMA PublishTrace ==
  ASSUME TypeOK, NEW m \in Msg, Publish(m)
  PROVE  /\ at'["main"][First(m)] > 0
         /\ \A st \in Stage, d \in Copy :
              /\ at'[st][d] > 0 => at[st][d] > 0 \/ (st = "main" /\ d = First(m))
              /\ at[st][d] > 0 => at'[st][d] > 0
<1>1. at \in [Stage -> [Copy -> Nat]] /\ "main" \in Stage /\ First(m) \in Copy
  BY FirstIsCopy DEF TypeOK, Stage
<1>2. at' = [at EXCEPT !["main"][First(m)] = @ + 1]
  BY DEF Publish
<1>3. at["main"][First(m)] + 1 \in Nat /\ at["main"][First(m)] + 1 > 0
  BY <1>1
<1> QED
  BY <1>1, <1>2, <1>3

\* Where processFailedMessage puts the copy of a failed delivery when both
\* supportive queues exist.
Target(c) == IF c.tries >= MaxRetries THEN [stage |-> "dead", copy |-> c]
                                      ELSE [stage |-> "retry", copy |-> Again(c)]

\* processFailedMessage adds the copy that the retry count calls for, provided
\* that the supportive queues exist, and keeps the delivery for its ack.
LEMMA ForwardTrace ==
  ASSUME TypeOK, NEW c \in Copy, Forward(c)
  PROVE  /\ at["failed"][c] > 0
         /\ at'["forwarded"][c] > 0
         /\ Target(c).copy \in Copy /\ Target(c).copy.msg = c.msg
         /\ aux => at'[Target(c).stage][Target(c).copy] > 0
         /\ \A st \in Stage, d \in Copy :
              /\ at'[st][d] > 0 => \/ at[st][d] > 0
                                   \/ st = "forwarded" /\ d = c
                                   \/ st = Target(c).stage /\ d = Target(c).copy
              /\ at[st][d] > 0 => at'[st][d] > 0 \/ (st = "failed" /\ d = c)
<1>1. at \in [Stage -> [Copy -> Nat]]
  BY DEF TypeOK
<1>2. {"retry", "dead", "failed", "forwarded"} \subseteq Stage
  BY DEF Stage, Unacked
<1>3. c.tries \in Nat /\ MaxRetries \in Nat
  BY CopyParts
<1>4. CASE SendToDeadQueue(c)
  <2>1. Target(c).stage = "dead" /\ Target(c).copy = c
    BY <1>3, <1>4 DEF SendToDeadQueue, Target
  <2>2. /\ at["failed"][c] > 0
        /\ at["failed"][c] - 1 \in Nat
        /\ at["forwarded"][c] + 1 \in Nat /\ at["forwarded"][c] + 1 > 0
        /\ at["dead"][c] \in Nat /\ at["dead"][c] + 1 \in Nat
        /\ at["dead"][c] + 1 > 0
    BY <1>1, <1>2, <1>4 DEF SendToDeadQueue
  <2>3. at' = [at EXCEPT !["failed"][c] = @ - 1,
                         !["forwarded"][c] = @ + 1,
                         !["dead"][c] = IF aux THEN @ + 1 ELSE @]
    BY <1>4 DEF SendToDeadQueue
  <2> QED
    BY <1>1, <1>2, <2>1, <2>2, <2>3
<1>5. CASE SendToRetryQueue(c)
  <2> DEFINE d == Again(c)
  <2>1. Target(c).stage = "retry" /\ Target(c).copy = d /\ d \in Copy /\ d.msg = c.msg
    BY <1>3, <1>5, AgainIsCopy DEF SendToRetryQueue, Target
  <2>2. /\ at["failed"][c] > 0
        /\ at["failed"][c] - 1 \in Nat
        /\ at["forwarded"][c] + 1 \in Nat /\ at["forwarded"][c] + 1 > 0
        /\ at["retry"][d] \in Nat /\ at["retry"][d] + 1 \in Nat
        /\ at["retry"][d] + 1 > 0
    BY <1>1, <1>2, <1>5, <2>1 DEF SendToRetryQueue
  <2>3. at' = [at EXCEPT !["failed"][c] = @ - 1,
                         !["forwarded"][c] = @ + 1,
                         !["retry"][d] = IF aux THEN @ + 1 ELSE @]
    BY <1>5 DEF SendToRetryQueue
  <2> HIDE DEF d
  <2> QED
    BY <1>1, <1>2, <2>1, <2>2, <2>3
<1> QED
  BY <1>4, <1>5 DEF Forward

\* Requeueing moves unacknowledged copies to the main queue and loses none.
LEMMA RequeueTrace ==
  ASSUME TypeOK, at' = Requeued
  PROVE  \A st \in Stage, d \in Copy :
           /\ at'[st][d] > 0 => \/ at[st][d] > 0
                                \/ /\ st = "main"
                                   /\ \E u \in Unacked : at[u][d] > 0
           /\ at[st][d] > 0 => \/ at'[st][d] > 0
                               \/ st \in Unacked /\ at'["main"][d] > 0
           /\ st \in Unacked => at'[st][d] = 0
<1>1. at \in [Stage -> [Copy -> Nat]]
  BY DEF TypeOK
<1> SUFFICES ASSUME NEW st \in Stage, NEW d \in Copy
             PROVE  /\ at'[st][d] > 0 => \/ at[st][d] > 0
                                         \/ /\ st = "main"
                                            /\ \E u \in Unacked : at[u][d] > 0
                    /\ at[st][d] > 0 => \/ at'[st][d] > 0
                                        \/ st \in Unacked /\ at'["main"][d] > 0
                    /\ st \in Unacked => at'[st][d] = 0
  OBVIOUS
<1>2. /\ "main" \in Stage /\ "main" \notin Unacked
      /\ Unacked = {"handling", "mailed", "failed", "forwarded"}
      /\ Unacked \subseteq Stage
  BY DEF Stage, Unacked
<1>3. /\ at'["main"][d] = at["main"][d] + UnackedOf(d)
      /\ st \in Unacked => at'[st][d] = 0
      /\ st \notin Unacked /\ st # "main" => at'[st][d] = at[st][d]
  BY <1>2 DEF Requeued
<1>4. /\ at["handling"][d] \in Nat /\ at["mailed"][d] \in Nat
      /\ at["failed"][d] \in Nat /\ at["forwarded"][d] \in Nat
      /\ at["main"][d] \in Nat
  BY <1>1, <1>2
<1>5. UnackedOf(d) > 0 <=> \E u \in Unacked : at[u][d] > 0
  BY <1>2, <1>4 DEF UnackedOf
<1>6. UnackedOf(d) \in Nat
  BY <1>4 DEF UnackedOf
<1> QED
  BY <1>2, <1>3, <1>4, <1>5, <1>6

(***************************************************************************)
(* The retry budget                                                        *)
(***************************************************************************)

\* Failed handler runs are never forgotten.
LEMMA FailuresGrow ==
  ASSUME TypeOK, [Next]_vars, NEW m \in Msg
  PROVE  failures[m] \in Nat /\ failures'[m] \in Nat /\ failures'[m] >= failures[m]
<1> USE CopyParts DEF TypeOK
<1>1. \/ failures' = failures
      \/ \E c \in Copy : failures' = [failures EXCEPT ![c.msg] = @ + 1]
  BY DEF Next, vars, Publish, Deliver, Consumer, SendMail, HandlerThrows,
         CommitFails, Ack, Forward, AckForwarded, InternalError, Expire,
         OrphanEnds, Fault, Disconnect, ConsumerRestart, BrokerRestart, ChannelLost
<1> QED
  BY <1>1

\* Every step keeps the account of failed runs behind each copy.
LEMMA NextFailuresCounted ==
  TypeOK /\ FailuresCounted /\ [Next]_vars => FailuresCounted'
<1> SUFFICES ASSUME TypeOK, FailuresCounted, [Next]_vars,
                    NEW st \in Stage, NEW d \in Copy, at'[st][d] > 0
             PROVE  failures'[d.msg] >= FailuresOf(st, d)
  BY DEF FailuresCounted
<1>1. /\ failures[d.msg] \in Nat /\ failures'[d.msg] \in Nat
      /\ failures'[d.msg] >= failures[d.msg]
      /\ d.msg \in Msg /\ d.tries \in Nat /\ MaxRetries \in Nat
      /\ d.tries <= MaxRetries
  BY CopyParts, FailuresGrow
<1>2. ASSUME NEW u \in Stage, at[u][d] > 0,
             FailuresOf(u, d) >= FailuresOf(st, d)
      PROVE  failures'[d.msg] >= FailuresOf(st, d)
  <2>1. failures[d.msg] >= FailuresOf(u, d)
    BY <1>2 DEF FailuresCounted
  <2>2. FailuresOf(u, d) \in Nat /\ FailuresOf(st, d) \in Nat
    BY <1>1 DEF FailuresOf
  <2> QED
    BY <1>1, <1>2, <2>1, <2>2
<1>3. CASE at[st][d] > 0
  <2>1. FailuresOf(st, d) >= FailuresOf(st, d)
    BY <1>1 DEF FailuresOf
  <2> QED
    BY <1>2, <1>3, <2>1
<1>4. {"main", "retry", "dead", "handling", "mailed", "failed", "forwarded"} = Stage
  BY DEF Stage, Unacked
<1>5. /\ FailuresOf("main", d) = d.tries /\ FailuresOf("retry", d) = d.tries
      /\ FailuresOf("handling", d) = d.tries /\ FailuresOf("mailed", d) = d.tries
      /\ FailuresOf("failed", d) = d.tries + 1
      /\ FailuresOf("forwarded", d) = d.tries + 1
      /\ FailuresOf("dead", d) = MaxRetries + 1
  BY DEF FailuresOf
<1>6. ASSUME NEW m \in Msg, Publish(m) PROVE failures'[d.msg] >= FailuresOf(st, d)
  <2>1. at[st][d] > 0 \/ (st = "main" /\ d.tries = 0)
    BY <1>6, PublishTrace, FirstIsCopy
  <2> QED
    BY <1>1, <1>3, <1>5, <2>1
<1>7. ASSUME NEW c \in Copy, Deliver(c) PROVE failures'[d.msg] >= FailuresOf(st, d)
  <2>1. at["main"][c] > 0 /\ (at[st][d] > 0 \/ (st = "handling" /\ d = c))
    BY <1>4, <1>7, MoveTrace DEF Deliver
  <2> QED
    BY <1>1, <1>2, <1>3, <1>4, <1>5, <2>1
<1>8. ASSUME NEW c \in Copy, SendMail(c) PROVE failures'[d.msg] >= FailuresOf(st, d)
  <2>1. at["handling"][c] > 0 /\ (at[st][d] > 0 \/ (st = "mailed" /\ d = c))
    BY <1>4, <1>8, MoveTrace DEF SendMail
  <2> QED
    BY <1>1, <1>2, <1>3, <1>4, <1>5, <2>1
<1>9. ASSUME NEW c \in Copy, HandlerThrows(c) \/ CommitFails(c)
      PROVE failures'[d.msg] >= FailuresOf(st, d)
  <2>1. PICK u \in {"handling", "mailed"} : Move(c, u, "failed")
    BY <1>9 DEF HandlerThrows, CommitFails
  <2>4. at[u][c] > 0 /\ (at[st][d] > 0 \/ (st = "failed" /\ d = c))
    BY <1>4, <2>1, MoveTrace
  <2>2. failures' = [failures EXCEPT ![c.msg] = @ + 1]
    BY <1>9 DEF HandlerThrows, CommitFails
  <2>3. CASE st = "failed" /\ d = c
    <3>1. failures[d.msg] >= d.tries
      BY <1>4, <1>5, <2>3, <2>4 DEF FailuresCounted
    <3>2. failures'[d.msg] = failures[d.msg] + 1
      BY <1>1, <2>2, <2>3 DEF TypeOK
    <3> QED
      BY <1>1, <1>5, <2>3, <3>1, <3>2
  <2> QED
    BY <1>3, <2>3, <2>4
<1>10. ASSUME NEW c \in Copy, Ack(c) \/ AckForwarded(c) \/ InternalError(c)
       PROVE failures'[d.msg] >= FailuresOf(st, d)
  <2>1. at[st][d] > 0
    <3>1. \E u \in Stage : at[u][c] > 0 /\ at' = [at EXCEPT ![u][c] = @ - 1]
      BY <1>4, <1>10 DEF Ack, AckForwarded, InternalError
    <3> QED
      BY <3>1, TakeTrace
  <2> QED
    BY <1>3, <2>1
<1>11. ASSUME NEW c \in Copy, Forward(c) PROVE failures'[d.msg] >= FailuresOf(st, d)
  <2>1. /\ at["failed"][c] > 0
        /\ \/ at[st][d] > 0
           \/ st = "forwarded" /\ d = c
           \/ st = Target(c).stage /\ d = Target(c).copy
    BY <1>11, ForwardTrace
  <2>2. failures[c.msg] >= c.tries + 1
    BY <1>4, <2>1 DEF FailuresCounted, FailuresOf
  <2>3. CASE st = "forwarded" /\ d = c
    BY <1>1, <1>5, <2>2, <2>3
  <2>4. CASE st = Target(c).stage /\ d = Target(c).copy
    <3>1. c.tries \in 0..MaxRetries /\ c.msg \in Msg /\ failures[c.msg] \in Nat
      BY CopyParts DEF TypeOK
    <3>2. CASE c.tries >= MaxRetries
      <4>1. st = "dead" /\ d = c
        BY <2>4, <3>2 DEF Target
      <4> QED
        BY <1>1, <1>5, <2>2, <3>1, <3>2, <4>1
    <3>3. CASE c.tries < MaxRetries
      <4>1. st = "retry" /\ d.msg = c.msg /\ d.tries = c.tries + 1
        BY <1>1, <2>4, <3>1, <3>3, AgainIsCopy DEF Target
      <4> QED
        BY <1>1, <1>5, <2>2, <3>1, <4>1
    <3> QED
      BY <1>1, <3>1, <3>2, <3>3
  <2> QED
    BY <1>3, <2>1, <2>3, <2>4
<1>12. ASSUME NEW c \in Copy, Expire(c) PROVE failures'[d.msg] >= FailuresOf(st, d)
  <2>1. at["retry"][c] > 0 /\ (at[st][d] > 0 \/ (st = "main" /\ d = c))
    BY <1>4, <1>12, MoveTrace DEF Expire
  <2> QED
    BY <1>1, <1>2, <1>3, <1>4, <1>5, <2>1
<1>13. ASSUME NEW c \in Copy, OrphanEnds(c) PROVE failures'[d.msg] >= FailuresOf(st, d)
  BY <1>3, <1>13 DEF OrphanEnds
<1>14. CASE at' = Requeued
  <2>1. at[st][d] > 0 \/ (st = "main" /\ \E u \in Unacked : at[u][d] > 0)
    BY <1>14, RequeueTrace
  <2>2. ASSUME NEW u \in Unacked
        PROVE  u \in Stage /\ FailuresOf(u, d) >= d.tries
    BY <1>1, <1>4, <1>5, <2>2 DEF Unacked
  <2> QED
    BY <1>2, <1>3, <1>5, <2>1, <2>2
<1>15. CASE at' = [u \in Stage |-> [c \in Copy |-> 0]]
  BY <1>15
<1>16. CASE UNCHANGED vars
  BY <1>3, <1>16 DEF vars
<1> QED
  BY <1>6, <1>7, <1>8, <1>9, <1>10, <1>11, <1>12, <1>13, <1>14, <1>15, <1>16
  DEF Next, Consumer, Fault, Disconnect, ConsumerRestart, BrokerRestart

\* A message is dead-lettered only after MaxRetries + 1 failed handler runs,
\* whatever connections broke and whichever queues were lost in between.
THEOREM DeadLetterBudget == Spec => []DeadOnlyAfterBudget
<1>1. Init => FailuresCounted
  BY DEF Init, FailuresCounted
<1>2. FailuresCounted => DeadOnlyAfterBudget
  <2> SUFFICES ASSUME FailuresCounted, NEW m \in Msg, Buried(m)
               PROVE  failures[m] >= MaxRetries + 1
    BY DEF DeadOnlyAfterBudget
  <2>1. PICK c \in Copy : c.msg = m /\ at["dead"][c] > 0
    BY DEF Buried
  <2>2. "dead" \in Stage
    BY DEF Stage
  <2> QED
    BY <2>1, <2>2 DEF FailuresCounted, FailuresOf
<1> QED
  BY <1>1, <1>2, TypeCorrect, NextFailuresCounted, PTL DEF Spec

(***************************************************************************)
(* No message is lost while the queues outlive the broker                  *)
(***************************************************************************)

\* Mails and rejections are never forgotten.
LEMMA OutcomesGrow ==
  ASSUME TypeOK, [Next]_vars, NEW m \in Msg
  PROVE  /\ mailed[m] > 0 => mailed'[m] > 0
         /\ rejected[m] > 0 => rejected'[m] > 0
<1> USE CopyParts DEF TypeOK
<1>1. \/ mailed' = mailed
      \/ \E c \in Copy : mailed' = [mailed EXCEPT ![c.msg] = @ + 1]
  BY DEF Next, vars, Publish, Deliver, Consumer, SendMail, HandlerThrows,
         CommitFails, Ack, Forward, AckForwarded, InternalError, Expire,
         OrphanEnds, Fault, Disconnect, ConsumerRestart, BrokerRestart, ChannelLost
<1>2. \/ rejected' = rejected
      \/ \E c \in Copy : rejected' = [rejected EXCEPT ![c.msg] = @ + 1]
  BY DEF Next, vars, Publish, Deliver, Consumer, SendMail, HandlerThrows,
         CommitFails, Ack, Forward, AckForwarded, InternalError, Expire,
         OrphanEnds, Fault, Disconnect, ConsumerRestart, BrokerRestart, ChannelLost
<1> QED
  BY <1>1, <1>2

\* One witness is enough for a message to be carried.
LEMMA CarriedBy ==
  ASSUME NEW d \in Copy, NEW st \in {"main", "retry", "handling", "mailed", "failed"},
         at'[st][d] > 0
  PROVE  Carried(d.msg)'
<1>1. st \in Stage \ {"forwarded", "dead"}
  BY DEF Stage, Unacked
<1> QED
  BY <1>1 DEF Carried

\* Every delivery in stage "mailed" keeps having a mail to show.
LEMMA NextMailedHaveMail ==
  TypeOK /\ MailedHaveMail /\ [Next]_vars => MailedHaveMail'
<1> SUFFICES ASSUME TypeOK, MailedHaveMail, [Next]_vars,
                    NEW d \in Copy, at'["mailed"][d] > 0
             PROVE  mailed'[d.msg] > 0
  BY DEF MailedHaveMail
<1>0. {"main", "retry", "dead", "handling", "mailed", "failed", "forwarded"} = Stage
  BY DEF Stage, Unacked
<1>1. CASE at["mailed"][d] > 0
  BY <1>1, CopyParts, OutcomesGrow DEF MailedHaveMail
<1>2. ASSUME NEW m \in Msg, Publish(m) PROVE at["mailed"][d] > 0
  BY <1>0, <1>2, PublishTrace
<1>3. ASSUME NEW c \in Copy, NEW from \in Stage, NEW to \in Stage, from # to,
             to # "mailed", Move(c, from, to)
      PROVE  at["mailed"][d] > 0
  BY <1>0, <1>3, MoveTrace
<1>4. ASSUME NEW c \in Copy, SendMail(c) PROVE mailed'[d.msg] > 0
  <2>0. Move(c, "handling", "mailed")
    BY <1>4 DEF SendMail
  <2>1. at["mailed"][d] > 0 \/ d = c
    BY <1>0, <2>0, MoveTrace
  <2>2. mailed'[c.msg] > 0
    BY <1>4, CopyParts DEF SendMail, TypeOK
  <2> QED
    BY <1>1, <2>1, <2>2
<1>5. ASSUME NEW c \in Copy, NEW from \in Stage, at[from][c] > 0,
             at' = [at EXCEPT ![from][c] = @ - 1]
      PROVE  at["mailed"][d] > 0
  BY <1>0, <1>5, TakeTrace
<1>6. ASSUME NEW c \in Copy, Forward(c) PROVE at["mailed"][d] > 0
  <2>1. Target(c).stage # "mailed"
    BY DEF Target
  <2> QED
    BY <1>0, <1>6, <2>1, ForwardTrace
<1>7. CASE at' = Requeued
  BY <1>0, <1>7, RequeueTrace DEF Unacked
<1>8. CASE at' = [st \in Stage |-> [c \in Copy |-> 0]]
  BY <1>0, <1>8
<1>9. CASE at' = at
  BY <1>1, <1>9
<1>10. ASSUME NEW c \in Copy,
              Deliver(c) \/ HandlerThrows(c) \/ CommitFails(c) \/ Expire(c)
       PROVE  at["mailed"][d] > 0
  <2>1. PICK from \in Stage, to \in Stage :
               from # to /\ to # "mailed" /\ Move(c, from, to)
    BY <1>0, <1>10 DEF Deliver, HandlerThrows, CommitFails, Expire
  <2> QED
    BY <1>3, <2>1
<1>11. ASSUME NEW c \in Copy, Ack(c) \/ AckForwarded(c) \/ InternalError(c)
       PROVE  at["mailed"][d] > 0
  <2>1. PICK from \in Stage : /\ at[from][c] > 0
                             /\ at' = [at EXCEPT ![from][c] = @ - 1]
    BY <1>0, <1>11 DEF Ack, AckForwarded, InternalError
  <2> QED
    BY <1>5, <2>1
<1> QED
  BY <1>1, <1>2, <1>4, <1>6, <1>7, <1>8, <1>9, <1>10, <1>11
  DEF Next, Consumer, OrphanEnds, Fault, Disconnect, ConsumerRestart,
      BrokerRestart, vars

\* A step that wipes no queue keeps a message dead-lettered.
LEMMA BuriedStays ==
  ASSUME TypeOK, [Next]_vars, NEW m \in Msg, Buried(m),
         ~(BrokerRestart /\ ~(Durable /\ Persistent))
  PROVE  Buried(m)'
<1>0. {"main", "retry", "dead", "handling", "mailed", "failed", "forwarded"} = Stage
  BY DEF Stage, Unacked
<1>1. PICK d \in Copy : d.msg = m /\ at["dead"][d] > 0
  BY DEF Buried
<1> SUFFICES at'["dead"][d] > 0
  BY <1>1 DEF Buried
<1>2. ASSUME NEW n \in Msg, Publish(n) PROVE at'["dead"][d] > 0
  BY <1>0, <1>1, <1>2, PublishTrace
<1>3. ASSUME NEW c \in Copy, NEW from \in Stage, NEW to \in Stage, from # to,
             from # "dead", Move(c, from, to)
      PROVE  at'["dead"][d] > 0
  BY <1>0, <1>1, <1>3, MoveTrace
<1>4. ASSUME NEW c \in Copy, NEW from \in Stage, from # "dead", at[from][c] > 0,
             at' = [at EXCEPT ![from][c] = @ - 1]
      PROVE  at'["dead"][d] > 0
  BY <1>0, <1>1, <1>4, TakeTrace
<1>5. ASSUME NEW c \in Copy, Forward(c) PROVE at'["dead"][d] > 0
  BY <1>0, <1>1, <1>5, ForwardTrace
<1>6. CASE at' = Requeued
  BY <1>0, <1>1, <1>6, RequeueTrace DEF Unacked
<1>7. CASE at' = at
  BY <1>1, <1>7
<1>8. ASSUME NEW c \in Copy,
             Deliver(c) \/ SendMail(c) \/ HandlerThrows(c) \/ CommitFails(c) \/ Expire(c)
      PROVE  at'["dead"][d] > 0
  <2>1. PICK from \in Stage, to \in Stage :
               from # to /\ from # "dead" /\ Move(c, from, to)
    BY <1>0, <1>8 DEF Deliver, SendMail, HandlerThrows, CommitFails, Expire
  <2> QED
    BY <1>3, <2>1
<1>9. ASSUME NEW c \in Copy, Ack(c) \/ AckForwarded(c) \/ InternalError(c)
      PROVE  at'["dead"][d] > 0
  <2>1. PICK from \in Stage : /\ from # "dead" /\ at[from][c] > 0
                             /\ at' = [at EXCEPT ![from][c] = @ - 1]
    BY <1>0, <1>9 DEF Ack, AckForwarded, InternalError
  <2> QED
    BY <1>4, <2>1
<1> QED
  BY <1>2, <1>5, <1>6, <1>7, <1>8, <1>9
  DEF Next, Consumer, OrphanEnds, Fault, Disconnect, ConsumerRestart,
      BrokerRestart, vars

\* What becomes of a carried message in one step that wipes no queue.
LEMMA CarriedStays ==
  ASSUME TypeOK, LossInv, [Next]_vars, NEW m \in Msg, Carried(m),
         ~(BrokerRestart /\ ~(Durable /\ Persistent))
  PROVE  Carried(m)' \/ Settled(m)'
<1>0. {"main", "retry", "dead", "handling", "mailed", "failed", "forwarded"} = Stage
  BY DEF Stage, Unacked
<1>1. PICK d \in Copy, st \in {"main", "retry", "handling", "mailed", "failed"} :
        d.msg = m /\ at[st][d] > 0
  BY <1>0 DEF Carried
<1>2. ASSUME NEW to \in {"main", "retry", "handling", "mailed", "failed"}, at'[to][d] > 0
      PROVE  Carried(m)'
  BY <1>1, <1>2, CarriedBy
<1>3. ASSUME NEW n \in Msg, Publish(n) PROVE Carried(m)'
  BY <1>0, <1>1, <1>2, <1>3, PublishTrace
<1>4. ASSUME NEW c \in Copy, NEW from \in Stage,
             NEW to \in {"main", "retry", "handling", "mailed", "failed"},
             from # to, Move(c, from, to)
      PROVE  Carried(m)'
  BY <1>0, <1>1, <1>2, <1>4, MoveTrace
<1>5. ASSUME NEW c \in Copy, Ack(c) PROVE Carried(m)' \/ Settled(m)'
  <2>1. at'[st][d] > 0 \/ (st = "mailed" /\ d = c)
    BY <1>0, <1>1, <1>5, TakeTrace DEF Ack
  <2>2. CASE st = "mailed" /\ d = c
    <3>1. mailed[m] > 0
      BY <1>1, <2>2 DEF LossInv, MailedHaveMail
    <3> QED
      BY <3>1, OutcomesGrow DEF Settled
  <2> QED
    BY <1>2, <2>1, <2>2
<1>6. ASSUME NEW c \in Copy, AckForwarded(c) PROVE Carried(m)'
  <2>1. at'[st][d] > 0
    BY <1>0, <1>1, <1>6, TakeTrace DEF AckForwarded
  <2> QED
    BY <1>2, <2>1
<1>7. ASSUME NEW c \in Copy, InternalError(c) PROVE Carried(m)' \/ Settled(m)'
  <2>1. at'[st][d] > 0 \/ (st = "failed" /\ d = c)
    BY <1>0, <1>1, <1>7, TakeTrace DEF InternalError
  <2>2. rejected'[c.msg] > 0
    BY <1>7, CopyParts DEF InternalError, TypeOK
  <2> QED
    BY <1>1, <1>2, <2>1, <2>2 DEF Settled
<1>8. ASSUME NEW c \in Copy, Forward(c) PROVE Carried(m)' \/ Settled(m)'
  <2>1. /\ at'[st][d] > 0 \/ (st = "failed" /\ d = c)
        /\ Target(c).copy \in Copy /\ Target(c).copy.msg = c.msg
        /\ at'[Target(c).stage][Target(c).copy] > 0
    BY <1>0, <1>1, <1>8, ForwardTrace DEF LossInv
  <2>2. CASE d = c /\ Target(c).stage = "dead"
    BY <1>1, <2>1, <2>2 DEF Settled, Buried
  <2>3. CASE d = c /\ Target(c).stage = "retry"
    BY <1>1, <2>1, <2>3, CarriedBy
  <2>4. Target(c).stage \in {"dead", "retry"}
    BY DEF Target
  <2> QED
    BY <1>2, <2>1, <2>2, <2>3, <2>4
<1>9. CASE at' = Requeued
  <2>1. at'[st][d] > 0 \/ at'["main"][d] > 0
    BY <1>0, <1>1, <1>9, RequeueTrace
  <2> QED
    BY <1>2, <2>1
<1>10. CASE at' = at
  BY <1>1, <1>2, <1>10
<1>11. ASSUME NEW c \in Copy,
              Deliver(c) \/ SendMail(c) \/ HandlerThrows(c) \/ CommitFails(c) \/ Expire(c)
       PROVE  Carried(m)'
  <2>1. PICK from \in Stage, to \in {"main", "retry", "handling", "mailed", "failed"} :
               from # to /\ Move(c, from, to)
    BY <1>0, <1>11 DEF Deliver, SendMail, HandlerThrows, CommitFails, Expire
  <2> QED
    BY <1>4, <2>1
<1> QED
  BY <1>3, <1>5, <1>6, <1>7, <1>8, <1>9, <1>10, <1>11
  DEF Next, Consumer, OrphanEnds, Fault, Disconnect, ConsumerRestart,
      BrokerRestart, vars

\* With durable queues, every step keeps the supportive queues in place and
\* every message accounted for.
LEMMA NextLossInv ==
  ASSUME Durable, TypeOK, LossInv, [Next]_vars
  PROVE  LossInv'
<1>1. aux'
  BY DEF LossInv, Next, vars, Publish, Deliver, Consumer, SendMail, HandlerThrows,
         CommitFails, Ack, Forward, AckForwarded, InternalError, Expire,
         OrphanEnds, Fault, Disconnect, ConsumerRestart, BrokerRestart
<1>2. MailedHaveMail'
  BY NextMailedHaveMail DEF LossInv
<1>3. ASSUME NEW m \in Msg, m \in published', m \notin wiped'
      PROVE  Carried(m)' \/ Settled(m)'
  <2>1. CASE m \notin published
    <3>1. Publish(m)
      BY <1>3, <2>1
      DEF Next, vars, Publish, Deliver, Consumer, SendMail, HandlerThrows,
          CommitFails, Ack, Forward, AckForwarded, InternalError, Expire,
          OrphanEnds, Fault, Disconnect, ConsumerRestart, BrokerRestart, ChannelLost
    <3> QED
      BY <3>1, PublishTrace, FirstIsCopy, CarriedBy
  <2>2. CASE m \in published
    <3>1. m \notin wiped
      BY <1>3
      DEF Next, vars, Publish, Deliver, Consumer, SendMail, HandlerThrows,
          CommitFails, Ack, Forward, AckForwarded, InternalError, Expire,
          OrphanEnds, Fault, Disconnect, ConsumerRestart, BrokerRestart, ChannelLost
    <3>2. ~(BrokerRestart /\ ~(Durable /\ Persistent))
      BY <1>3, <2>2 DEF BrokerRestart, ChannelLost
    <3>3. CASE Settled(m)
      <4>1. CASE Buried(m)
        BY <3>2, <4>1, BuriedStays DEF Settled
      <4> QED
        BY <3>3, <4>1, OutcomesGrow DEF Settled
    <3>4. CASE Carried(m)
      BY <3>2, <3>4, CarriedStays
    <3> QED
      BY <2>2, <3>1, <3>3, <3>4 DEF LossInv, NoSilentLoss
  <2> QED
    BY <2>1, <2>2
<1>4. NoSilentLoss'
  <2> SUFFICES ASSUME NEW m \in (published \ wiped)' PROVE (Carried(m) \/ Settled(m))'
    BY DEF NoSilentLoss
  <2>1. published' \subseteq Msg
    BY NextTypeOK DEF TypeOK
  <2> QED
    BY <1>3, <2>1
<1> QED
  BY <1>1, <1>2, <1>4 DEF LossInv

\* With durable queues no message vanishes silently: whatever connections,
\* processes and brokers fail, and whether or not a broker restart takes the
\* messages it held, every other emitted message is carried by some copy or
\* was mailed, dead-lettered or rejected.
THEOREM NoMessageLost == Durable => (Spec => []NoSilentLoss)
<1> SUFFICES ASSUME Durable PROVE Spec => []NoSilentLoss
  OBVIOUS
<1>1. Init => LossInv
  BY DEF Init, LossInv, MailedHaveMail, NoSilentLoss, Stage, Unacked
<1>2. TypeOK /\ LossInv /\ [Next]_vars => LossInv'
  BY NextLossInv
<1>3. LossInv => NoSilentLoss
  BY DEF LossInv
<1> QED
  BY <1>1, <1>2, <1>3, TypeCorrect, PTL DEF Spec
=============================================================================
