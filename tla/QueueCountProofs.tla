-------------------------- MODULE QueueCountProofs --------------------------
(***************************************************************************)
(* The counts of RmqRetry are the counts of the queues of RetryBackoff:    *)
(* how often a copy occurs in the sequences mainQ and retryQ.  And what    *)
(* was shown of the unordered queue holds of the ordered one.              *)
(***************************************************************************)
EXTENDS RetryBackoffProofs, MailDeliveryProofs

USE RmqAssumption

(***************************************************************************)
(* Occurrences                                                             *)
(***************************************************************************)

\* How many of the first n values of k are c.
Occ(k, n, c) == Cardinality({i \in 1..n : k[i] = c})

LEMMA OccType ==
  ASSUME NEW n \in Nat, NEW k, NEW c
  PROVE  IsFiniteSet({i \in 1..n : k[i] = c}) /\ Occ(k, n, c) \in Nat
<1>1. IsFiniteSet(1..n)
  BY FS_Interval
<1>2. IsFiniteSet({i \in 1..n : k[i] = c})
  BY <1>1, FS_Subset
<1> QED BY <1>2, FS_CardinalityType DEF Occ

\* Only the values count.
LEMMA OccSame ==
  ASSUME NEW n \in Nat, NEW k, NEW l, NEW c, \A i \in 1..n : (k[i] = c) <=> (l[i] = c)
  PROVE  Occ(k, n, c) = Occ(l, n, c)
<1>1. {i \in 1..n : k[i] = c} = {i \in 1..n : l[i] = c}
  OBVIOUS
<1> QED BY <1>1 DEF Occ

\* One value occurs once or not at all.
LEMMA OccOne ==
  ASSUME NEW k, NEW c
  PROVE  /\ Occ(k, 0, c) = 0
         /\ Occ(k, 1, c) = IF k[1] = c THEN 1 ELSE 0
<1>1. {i \in 1..0 : k[i] = c} = {}
  OBVIOUS
<1>2. {i \in 1..1 : k[i] = c} = IF k[1] = c THEN {1} ELSE {}
  OBVIOUS
<1> QED BY <1>1, <1>2, FS_EmptySet, FS_Singleton DEF Occ

\* The occurrences in s, followed by those in k, are those in l.
LEMMA OccConcat ==
  ASSUME NEW m \in Nat, NEW n \in Nat, NEW s, NEW k, NEW l, NEW c,
         \A i \in 1..m : l[i] = s[i], \A i \in 1..n : l[m + i] = k[i]
  PROVE  Occ(l, m + n, c) = Occ(s, m, c) + Occ(k, n, c)
<1> DEFINE A == {i \in 1..m : s[i] = c}
<1> DEFINE K == {i \in 1..n : k[i] = c}
<1> DEFINE B == {i \in m + 1..m + n : l[i] = c}
<1>1. IsFiniteSet(A) /\ IsFiniteSet(K)
  <2>1. IsFiniteSet(1..m) /\ IsFiniteSet(1..n)
    BY FS_Interval
  <2> QED BY <2>1, FS_Subset
<1>2. IsFiniteSet(B) /\ Cardinality(B) = Cardinality(K)
  <2> DEFINE f == [i \in K |-> m + i]
  <2>1. f \in [K -> B] /\ \A i, j \in K : f[i] = f[j] => i = j
    OBVIOUS
  <2>2. ASSUME NEW b \in B PROVE \E i \in K : f[i] = b
    <3>1. b - m \in 1..n /\ m + (b - m) = b
      OBVIOUS
    <3>2. b - m \in K
      BY <3>1
    <3> QED BY <3>1, <3>2
  <2>3. f \in Bijection(K, B)
    <3> HIDE DEF f, K, B
    <3> QED BY <2>1, <2>2, Fun_IsBij
  <2> HIDE DEF f, K, B
  <2>4. ExistsBijection(K, B)
    BY <2>3 DEF ExistsBijection
  <2> QED BY <1>1, <2>4, FS_Bijection
<1>3. {i \in 1..m + n : l[i] = c} = A \cup B
  OBVIOUS
<1>4. A \cap B = {}
  OBVIOUS
<1>5. Cardinality(A \cup B) = Cardinality(A) + Cardinality(B)
  <2> HIDE DEF A, B
  <2>1. Cardinality(A \cup B) = Cardinality(A) + Cardinality(B) - Cardinality(A \cap B)
    BY <1>1, <1>2, FS_Union
  <2>2. Cardinality(A \cap B) = 0
    BY <1>4, FS_EmptySet
  <2>3. Cardinality(A) \in Nat /\ Cardinality(B) \in Nat
    BY <1>1, <1>2, FS_CardinalityType
  <2> QED BY <2>1, <2>2, <2>3
<1> QED BY <1>2, <1>3, <1>5 DEF Occ

\* The first n values of l are those of k; those of k follow the first m.
Prefixes(k, l, n) == \A i \in 1..n : l[i] = k[i]
Follows(k, l, m, n) == \A i \in 1..n : l[m + i] = k[i]

\* A value appended, and one taken from the front.
LEMMA OccAppend ==
  ASSUME NEW n \in Nat, NEW k, NEW l, NEW c, Prefixes(k, l, n)
  PROVE  Occ(l, n + 1, c) = Occ(k, n, c) + IF l[n + 1] = c THEN 1 ELSE 0
<1> DEFINE last == [i \in 1..1 |-> l[n + 1]]
<1>1. \A i \in 1..1 : l[n + i] = last[i]
  OBVIOUS
<1>2. Occ(last, 1, c) = IF l[n + 1] = c THEN 1 ELSE 0
  BY OccOne
<1> HIDE DEF last
<1>3. Occ(l, n + 1, c) = Occ(k, n, c) + Occ(last, 1, c)
  BY <1>1, OccConcat DEF Prefixes
<1> QED BY <1>2, <1>3

LEMMA OccTail ==
  ASSUME NEW n \in Nat, n > 0, NEW k, NEW l, NEW c, Follows(l, k, 1, n - 1)
  PROVE  Occ(l, n - 1, c) = Occ(k, n, c) - IF k[1] = c THEN 1 ELSE 0
<1>1. n - 1 \in Nat /\ 1 + (n - 1) = n
  OBVIOUS
<1>2. \A i \in 1..n - 1 : k[1 + i] = l[i]
  BY DEF Follows
<1>3. Occ(k, 1 + (n - 1), c) = Occ(k, 1, c) + Occ(l, n - 1, c)
  BY <1>1, <1>2, OccConcat
<1>4. Occ(k, n, c) \in Nat /\ Occ(l, n - 1, c) \in Nat
  BY <1>1, OccType
<1> QED BY <1>1, <1>3, <1>4, OccOne

(***************************************************************************)
(* The queues                                                              *)
(***************************************************************************)

\* The copies of the retry queue, in order.
Copies(q) == [i \in 1..Len(q) |-> q[i].copy]

InMain(c) == Occ(mainQ, Len(mainQ), c)
InRetry(c) == Occ(Copies(retryQ), Len(retryQ), c)

Matching == \A c \in Copy : at["main"][c] = InMain(c) /\ at["retry"][c] = InRetry(c)

LEMMA QueuesMatchIs == QueuesMatch <=> Matching
<1>1. ASSUME NEW c PROVE {i \in 1..Len(retryQ) : retryQ[i].copy = c}
                          = {i \in 1..Len(retryQ) : Copies(retryQ)[i] = c}
  BY DEF Copies
<1> QED BY <1>1 DEF QueuesMatch, Matching, InMain, InRetry, Occ

\* A copy enters the main queue at its end, and leaves it at its front.
LEMMA MainAppend ==
  ASSUME TimedTyping, NEW d \in Copy, mainQ' = Append(mainQ, d)
  PROVE  \A c \in Copy : InMain(c)' = InMain(c) + IF c = d THEN 1 ELSE 0
<1>1. /\ Len(mainQ) \in Nat /\ Len(mainQ') = Len(mainQ) + 1
      /\ Prefixes(mainQ, mainQ', Len(mainQ))
      /\ mainQ'[Len(mainQ) + 1] = d
  BY AppendProperties, LenProperties DEF TimedTyping, Prefixes
<1> DEFINE q == mainQ'
<1> HIDE DEF q
<1>2. ASSUME NEW c \in Copy
      PROVE  Occ(q, Len(mainQ) + 1, c)
               = Occ(mainQ, Len(mainQ), c) + IF q[Len(mainQ) + 1] = c THEN 1 ELSE 0
  <2>1. Prefixes(mainQ, q, Len(mainQ)) /\ Len(mainQ) \in Nat
    BY <1>1 DEF q
  <2> QED BY <2>1, OccAppend
<1> QED BY <1>1, <1>2 DEF InMain, q

LEMMA MainTail ==
  ASSUME TimedTyping, mainQ # <<>>, mainQ' = Tail(mainQ)
  PROVE  \A c \in Copy : InMain(c)' = InMain(c) - IF c = Head(mainQ) THEN 1 ELSE 0
<1>1. /\ Len(mainQ) \in Nat /\ Len(mainQ) > 0 /\ Len(mainQ') = Len(mainQ) - 1
      /\ Follows(mainQ', mainQ, 1, Len(mainQ) - 1)
      /\ Head(mainQ) = mainQ[1]
  BY HeadTailProperties, LenProperties, EmptySeq DEF TimedTyping, Follows
<1>2. ASSUME NEW c \in Copy
      PROVE  Occ(mainQ', Len(mainQ) - 1, c)
               = Occ(mainQ, Len(mainQ), c) - IF mainQ[1] = c THEN 1 ELSE 0
  BY <1>1, OccTail
<1> QED BY <1>1, <1>2 DEF InMain

\* Requeued deliveries stand before it.
LEMMA MainRequeue ==
  ASSUME TimedTyping, RequeueAtFront
  PROVE  \A c \in Copy : InMain(c)' = InMain(c) + UnackedOf(c)
<1>1. PICK n \in 0..Prefetch :
        \E s \in [1..n -> Copy] :
          /\ \A c \in Copy : Cardinality({i \in 1..n : s[i] = c}) = UnackedOf(c)
          /\ mainQ' = s \o mainQ
  BY DEF RequeueAtFront
<1>2. PICK s \in [1..n -> Copy] :
        /\ \A c \in Copy : Occ(s, n, c) = UnackedOf(c)
        /\ mainQ' = s \o mainQ
  BY <1>1 DEF Occ
<1>3. n \in Nat /\ s \in Seq(Copy) /\ Len(s) = n
  OBVIOUS
<1>4. /\ Len(mainQ) \in Nat /\ Len(mainQ') = n + Len(mainQ)
      /\ \A i \in 1..n + Len(mainQ) : mainQ'[i] = IF i <= n THEN s[i] ELSE mainQ[i - n]
  BY <1>2, <1>3, ConcatProperties, LenProperties DEF TimedTyping
<1>5. /\ \A i \in 1..n : mainQ'[i] = s[i]
      /\ \A i \in 1..Len(mainQ) : mainQ'[n + i] = mainQ[i]
  <2>1. ASSUME NEW i \in 1..n PROVE mainQ'[i] = s[i]
    BY <1>3, <1>4
  <2>2. ASSUME NEW i \in 1..Len(mainQ) PROVE mainQ'[n + i] = mainQ[i]
    <3>1. n + i \in 1..n + Len(mainQ) /\ ~ (n + i <= n) /\ (n + i) - n = i
      BY <1>3, <1>4
    <3> QED BY <1>4, <3>1
  <2> QED BY <2>1, <2>2
<1>6. ASSUME NEW c \in Copy
      PROVE  Occ(mainQ', n + Len(mainQ), c) = Occ(s, n, c) + Occ(mainQ, Len(mainQ), c)
  BY <1>3, <1>4, <1>5, OccConcat
<1>7. \A c \in Copy : Occ(mainQ, Len(mainQ), c) \in Nat /\ Occ(s, n, c) \in Nat
  BY <1>3, <1>4, OccType
<1> QED BY <1>2, <1>4, <1>6, <1>7 DEF InMain

\* The same for the retry queue, in which a second that passes changes no copy.
LEMMA RetryAppend ==
  ASSUME TimedTyping, NEW d \in Copy, retryQ' = Append(retryQ, [copy |-> d, waited |-> 0])
  PROVE  \A c \in Copy : InRetry(c)' = InRetry(c) + IF c = d THEN 1 ELSE 0
<1> DEFINE e == [copy |-> d, waited |-> 0]
<1>1. e \in Entry /\ e.copy = d
  BY DEF Entry
<1> HIDE DEF e
<1>2. /\ Len(retryQ) \in Nat /\ Len(retryQ') = Len(retryQ) + 1
      /\ \A i \in 1..Len(retryQ) : retryQ'[i] = retryQ[i]
      /\ retryQ'[Len(retryQ) + 1] = e
  BY <1>1, EntryParts, AppendProperties DEF e
<1>3. /\ Prefixes(Copies(retryQ), Copies(retryQ'), Len(retryQ))
      /\ Copies(retryQ')[Len(retryQ) + 1] = d
  BY <1>1, <1>2 DEF Copies, Prefixes
<1>4. ASSUME NEW c \in Copy
      PROVE  Occ(Copies(retryQ'), Len(retryQ) + 1, c)
               = Occ(Copies(retryQ), Len(retryQ), c) + IF d = c THEN 1 ELSE 0
  BY <1>2, <1>3, OccAppend
<1> QED BY <1>2, <1>4 DEF InRetry

LEMMA RetryTail ==
  ASSUME TimedTyping, retryQ # <<>>, retryQ' = Tail(retryQ)
  PROVE  \A c \in Copy :
           InRetry(c)' = InRetry(c) - IF c = Head(retryQ).copy THEN 1 ELSE 0
<1>1. /\ Len(retryQ) \in Nat /\ Len(retryQ) > 0 /\ Len(retryQ') = Len(retryQ) - 1
      /\ \A i \in 1..Len(retryQ) - 1 : retryQ'[i] = retryQ[i + 1]
      /\ Head(retryQ) = retryQ[1]
  BY EntryParts, HeadTailProperties, EmptySeq
<1>2. /\ Follows(Copies(retryQ'), Copies(retryQ), 1, Len(retryQ) - 1)
      /\ Copies(retryQ)[1] = Head(retryQ).copy
  BY <1>1 DEF Copies, Follows
<1>3. ASSUME NEW c \in Copy
      PROVE  Occ(Copies(retryQ'), Len(retryQ) - 1, c)
               = Occ(Copies(retryQ), Len(retryQ), c)
                   - IF Copies(retryQ)[1] = c THEN 1 ELSE 0
  BY <1>1, <1>2, OccTail
<1> QED BY <1>1, <1>2, <1>3 DEF InRetry

LEMMA RetryTick ==
  ASSUME TimedTyping, Tick
  PROVE  \A c \in Copy : InRetry(c)' = InRetry(c)
<1>1. /\ Len(retryQ') = Len(retryQ) /\ Len(retryQ) \in Nat
      /\ \A i \in 1..Len(retryQ) : Copies(retryQ')[i] = Copies(retryQ)[i]
  BY TickQueue, EntryParts DEF Copies
<1>2. ASSUME NEW c \in Copy
      PROVE  Occ(Copies(retryQ'), Len(retryQ), c) = Occ(Copies(retryQ), Len(retryQ), c)
  BY <1>1, OccSame
<1> QED BY <1>1, <1>2 DEF InRetry

(***************************************************************************)
(* Every step keeps the counts and the queues together                     *)
(***************************************************************************)

LEMMA BothStages == "main" \in Stage /\ "retry" \in Stage
BY DEF Stage

\* Steps that leave both queues alone, in RmqRetry and here.
LEMMA OtherSteps ==
  ASSUME TimedTyping, NEW d \in Copy,
         Mail(d) \/ Fail(d) \/ MailTransactionFails(d) \/ Acknowledge(d)
           \/ OrphanEndsTimed(d)
  PROVE  /\ UNCHANGED <<mainQ, retryQ>>
         /\ \A c \in Copy : at'["main"][c] = at["main"][c] /\ at'["retry"][c] = at["retry"][c]
<1>0. /\ at \in [Stage -> [Copy -> Nat]] /\ TypeOK
      /\ {"main", "retry", "handling", "mailed", "failed", "forwarded"} \subseteq Stage
  BY DEF TimedTyping, TypeOK, Stage, Unacked
<1>1. UNCHANGED <<mainQ, retryQ>>
  BY DEF Mail, Fail, MailTransactionFails, Acknowledge, OrphanEndsTimed
<1>2. CASE Mail(d) \/ Fail(d) \/ MailTransactionFails(d)
  <2>1. PICK from \in Stage \ {"main", "retry"}, to \in Stage \ {"main", "retry"} :
          from # to /\ Move(d, from, to)
    BY <1>0, <1>2
    DEF Mail, Fail, MailTransactionFails, SendMail, HandlerThrows, CommitFails
  <2> QED BY <1>0, <1>1, <2>1, MoveCounts
<1>3. CASE Acknowledge(d)
  <2>1. PICK from \in Stage \ {"main", "retry"} : at' = [at EXCEPT ![from][d] = @ - 1]
    BY <1>0, <1>3 DEF Acknowledge, Ack, AckForwarded, InternalError
  <2> QED BY <1>0, <1>1, <2>1
<1>4. CASE OrphanEndsTimed(d)
  BY <1>1, <1>4 DEF OrphanEndsTimed, OrphanEnds
<1> QED BY <1>2, <1>3, <1>4

\* The number of times that a copy stands in a queue is a number.
LEMMA InType ==
  ASSUME TimedTyping
  PROVE  \A c \in Copy : InMain(c) \in Nat /\ InRetry(c) \in Nat
BY OccType, EntryParts, LenProperties DEF TimedTyping, InMain, InRetry

\* The counts agree with the queues after every step of a copy,
LEMMA CopyStepMatches ==
  ASSUME TimedTyping, Matching, NEW d \in Copy, TimedStep(d)
  PROVE  Matching'
<1>0. /\ at \in [Stage -> [Copy -> Nat]] /\ TypeOK
      /\ "main" \in Stage /\ "retry" \in Stage /\ "handling" \in Stage
      /\ "failed" \in Stage /\ "forwarded" \in Stage /\ "dead" \in Stage
  BY DEF TimedTyping, TypeOK, Stage, Unacked
<1>a. \A c \in Copy : InMain(c) \in Nat /\ InRetry(c) \in Nat
  BY InType
<1>b. UNCHANGED mainQ => \A c \in Copy : InMain(c)' = InMain(c)
  BY DEF InMain
<1>c. UNCHANGED retryQ => \A c \in Copy : InRetry(c)' = InRetry(c)
  BY DEF InRetry
<1>1. CASE TakeHead(d)
  <2>1. /\ mainQ # <<>> /\ d = Head(mainQ) /\ mainQ' = Tail(mainQ)
        /\ UNCHANGED retryQ /\ Move(d, "main", "handling")
    BY <1>1 DEF TakeHead, Deliver
  <2>2. \A c \in Copy : InMain(c)' = InMain(c) - IF c = d THEN 1 ELSE 0
    BY <2>1, MainTail
  <2>3. \A c \in Copy : /\ at'["main"][c] = IF c # d THEN at["main"][c]
                                            ELSE at["main"][c] - 1
                        /\ at'["retry"][c] = at["retry"][c]
    <3>1. PICK from \in Stage, to \in Stage :
            from = "main" /\ to = "handling" /\ from # to /\ Move(d, from, to)
      BY <1>0, <2>1
    <3>2. /\ at'[from][d] = at[from][d] - 1
          /\ \A st \in Stage \ {from, to} : at'[st][d] = at[st][d]
          /\ \A st \in Stage, c \in Copy \ {d} : at'[st][c] = at[st][c]
      BY <1>0, <3>1, MoveCounts
    <3> QED BY <1>0, <3>1, <3>2
  <2> QED BY <1>a, <1>c, <2>1, <2>2, <2>3 DEF Matching
<1>2. CASE Mail(d) \/ Fail(d) \/ MailTransactionFails(d) \/ Acknowledge(d)
             \/ OrphanEndsTimed(d)
  BY <1>2, <1>b, <1>c, OtherSteps DEF Matching
<1>3. CASE ForwardTimed(d)
  <2> DEFINE e == Again(d)
  <2>1. UNCHANGED mainQ
    BY <1>3 DEF ForwardTimed
  <2>2. CASE d.tries < MaxRetries
    <3>1. /\ e \in Copy
          /\ at' = [at EXCEPT !["failed"][d] = @ - 1,
                              !["forwarded"][d] = @ + 1,
                              !["retry"][e] = IF aux THEN @ + 1 ELSE @]
          /\ retryQ' = IF aux THEN Append(retryQ, [copy |-> e, waited |-> 0])
                              ELSE retryQ
      <4>1. e \in Copy
        BY <2>2, AgainIsCopy
      <4>2. ~SendToDeadQueue(d)
        BY <2>2, CopyParts DEF SendToDeadQueue
      <4>3. SendToRetryQueue(d)
        BY <1>3, <4>2 DEF ForwardTimed, Forward
      <4>4. at' = [at EXCEPT !["failed"][d] = @ - 1,
                             !["forwarded"][d] = @ + 1,
                             !["retry"][e] = IF aux THEN @ + 1 ELSE @]
        BY <4>3 DEF SendToRetryQueue
      <4>5. retryQ' = IF aux THEN Append(retryQ, [copy |-> e, waited |-> 0])
                             ELSE retryQ
        BY <1>3, <2>2 DEF ForwardTimed
      <4> QED BY <4>1, <4>4, <4>5
    <3> HIDE DEF e
    <3>2. /\ at'["main"] = at["main"]
          /\ at'["retry"] = [at["retry"] EXCEPT ![e] = IF aux THEN @ + 1 ELSE @]
      BY <1>0, <3>1
    <3>3. CASE aux
      <4>1. \A c \in Copy : InRetry(c)' = InRetry(c) + IF c = e THEN 1 ELSE 0
        BY <3>1, <3>3, RetryAppend
      <4>2. \A c \in Copy : at'["retry"][c] = IF c = e THEN at["retry"][c] + 1
                                              ELSE at["retry"][c]
        BY <1>0, <3>1, <3>2, <3>3
      <4> QED BY <1>a, <1>b, <2>1, <3>2, <4>1, <4>2 DEF Matching
    <3>4. CASE ~aux
      <4>1. at'["retry"] = at["retry"] /\ UNCHANGED retryQ
        BY <1>0, <3>1, <3>2, <3>4
      <4> QED BY <1>b, <1>c, <2>1, <3>2, <4>1 DEF Matching
    <3> QED BY <3>3, <3>4
  <2>3. CASE ~ (d.tries < MaxRetries)
    <3>1. /\ UNCHANGED retryQ
          /\ at' = [at EXCEPT !["failed"][d] = @ - 1,
                              !["forwarded"][d] = @ + 1,
                              !["dead"][d] = IF aux THEN @ + 1 ELSE @]
      BY <1>3, <2>3 DEF ForwardTimed, Forward, SendToRetryQueue, SendToDeadQueue
    <3>2. at'["main"] = at["main"] /\ at'["retry"] = at["retry"]
      BY <1>0, <3>1
    <3> QED BY <1>b, <1>c, <2>1, <3>1, <3>2 DEF Matching
  <2> QED BY <2>2, <2>3
<1>4. CASE ExpireHead(d)
  <2>1. /\ retryQ # <<>> /\ d = Head(retryQ).copy /\ retryQ' = Tail(retryQ)
        /\ mainQ' = Append(mainQ, d) /\ Move(d, "retry", "main")
    BY <1>4 DEF ExpireHead, Due, Expire
  <2>2. \A c \in Copy : /\ InMain(c)' = InMain(c) + IF c = d THEN 1 ELSE 0
                        /\ InRetry(c)' = InRetry(c) - IF c = d THEN 1 ELSE 0
    BY <2>1, MainAppend, RetryTail
  <2>3. \A c \in Copy : /\ at'["main"][c] = IF c # d THEN at["main"][c]
                                            ELSE at["main"][c] + 1
                        /\ at'["retry"][c] = IF c # d THEN at["retry"][c]
                                             ELSE at["retry"][c] - 1
    <3>1. /\ at'["retry"][d] = at["retry"][d] - 1
          /\ at'["main"][d] = at["main"][d] + 1
          /\ \A st \in Stage, c \in Copy \ {d} : at'[st][c] = at[st][c]
      BY <1>0, <2>1, MoveCounts
    <3> QED BY <1>0, <3>1
  <2> QED BY <1>a, <2>2, <2>3 DEF Matching
<1> QED BY <1>1, <1>2, <1>3, <1>4 DEF TimedStep

\* after an emit,
LEMMA EmitMatches ==
  ASSUME TimedTyping, Matching, NEW m \in Msg, Emit(m)
  PROVE  Matching'
<1> DEFINE d == First(m)
<1>1. /\ at \in [Stage -> [Copy -> Nat]] /\ "main" \in Stage /\ "retry" \in Stage
      /\ d \in Copy
  BY FirstIsCopy DEF TimedTyping, TypeOK, Stage
<1>2. /\ mainQ' = Append(mainQ, d) /\ UNCHANGED retryQ
      /\ at' = [at EXCEPT !["main"][d] = @ + 1]
  BY DEF Emit, Publish
<1> HIDE DEF d
<1>3. \A c \in Copy : InMain(c)' = InMain(c) + IF c = d THEN 1 ELSE 0
  BY <1>1, <1>2, MainAppend
<1>4. \A c \in Copy : /\ at'["main"][c] = IF c = d THEN at["main"][c] + 1
                                          ELSE at["main"][c]
                      /\ at'["retry"][c] = at["retry"][c]
  BY <1>1, <1>2
<1>5. \A c \in Copy : InRetry(c)' = InRetry(c)
  BY <1>2 DEF InRetry
<1> QED BY <1>3, <1>4, <1>5, InType DEF Matching

\* and after the loss of a channel.
LEMMA LoseMatches ==
  ASSUME TimedTyping, Matching, LoseChannel
  PROVE  Matching'
<1>1. CASE RequeueAtFront /\ UNCHANGED retryQ /\ at' = Requeued
  <2>1. \A c \in Copy : InMain(c)' = InMain(c) + UnackedOf(c)
    BY <1>1, MainRequeue
  <2>2. \A c \in Copy : InRetry(c)' = InRetry(c)
    BY <1>1 DEF InRetry
  <2>3. \A c \in Copy : /\ at'["main"][c] = at["main"][c] + UnackedOf(c)
                        /\ at'["retry"][c] = at["retry"][c]
    BY <1>1 DEF Requeued, Stage, Unacked
  <2> QED BY <2>1, <2>2, <2>3 DEF Matching
<1>2. CASE /\ mainQ' = <<>> /\ retryQ' = <<>>
           /\ at' = [st \in Stage |-> [c \in Copy |-> 0]]
  <2>1. Len(mainQ') = 0 /\ Len(retryQ') = 0
    BY <1>2, EmptySeq
  <2>2. \A c \in Copy : InMain(c)' = 0 /\ InRetry(c)' = 0
    BY <2>1, OccOne DEF InMain, InRetry
  <2>3. \A c \in Copy : at'["main"][c] = 0 /\ at'["retry"][c] = 0
    BY <1>2, BothStages
  <2> QED BY <2>2, <2>3 DEF Matching
<1> QED BY <1>1, <1>2 DEF LoseChannel, Disconnect, ConsumerRestart, BrokerRestart

LEMMA NextMatching ==
  TimedTyping /\ Matching /\ [TimedNext]_timedVars => Matching'
<1> SUFFICES ASSUME TimedTyping, Matching, [TimedNext]_timedVars PROVE Matching'
  OBVIOUS
<1>1. ASSUME UNCHANGED <<at, mainQ, retryQ>> PROVE Matching'
  BY <1>1 DEF Matching, InMain, InRetry
<1>2. ASSUME NEW m \in Msg, CommitEmitter(m) \/ RollBackEmitter(m) PROVE Matching'
  BY <1>1, <1>2 DEF CommitEmitter, RollBackEmitter, vars
<1>3. CASE Tick
  <2>1. UNCHANGED <<at, mainQ>>
    BY <1>3 DEF Tick, vars
  <2>2. \A c \in Copy : InMain(c)' = InMain(c)
    BY <2>1 DEF InMain
  <2> QED BY <1>3, <2>1, <2>2, RetryTick DEF Matching
<1>4. CASE UNCHANGED timedVars
  BY <1>1, <1>4 DEF timedVars, vars
<1> QED
  BY <1>2, <1>3, <1>4, EmitMatches, CopyStepMatches, LoseMatches DEF TimedNext

LEMMA InitMatching == TimedInit => Matching
<1> SUFFICES ASSUME TimedInit PROVE Matching
  OBVIOUS
<1>1. Len(mainQ) = 0 /\ Len(retryQ) = 0
  BY EmptySeq DEF TimedInit
<1>2. \A c \in Copy : InMain(c) = 0 /\ InRetry(c) = 0
  BY <1>1, OccOne DEF InMain, InRetry
<1> QED BY <1>2, BothStages DEF TimedInit, Init, Matching

\* In every reachable state the main and retry queues hold as many occurrences
\* of each copy as RmqRetry counts: no requeue, republish, expiry or wiped
\* broker makes the order of the queues and the counts tell different stories.
THEOREM QueuesMatchCounts == TimedSpec => []TimedTypeOK
<1>1. TimedTyping /\ Matching => TimedTypeOK
  BY QueuesMatchIs DEF TimedTypeOK
<1> QED
  BY <1>1, InitTimedTyping, NextTimedTyping, InitMatching, NextMatching, PTL
  DEF TimedSpec

\* The queue with order, delays and transactions keeps the promise of
\* MailDelivery too, and pays for its duplicate mails: nothing that a message
\* waits for - the copies before it, its delay, the COMMIT of its sign-up - lets
\* it be closed without a mail or a reason.
THEOREM TimedImplementsDelivery ==
  /\ Durable /\ Persistent => (TimedSpec => DeliverySteps)
  /\ TimedSpec => []MailsPaidFor
BY TimedImplementsQueue, QueueImplementsDelivery, DuplicatesArePaidFor, Zenon
=============================================================================
