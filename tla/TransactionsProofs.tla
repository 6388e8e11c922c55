------------------------- MODULE TransactionsProofs -------------------------
(***************************************************************************)
(* Proofs of TypeOK, HistoryIsTrue, JobClearsHistory, SilentOnlyBesideJob  *)
(* and DeadlockNeedsHaste, for any number of slots, users and providers.   *)
(*                                                                         *)
(* Slot(t) says what the variables of one slot have to do with each other. *)
(* An action changes the slot of one transaction, so its proof is about    *)
(* that slot.  Between slots stands Compatible, the meaning of the locks.  *)
(* Ladder(t), at the end, is the order in which a slot locks its rows.     *)
(***************************************************************************)
EXTENDS Transactions, FiniteSetTheorems, WellFoundedInduction, TLAPS

-----------------------------------------------------------------------------
(* The steps of the transactions                                            *)

LEMMA StepsOfJob == Steps("anonymise") = <<"users", "all", "events">>
BY DEF Steps, AnonymiseSteps

LEMMA JobSteps ==
  ASSUME NEW k, k = "anonymise"
  PROVE  /\ Len(Steps(k)) = 3
         /\ Steps(k)[1] = "users" /\ Steps(k)[2] = "all" /\ Steps(k)[3] = "events"
BY StepsOfJob

LEMMA StepsOfVerify == Steps("verify") = <<"own", "others", "users", "log">>
BY DEF Steps, ConfirmSteps

LEMMA StepsOfIdp == Steps("idp") = <<"users", "reload">>
BY DEF Steps, IdpSteps

LEMMA StepsOfReopen == Steps("idpReopen") = <<"log", "users", "reload">>
BY DEF Steps, IdpReopenSteps

LEMMA StepsLength == ASSUME NEW k \in Kind PROVE Len(Steps(k)) \in 1..4
BY DEF Kind, Mails, Steps, SignUpSteps, AddLocalSteps, SignInSteps, SignOutSteps,
       ConfirmSteps, ResetSteps, CloseSteps, IdpSteps, IdpReopenSteps,
       VerifyMailSteps, MailSteps, AnonymiseSteps

\* The rows that the step at p locks.
Here(c, p) == IF p > Len(Steps(c.kind)) THEN {} ELSE Locked(c, Steps(c.kind)[p])

UserRow(u) == <<"users", u>>

ShareOf(c) == [row |-> UserRow(c.user), mode |-> Share]

LEMMA UserRowIsRow == ASSUME NEW u \in User PROVE UserRow(u) \in Row
BY DEF UserRow, Row

LEMMA CallParts ==
  ASSUME NEW c \in Call
  PROVE  c.kind \in Kind /\ c.user \in User /\ c.own \in Provider
BY DEF Call

LEMMA LockedRows ==
  ASSUME NEW c \in Call, NEW s
  PROVE  /\ Locked(c, s) \subseteq Row
         /\ \A r \in Locked(c, s) : r[2] = c.user
         /\ s = "users" => Locked(c, s) = {UserRow(c.user)}
         /\ s \in {"log", "reload", "events"} => Locked(c, s) = {}
BY DEF Locked, Call, Row, UserRow, Provider

LEMMA HereRows ==
  ASSUME NEW c \in Call, NEW p
  PROVE  Here(c, p) \subseteq Row /\ \A r \in Here(c, p) : r[2] = c.user
BY LockedRows DEF Here

\* The modes of a statement, whoever is anonymised.
AllModes(c, s) ==
  CASE s = "refer"                                             -> {Share}
    [] s = "users" /\ c.kind \in {"anonymise", "verify", "idp", "idpReopen"}
                                                               -> {Update, Strong}
    [] OTHER                                                   -> {Update}

LEMMA ModesAreAll == ASSUME NEW c, NEW s PROVE Modes(c, s) \subseteq AllModes(c, s)
BY DEF Modes, AllModes

LEMMA ModesAreModes == ASSUME NEW c, NEW s PROVE AllModes(c, s) \subseteq {1, 2, 3}
BY DEF AllModes, Share, Update, Strong

\* Only anonymisation, verification and sign-in through a provider may take
\* the strongest lock, at their step "users".
LEMMA StrongModes ==
  ASSUME NEW c \in Call, NEW s, Strong \in AllModes(c, s)
  PROVE  s = "users" /\ c.kind \in {"anonymise", "verify", "idp", "idpReopen"}
BY DEF AllModes, Share, Update, Strong

LEMMA JobModes ==
  ASSUME NEW c \in Call, c.kind = "anonymise"
  PROVE  AllModes(c, "users") = {Update, Strong}
BY DEF AllModes

-----------------------------------------------------------------------------
(* The invariant                                                            *)

Typing ==
  /\ status \in [Tx -> Status]
  /\ call \in [Tx -> Call \cup {NoCall}]
  /\ pc \in [Tx -> 1..5]
  /\ left \in [Tx -> SUBSET Row]
  /\ ask \in [Tx -> SUBSET [row : Row, mode : Mode]]
  /\ lock \in [Tx -> [Row -> Mode]]
  /\ log \in [Tx -> {"none", "emitted", "inserting", "written", "late", "lost"}]
  /\ batch \in [Tx -> SUBSET User]
  /\ rest \in [Tx -> SUBSET User]
  /\ rewritten \in [Tx -> SUBSET Tx]
  /\ history \subseteq Tx
  /\ after \subseteq Tx

\* A slot that is not open has none of this yet.
Fresh(st, p, l, a, g, b, r, w) ==
  st \in {"idle", "queued"} =>
    p = 1 /\ l = {} /\ a = {} /\ g = "none" /\ b = {} /\ r = {} /\ w = {}

Called(st, c, p) == st # "idle" => c \in Call /\ p \in 1..(Len(Steps(c.kind)) + 1)

\* Who waits for a lock waits in its current statement or in the history INSERT.
Asking(st, c, p, l, a, g) ==
  /\ a # {} => st = "open"
  /\ st = "open" => l \subseteq Here(c, p)
  /\ a # {} /\ g # "inserting" =>
       /\ p <= Len(Steps(c.kind))
       /\ \E r \in Here(c, p) \ l : \E m \in AllModes(c, Steps(c.kind)[p]) :
            a = {[row |-> r, mode |-> m]}

Locking(st, k) == st # "open" => k = Unlocked

\* A history row that is not committed has the lock of its foreign key.
Logging(st, c, a, k, g) ==
  /\ g = "late" => st = "committed"
  /\ g = "inserting" => a = {ShareOf(c)}
  /\ st = "open" /\ g = "written" => k[UserRow(c.user)] # 0

Working(st, c, g, b, r) ==
  st # "idle" =>
    /\ c.kind = "anonymise" => g = "none"
    /\ c.kind # "anonymise" => b = {} /\ r = {}
    /\ c.kind = "anonymise" /\ st = "open" => c.user \in b \ r /\ r \subseteq b

\* The job locks nobody outside its batch, and has locked every user it has come
\* to.
Covering(st, c, p, l, a, k, b, r) ==
  st = "open" /\ c.kind = "anonymise" =>
    /\ \A v \in b \ r : v # c.user \/ p > 1 => k[UserRow(v)] \in {Update, Strong}
    /\ p = 1 => l = {UserRow(c.user)} \/ a # {} \/ k[UserRow(c.user)] \in {Update, Strong}
    /\ \A x \in Row : k[x] # 0 => x[2] \in b \ r

\* After its strongest lock a request locks nothing more.
Past(kind, p) == \/ kind = "verify" /\ p >= 3
                 \/ kind = "idp" /\ p >= 1
                 \/ kind = "idpReopen" /\ p >= 2

Stronger(st, c, p, l, k) ==
  st = "open" /\ c.kind # "anonymise" =>
    \A v \in User : k[UserRow(v)] = Strong => v = c.user /\ l = {} /\ Past(c.kind, p)

SlotIs(st, c, p, l, a, k, g, b, r, w) ==
  /\ Fresh(st, p, l, a, g, b, r, w)
  /\ Called(st, c, p)
  /\ Asking(st, c, p, l, a, g)
  /\ Locking(st, k)
  /\ Logging(st, c, a, k, g)
  /\ Working(st, c, g, b, r)
  /\ Covering(st, c, p, l, a, k, b, r)
  /\ Stronger(st, c, p, l, k)

Slot(t) == SlotIs(status[t], call[t], pc[t], left[t], ask[t], lock[t], log[t],
                  batch[t], rest[t], rewritten[t])

Slots == \A t \in Tx : Slot(t)

Compatible ==
  \A t, b \in Tx, r \in Row :
    t # b /\ lock[t][r] # 0 /\ lock[b][r] # 0 => lock[t][r] + lock[b][r] < 4

\* The users that an open job is done with.
Done(j) == {v \in batch[j] \ rest[j] : v # call[j].user \/ pc[j] > 3}

IsJob(j) == status[j] = "open" /\ call[j].kind = "anonymise"

\* A job has the strongest lock on a user that nobody has anonymised, and asks
\* for no other.
JobLocks ==
  \A j \in Tx : IsJob(j) => \A v \in User \ Anonymised :
    /\ lock[j][UserRow(v)] \in {0, Strong}
    /\ \A a \in ask[j] : a.row = UserRow(v) => a.mode = Strong

\* What an open job has rewritten is all there is of the users it is done with,
\* unless another job was before it.
DoneIsRewritten ==
  \A j \in Tx : IsJob(j) =>
    \A t \in history : call[t].user \in Done(j) \ Anonymised => t \in rewritten[j]

\* A history row of an anonymised user that is not committed was inserted after
\* the anonymisation.
WrittenAfter ==
  \A t \in Tx :
    status[t] = "open" /\ log[t] = "written" /\ call[t].user \in Anonymised
      => t \in after

Cleaning == DoneIsRewritten /\ WrittenAfter /\ JobClearsHistory

\* The transactions that have a connection of a process.
Users(p) == {t \in Tx : status[t] \in {"open", "aborted"} /\ call[t].home = p}

PoolsFit == \A p \in Process : Used(p) <= PoolSize

IInv == /\ Typing /\ Slots /\ Compatible /\ PoolsFit
        /\ HistoryIsTrue /\ JobLocks /\ Cleaning /\ SilentOnlyBesideJob

-----------------------------------------------------------------------------
(* Typing                                                                   *)

LEMMA UnlockedIsTyped == Unlocked \in [Row -> Mode]
BY DEF Unlocked, Mode

LEMMA InitTyping == Init => Typing
BY UnlockedIsTyped DEF Init, Typing, Status, Ended

LEMMA GoOnTyping ==
  ASSUME Typing, NEW t \in Tx, status[t] # "idle", Slot(t), ~AtEnd(t), GoOn(t)
  PROVE  /\ pc' \in [Tx -> 1..5]
         /\ left' \in [Tx -> SUBSET Row]
         /\ left'[t] = Here(call[t], pc[t] + 1)
         /\ pc'[t] = pc[t] + 1
         /\ pc[t] + 1 \in 1..(Len(Steps(call[t].kind)) + 1)
         /\ \A s \in Tx \ {t} : pc'[s] = pc[s] /\ left'[s] = left[s]
<1> DEFINE n == Len(Steps(call[t].kind))
           h == Here(call[t], pc[t] + 1)
<1>1. call[t] \in Call /\ pc[t] \in 1..(n + 1)
  BY DEF Slot, SlotIs, Called
<1>2. n \in 1..4
  BY <1>1, StepsLength, CallParts
<1>a. ~(pc[t] > n)
  BY DEF AtEnd
<1>4. (IF pc[t] < n THEN Locked(call[t], Steps(call[t].kind)[pc[t] + 1]) ELSE {}) = h
  <2>1. CASE pc[t] < n
    <3>1. ~(pc[t] + 1 > n)
      <4> HIDE DEF n
      <4> QED BY <1>1, <1>2, <2>1
    <3> QED BY <2>1, <3>1 DEF Here
  <2>2. CASE ~(pc[t] < n)
    <3>1. pc[t] + 1 > n
      <4> HIDE DEF n
      <4> QED BY <1>1, <1>2, <2>2
    <3> QED BY <2>2, <3>1 DEF Here
  <2> QED BY <2>1, <2>2
<1>5. h \subseteq Row
  BY <1>1, HereRows
<1>6. left' = [left EXCEPT ![t] = h]
  BY <1>4 DEF GoOn
<1>7. pc' = [pc EXCEPT ![t] = pc[t] + 1]
  BY DEF GoOn
<1> HIDE DEF n, h
<1>3. pc[t] <= n /\ pc[t] + 1 \in 1..5 /\ pc[t] + 1 \in 1..(n + 1)
  BY <1>1, <1>2, <1>a
<1>8. pc' \in [Tx -> 1..5] /\ pc'[t] = pc[t] + 1 /\ \A s \in Tx \ {t} : pc'[s] = pc[s]
  BY <1>3, <1>7 DEF Typing
<1>9. left' \in [Tx -> SUBSET Row] /\ left'[t] = h /\ \A s \in Tx \ {t} : left'[s] = left[s]
  BY <1>5, <1>6 DEF Typing
<1> QED
  BY <1>3, <1>8, <1>9 DEF n, h

-----------------------------------------------------------------------------
(* What the actions make of one slot                                        *)

LEMMA PastLocksNothing ==
  ASSUME NEW c \in Call, NEW p \in 1..5, Past(c.kind, p)
  PROVE  Here(c, p + 1) = {} /\ Past(c.kind, p + 1)
<1> DEFINE n == Len(Steps(c.kind))
           e == Steps(c.kind)[p + 1]
<1>1. Past(c.kind, p + 1)
  BY DEF Past
<1>2. p + 1 > n \/ e \in {"log", "reload"}
  <2>1. CASE c.kind = "verify"
    <3>1. p \in 3..5
      BY <2>1 DEF Past
    <3>2. n = 4 /\ Steps(c.kind)[4] = "log"
      BY <2>1, StepsOfVerify
    <3> QED BY <3>1, <3>2
  <2>2. CASE c.kind = "idp"
    <3>1. n = 2 /\ Steps(c.kind)[2] = "reload"
      BY <2>2, StepsOfIdp
    <3> QED BY <3>1
  <2>3. CASE c.kind = "idpReopen"
    <3>1. p \in 2..5
      BY <2>3 DEF Past
    <3>2. n = 3 /\ Steps(c.kind)[3] = "reload"
      BY <2>3, StepsOfReopen
    <3> QED BY <3>1, <3>2
  <2> QED BY <2>1, <2>2, <2>3 DEF Past
<1>3. Locked(c, e) = {} \/ p + 1 > n
  <2> HIDE DEF n, e
  <2> QED BY <1>2, LockedRows
<1> QED BY <1>1, <1>3 DEF Here

LEMMA PastLocksUser ==
  ASSUME NEW c \in Call, NEW p \in 1..5, Past(c.kind, p)
  PROVE  Here(c, p) \subseteq {UserRow(c.user)}
<1> DEFINE n == Len(Steps(c.kind))
           e == Steps(c.kind)[p]
<1>1. p > n \/ e \in {"users", "log", "reload"}
  <2>1. CASE c.kind = "verify"
    <3>1. p \in 3..5
      BY <2>1 DEF Past
    <3>2. n = 4 /\ Steps(c.kind)[3] = "users" /\ Steps(c.kind)[4] = "log"
      BY <2>1, StepsOfVerify
    <3> QED BY <3>1, <3>2
  <2>2. CASE c.kind = "idp"
    <3>1. n = 2 /\ Steps(c.kind)[1] = "users" /\ Steps(c.kind)[2] = "reload"
      BY <2>2, StepsOfIdp
    <3> QED BY <3>1
  <2>3. CASE c.kind = "idpReopen"
    <3>1. p \in 2..5
      BY <2>3 DEF Past
    <3>2. n = 3 /\ Steps(c.kind)[2] = "users" /\ Steps(c.kind)[3] = "reload"
      BY <2>3, StepsOfReopen
    <3> QED BY <3>1, <3>2
  <2> QED BY <2>1, <2>2, <2>3 DEF Past
<1>2. p > n \/ Locked(c, e) \subseteq {UserRow(c.user)}
  <2> HIDE DEF n, e
  <2> QED BY <1>1, LockedRows
<1> QED BY <1>2 DEF Here

\* The next step, with or without an event emitted.
LEMMA Advance ==
  ASSUME NEW st \in {"open", "aborted"}, NEW c \in Call, NEW p \in 1..4,
         NEW l, NEW a, NEW k, NEW g, NEW b, NEW r, NEW w, NEW g2, NEW w2,
         SlotIs(st, c, p, l, a, k, g, b, r, w),
         p <= Len(Steps(c.kind)),
         st = "open" => l = {},
         a = {} \/ g = "inserting",
         g2 = g \/ (g2 = "emitted" /\ c.kind # "anonymise" /\ a = {})
  PROVE  SlotIs(st, c, p + 1, Here(c, p + 1), a, k, g2, b, r, w2)
<1> DEFINE h == Here(c, p + 1)
<1>1. Fresh(st, p + 1, h, a, g2, b, r, w2)
  BY DEF Fresh
<1>2. Called(st, c, p + 1)
  <2>1. Len(Steps(c.kind)) \in 1..4
    BY StepsLength, CallParts
  <2> QED BY <2>1 DEF Called
<1>3. Asking(st, c, p + 1, h, a, g2)
  BY DEF SlotIs, Asking
<1>4. Locking(st, k)
  BY DEF SlotIs
<1>5. Logging(st, c, a, k, g2)
  BY DEF SlotIs, Logging
<1>6. Working(st, c, g2, b, r)
  BY DEF SlotIs, Working
<1>7. Covering(st, c, p + 1, h, a, k, b, r)
  <2> SUFFICES ASSUME st = "open", c.kind = "anonymise"
               PROVE  Covering(st, c, p + 1, h, a, k, b, r)
    BY DEF Covering
  <2>1. a = {}
    BY DEF SlotIs, Working
  <2>5. /\ \A v \in b \ r : v # c.user \/ p > 1 => k[UserRow(v)] \in {Update, Strong}
        /\ p = 1 => l = {UserRow(c.user)} \/ a # {} \/ k[UserRow(c.user)] \in {Update, Strong}
    BY DEF SlotIs, Covering
  <2>2. \A v \in b \ r : k[UserRow(v)] \in {Update, Strong}
    <3>1. CASE p = 1
      BY <2>1, <2>5, <3>1
    <3>2. CASE p > 1
      BY <2>5, <3>2
    <3> QED BY <3>1, <3>2
  <2>3. \A x \in Row : k[x] # 0 => x[2] \in b \ r
    BY DEF SlotIs, Covering
  <2>4. p + 1 # 1
    OBVIOUS
  <2> QED BY <2>2, <2>3, <2>4 DEF Covering
<1>8. Stronger(st, c, p + 1, h, k)
  BY PastLocksNothing DEF SlotIs, Stronger
<1> QED BY <1>1, <1>2, <1>3, <1>4, <1>5, <1>6, <1>7, <1>8 DEF SlotIs

\* The end of a transaction, or its loss of everything.
LEMMA EndedSlot ==
  ASSUME NEW st \in {"open", "aborted", "queued"}, NEW c, NEW p, NEW l, NEW l2,
         NEW a, NEW k, NEW g, NEW b, NEW r, NEW w,
         NEW st2 \in Ended \cup {"aborted"}, NEW g2,
         SlotIs(st, c, p, l, a, k, g, b, r, w),
         g2 = "late" => st2 = "committed",
         g2 # "inserting",
         c.kind = "anonymise" => g2 = "none"
  PROVE  SlotIs(st2, c, p, l2, {}, Unlocked, g2, b, r, w)
BY DEF SlotIs, Fresh, Called, Asking, Locking, Logging, Working, Covering, Stronger, Ended

LEMMA QueuedSlot ==
  ASSUME NEW c \in Call, NEW c0, NEW p, NEW l, NEW a, NEW k, NEW g, NEW b, NEW r, NEW w,
         SlotIs("idle", c0, p, l, a, k, g, b, r, w)
  PROVE  SlotIs("queued", c, p, l, a, k, g, b, r, w)
<1>1. Len(Steps(c.kind)) \in 1..4
  BY StepsLength, CallParts
<1> QED
  BY <1>1 DEF SlotIs, Fresh, Called, Asking, Locking, Logging, Working, Covering, Stronger

-----------------------------------------------------------------------------
(* Every action keeps Typing and Slots                                      *)

\* Nothing changes in the other slots.
Frame(t) ==
  \A s \in Tx \ {t} :
    /\ status'[s] = status[s] /\ call'[s] = call[s] /\ pc'[s] = pc[s]
    /\ left'[s] = left[s] /\ ask'[s] = ask[s] /\ lock'[s] = lock[s]
    /\ log'[s] = log[s] /\ batch'[s] = batch[s] /\ rest'[s] = rest[s]
    /\ rewritten'[s] = rewritten[s]

Keeps(t) == Typing' /\ Frame(t) /\ Slot(t)'

LEMMA SlotsKept == ASSUME Slots, NEW t \in Tx, Keeps(t) PROVE Slots'
<1> SUFFICES ASSUME NEW s \in Tx PROVE Slot(s)'
  BY DEF Slots
<1>1. CASE s = t
  BY <1>1 DEF Keeps
<1>2. CASE s # t
  <2>1. Slot(s)
    BY DEF Slots
  <2> QED BY <1>2, <2>1 DEF Keeps, Frame, Slot
<1> QED BY <1>1, <1>2

\* A transaction that runs.
LEMMA OpenSlot ==
  ASSUME Typing, Slots, NEW t \in Tx, status[t] # "idle"
  PROVE  /\ call[t] \in Call /\ pc[t] \in 1..5
         /\ Len(Steps(call[t].kind)) \in 1..4
         /\ SlotIs(status[t], call[t], pc[t], left[t], ask[t], lock[t], log[t],
                   batch[t], rest[t], rewritten[t])
<1>1. SlotIs(status[t], call[t], pc[t], left[t], ask[t], lock[t], log[t],
             batch[t], rest[t], rewritten[t])
  BY DEF Slots, Slot
<1>2. call[t] \in Call
  BY <1>1 DEF SlotIs, Called
<1> QED BY <1>1, <1>2, StepsLength, CallParts DEF Typing

LEMMA BeginKeeps ==
  ASSUME Typing, Slots, NEW t \in Tx, NEW c \in Call, Begin(t, c)
  PROVE  Keeps(t)
<1>1. /\ status' = [status EXCEPT ![t] = "queued"]
      /\ call' = [call EXCEPT ![t] = c]
      /\ UNCHANGED <<pc, left, ask, lock, log, batch, rest, rewritten, history, after>>
  BY DEF Begin
<1>2. Typing'
  BY <1>1 DEF Typing, Status
<1>3. Frame(t) /\ status'[t] = "queued" /\ call'[t] = c
  BY <1>1 DEF Typing, Frame
<1>4. SlotIs("idle", call[t], pc[t], left[t], ask[t], lock[t], log[t],
             batch[t], rest[t], rewritten[t])
  BY DEF Begin, Slots, Slot
<1>5. SlotIs("queued", c, pc[t], left[t], ask[t], lock[t], log[t],
             batch[t], rest[t], rewritten[t])
  BY <1>4, QueuedSlot
<1> QED BY <1>1, <1>2, <1>3, <1>5 DEF Keeps, Slot

LEMMA ConnectKeeps ==
  ASSUME Typing, Slots, NEW t \in Tx, Connect(t)
  PROVE  Keeps(t)
<1> DEFINE h == Locked(call[t], Step(t))
<1>1. /\ status' = [status EXCEPT ![t] = "open"]
      /\ left' = [left EXCEPT ![t] = h]
      /\ UNCHANGED <<call, pc, ask, lock, log, batch, rest, rewritten, history, after>>
  BY DEF Connect
<1>2. /\ call[t] \in Call /\ Len(Steps(call[t].kind)) \in 1..4
      /\ SlotIs("queued", call[t], pc[t], left[t], ask[t], lock[t], log[t],
                batch[t], rest[t], rewritten[t])
  BY OpenSlot DEF Connect
<1>3. pc[t] = 1 /\ ask[t] = {} /\ log[t] = "none" /\ lock[t] = Unlocked
      /\ call[t].kind # "anonymise"
  BY <1>2 DEF SlotIs, Fresh, Locking, Connect
<1>4. h = Here(call[t], 1)
  BY <1>2, <1>3 DEF Here, Step
<1>5. h \subseteq Row
  BY <1>2, LockedRows
<1> HIDE DEF h
<1>6. Typing'
  BY <1>1, <1>5 DEF Typing, Status
<1>7. Frame(t) /\ status'[t] = "open" /\ left'[t] = h
  BY <1>1 DEF Typing, Frame
<1>8. \A u \in User : Unlocked[UserRow(u)] = 0
  BY UserRowIsRow DEF Unlocked
<1>9. SlotIs("open", call[t], 1, h, {}, Unlocked, "none", batch[t], rest[t], rewritten[t])
  BY <1>2, <1>3, <1>4, <1>8
     DEF SlotIs, Fresh, Called, Asking, Locking, Logging, Working, Covering, Stronger,
         Update, Strong
<1> QED BY <1>1, <1>3, <1>6, <1>7, <1>9 DEF Keeps, Slot

LEMMA CallWith ==
  ASSUME NEW c \in Call, NEW u \in User
  PROVE  [c EXCEPT !.user = u] \in Call /\ [c EXCEPT !.user = u].user = u
         /\ [c EXCEPT !.user = u].kind = c.kind
BY DEF Call

LEMMA NextOfIsIn == ASSUME NEW S, NEW u \in NextOf(S) PROVE u \in S
BY DEF NextOf

LEMMA FindBatchKeeps ==
  ASSUME Typing, Slots, NEW t \in Tx, FindBatch(t)
  PROVE  Keeps(t)
<1>1. /\ call[t] \in Call
      /\ SlotIs("queued", call[t], pc[t], left[t], ask[t], lock[t], log[t],
                batch[t], rest[t], rewritten[t])
  BY OpenSlot DEF FindBatch
<1>2. /\ pc[t] = 1 /\ left[t] = {} /\ ask[t] = {} /\ log[t] = "none" /\ lock[t] = Unlocked
      /\ batch[t] = {} /\ rest[t] = {} /\ call[t].kind = "anonymise"
  BY <1>1 DEF SlotIs, Fresh, Locking, FindBatch
<1>3. CASE status' = [status EXCEPT ![t] = "committed"]
           /\ UNCHANGED <<call, left, batch, rest>>
  <2>1. /\ status' = [status EXCEPT ![t] = "committed"]
        /\ UNCHANGED <<call, left, batch, rest, pc, ask, lock, log, rewritten, history, after>>
    BY <1>3 DEF FindBatch
  <2>2. Typing' /\ Frame(t) /\ status'[t] = "committed"
    BY <2>1 DEF Typing, Frame, Status, Ended
  <2>3. SlotIs("committed", call[t], pc[t], left[t], {}, Unlocked, "none",
               batch[t], rest[t], rewritten[t])
    BY <1>1, EndedSlot DEF Ended
  <2> QED BY <1>2, <2>1, <2>2, <2>3 DEF Keeps, Slot
<1>4. ASSUME NEW S \in SUBSET (User \ Anonymised), NEW u \in NextOf(S),
             status' = [status EXCEPT ![t] = "open"],
             call' = [call EXCEPT ![t].user = u],
             left' = [left EXCEPT ![t] = Locked([call[t] EXCEPT !.user = u], Step(t))],
             batch' = [batch EXCEPT ![t] = S],
             rest' = [rest EXCEPT ![t] = S \ {u}]
      PROVE  Keeps(t)
  <2> DEFINE c == [call[t] EXCEPT !.user = u]
             h == {UserRow(u)}
  <2>1. u \in User /\ u \in S /\ S \subseteq User
    BY NextOfIsIn
  <2>2. c \in Call /\ c.user = u /\ c.kind = "anonymise"
    BY <1>1, <1>2, <2>1, CallWith
  <2>3. Step(t) = "users" /\ Len(Steps(c.kind)) = 3 /\ Steps(c.kind)[1] = "users"
    BY <1>2, <2>2, StepsOfJob DEF Step
  <2>4. left' = [left EXCEPT ![t] = Locked(c, "users")]
    BY <1>4, <2>3
  <2>5. call' = [call EXCEPT ![t] = c]
    BY <1>1, <1>4 DEF Typing
  <2> HIDE DEF c
  <2>6. Locked(c, "users") = h
    BY <2>2, LockedRows
  <2>7. Here(c, 1) = h /\ h \subseteq Row
    BY <2>1, <2>3, <2>6, UserRowIsRow DEF Here
  <2>8. left' = [left EXCEPT ![t] = h]
    BY <2>4, <2>6
  <2> HIDE DEF h
  <2>9. UNCHANGED <<pc, ask, lock, log, rewritten, history, after>>
    BY DEF FindBatch
  <2>10. Typing'
    <3>1. batch' \in [Tx -> SUBSET User] /\ rest' \in [Tx -> SUBSET User]
      BY <1>4, <2>1 DEF Typing
    <3>2. call' \in [Tx -> Call \cup {NoCall}] /\ left' \in [Tx -> SUBSET Row]
      BY <2>2, <2>5, <2>7, <2>8 DEF Typing
    <3>3. status' \in [Tx -> Status]
      BY <1>4 DEF Typing, Status
    <3> QED BY <2>9, <3>1, <3>2, <3>3 DEF Typing
  <2>11. /\ Frame(t) /\ status'[t] = "open" /\ call'[t] = c /\ left'[t] = h
         /\ batch'[t] = S /\ rest'[t] = S \ {u}
    BY <1>4, <2>5, <2>8, <2>9 DEF Typing, Frame
  <2>12. \A r \in Row : Unlocked[r] = 0
    BY DEF Unlocked
  <2>13. SlotIs("open", c, 1, h, {}, Unlocked, "none", S, S \ {u}, rewritten[t])
    <3>1. S \ (S \ {u}) = {u}
      BY <2>1
    <3>2. h = {UserRow(c.user)}
      BY <2>2 DEF h
    <3>3. Called("open", c, 1) /\ Asking("open", c, 1, h, {}, "none")
      BY <2>2, <2>3, <2>7 DEF Called, Asking
    <3>4. Covering("open", c, 1, h, {}, Unlocked, S, S \ {u})
      BY <2>2, <2>12, <3>1, <3>2 DEF Covering
    <3>5. Working("open", c, "none", S, S \ {u})
      BY <2>1, <2>2 DEF Working
    <3> QED BY <2>2, <3>3, <3>4, <3>5 DEF SlotIs, Fresh, Locking, Logging, Stronger
  <2> QED BY <1>2, <2>9, <2>10, <2>11, <2>13 DEF Keeps, Slot
<1> QED BY <1>3, <1>4 DEF FindBatch

LEMMA AskKeeps ==
  ASSUME Typing, Slots, NEW t \in Tx, Ask(t)
  PROVE  Keeps(t)
<1>1. PICK r \in left[t] : \E m \in Modes(call[t], Step(t)) :
        /\ ask' = [ask EXCEPT ![t] = {[row |-> r, mode |-> m]}]
        /\ left' = [left EXCEPT ![t] = @ \ {r}]
  BY DEF Ask
<1>2. PICK m \in Modes(call[t], Step(t)) :
        /\ ask' = [ask EXCEPT ![t] = {[row |-> r, mode |-> m]}]
        /\ left' = [left EXCEPT ![t] = @ \ {r}]
  BY <1>1
<1>3. UNCHANGED <<status, call, pc, lock, log, batch, rest, rewritten, history, after>>
      /\ status[t] = "open" /\ ask[t] = {}
  BY DEF Ask
<1>4. m \in Mode /\ r \in Row
  BY ModesAreAll, ModesAreModes, <1>3 DEF Mode, Typing
<1> DEFINE a == {[row |-> r, mode |-> m]}
           l == left[t] \ {r}
<1>5. ask' = [ask EXCEPT ![t] = a] /\ left' = [left EXCEPT ![t] = l]
  BY <1>2
<1>6. a \subseteq [row : Row, mode : Mode] /\ a # {}
  BY <1>4
<1>7. SlotIs("open", call[t], pc[t], left[t], {}, lock[t], log[t],
             batch[t], rest[t], rewritten[t])
  BY OpenSlot, <1>3
<1>8. r \in Here(call[t], pc[t])
  BY <1>7 DEF SlotIs, Asking
<1>9. pc[t] <= Len(Steps(call[t].kind))
  <2>1. pc[t] \in 1..5 /\ Len(Steps(call[t].kind)) \in 1..4
    BY OpenSlot, <1>3
  <2>2. ~(pc[t] > Len(Steps(call[t].kind)))
    BY <1>8 DEF Here
  <2> QED BY <2>1, <2>2
<1>10. Asking("open", call[t], pc[t], l, a, log[t])
  <2>1. r \in Here(call[t], pc[t]) \ l /\ m \in AllModes(call[t], Steps(call[t].kind)[pc[t]])
    BY <1>8, ModesAreAll DEF Step
  <2>2. l \subseteq Here(call[t], pc[t])
    BY <1>7 DEF SlotIs, Asking
  <2> QED BY <1>9, <2>1, <2>2 DEF Asking
<1>11. Logging("open", call[t], a, lock[t], log[t])
  <2>1. log[t] # "inserting"
    BY <1>7 DEF SlotIs, Logging
  <2> QED BY <1>7, <2>1 DEF SlotIs, Logging
<1> HIDE DEF a
<1>12. Covering("open", call[t], pc[t], l, a, lock[t], batch[t], rest[t])
  BY <1>6, <1>7 DEF SlotIs, Covering
<1>13. Stronger("open", call[t], pc[t], l, lock[t])
  BY <1>7 DEF SlotIs, Stronger
<1> HIDE DEF l
<1>14. SlotIs("open", call[t], pc[t], l, a, lock[t], log[t],
             batch[t], rest[t], rewritten[t])
  BY <1>7, <1>10, <1>11, <1>12, <1>13 DEF SlotIs, Fresh
<1>15. Typing'
  BY <1>3, <1>5, <1>6 DEF Typing, l
<1>16. Frame(t) /\ ask'[t] = a /\ left'[t] = l
  BY <1>3, <1>5 DEF Typing, Frame
<1> QED BY <1>3, <1>14, <1>15, <1>16 DEF Keeps, Slot

\* What a granted lock makes of the locks of a slot.
Raised(k, a) == [k EXCEPT ![a.row] = IF @ < a.mode THEN a.mode ELSE @]

LEMMA RaisedLocks ==
  ASSUME NEW k \in [Row -> Mode], NEW a \in [row : Row, mode : Mode]
  PROVE  /\ Raised(k, a) \in [Row -> Mode]
         /\ Raised(k, a)[a.row] >= a.mode
         /\ \A r \in Row : Raised(k, a)[r] >= k[r]
         /\ \A r \in Row : r # a.row => Raised(k, a)[r] = k[r]
         /\ Raised(k, a)[a.row] \in {k[a.row], a.mode}
BY DEF Raised, Mode

LEMMA ShareParts ==
  ASSUME NEW c \in Call
  PROVE  /\ ShareOf(c) \in [row : Row, mode : Mode]
         /\ ShareOf(c).row = UserRow(c.user) /\ ShareOf(c).mode = 1
BY CallParts, UserRowIsRow DEF ShareOf, Share, Mode

LEMMA InsertedSlot ==
  ASSUME NEW c \in Call, NEW p, NEW l, NEW k \in [Row -> Mode], NEW b, NEW r, NEW w,
         NEW a, SlotIs("open", c, p, l, {a}, k, "inserting", b, r, w)
  PROVE  SlotIs("open", c, p, l, {}, Raised(k, a), "written", b, r, w)
<1> DEFINE k2 == Raised(k, a)
<1>1. a = ShareOf(c)
  BY DEF SlotIs, Logging
<1>2. a \in [row : Row, mode : Mode] /\ a.row = UserRow(c.user) /\ a.mode = 1
  BY <1>1, ShareParts
<1>3. /\ \A x \in Row : k2[x] \in Mode /\ (x # a.row => k2[x] = k[x])
      /\ k2[a.row] >= 1 /\ k2[a.row] \in {k[a.row], 1}
  BY <1>2, RaisedLocks
<1> HIDE DEF k2
<1>4. c.kind # "anonymise"
  BY DEF SlotIs, Working
<1>5. Logging("open", c, {}, k2, "written")
  BY <1>2, <1>3 DEF Logging
<1>6. Stronger("open", c, p, l, k2)
  <2> SUFFICES ASSUME NEW v \in User, k2[UserRow(v)] = Strong
               PROVE  v = c.user /\ l = {} /\ Past(c.kind, p)
    BY DEF Stronger
  <2>1. k[UserRow(v)] = Strong
    BY <1>2, <1>3, UserRowIsRow DEF Strong
  <2> QED BY <1>4, <2>1 DEF SlotIs, Stronger
<1> QED BY <1>4, <1>5, <1>6
        DEF SlotIs, Fresh, Called, Asking, Locking, Working, Covering, k2

LEMMA LockedSlot ==
  ASSUME NEW c \in Call, NEW p \in 1..5, NEW l, NEW k \in [Row -> Mode], NEW g,
         NEW b \in SUBSET User, NEW r, NEW w,
         NEW a, SlotIs("open", c, p, l, {a}, k, g, b, r, w), g # "inserting"
  PROVE  /\ a \in [row : Row, mode : Mode] /\ a.row[2] = c.user
         /\ SlotIs("open", c, p, l, {}, Raised(k, a), g, b, r, w)
<1> DEFINE k2 == Raised(k, a)
           s == Steps(c.kind)[p]
<1>1. p <= Len(Steps(c.kind)) /\ l \subseteq Here(c, p)
  BY DEF SlotIs, Asking
<1>2. PICK x \in Here(c, p) \ l, m \in AllModes(c, s) : a = [row |-> x, mode |-> m]
  BY DEF SlotIs, Asking
<1>3. Here(c, p) = Locked(c, s)
  <2>1. ~(p > Len(Steps(c.kind)))
    BY <1>1, StepsLength, CallParts
  <2> QED BY <2>1 DEF Here
<1>4. x \in Row /\ x[2] = c.user /\ m \in {1, 2, 3} /\ a.row = x /\ a.mode = m
  BY <1>2, HereRows, ModesAreModes
<1>5. a \in [row : Row, mode : Mode]
  BY <1>2, <1>4 DEF Mode
<1>6. /\ \A y \in Row : k2[y] \in Mode /\ k2[y] >= k[y] /\ (y # x => k2[y] = k[y])
      /\ k2[x] >= m /\ k2[x] \in {k[x], m}
  BY <1>4, <1>5, RaisedLocks
<1>k. \A y \in Row : k[y] \in 0..3 /\ k2[y] \in 0..3
  BY <1>6 DEF Mode
<1>7. s = "users" => x = UserRow(c.user) /\ l = {}
  BY <1>1, <1>2, <1>3, LockedRows
<1> HIDE DEF k2, s
<1>8. Logging("open", c, {}, k2, g)
  <2>1. UserRow(c.user) \in Row
    BY CallParts, UserRowIsRow
  <2>2. k[UserRow(c.user)] # 0 => k2[UserRow(c.user)] # 0
    BY <1>6, <1>k, <2>1
  <2> QED BY <2>2 DEF SlotIs, Logging
<1>9. Covering("open", c, p, l, {}, k2, b, r)
  <2> SUFFICES ASSUME c.kind = "anonymise" PROVE Covering("open", c, p, l, {}, k2, b, r)
    BY DEF Covering
  <2>1. \A v \in b \ r : v # c.user \/ p > 1 => k2[UserRow(v)] \in {Update, Strong}
    <3> SUFFICES ASSUME NEW v \in b \ r, v # c.user \/ p > 1
                 PROVE  k2[UserRow(v)] \in {Update, Strong}
      OBVIOUS
    <3>1. k[UserRow(v)] \in {Update, Strong}
      BY DEF SlotIs, Covering
    <3>2. UserRow(v) \in Row
      BY UserRowIsRow
    <3> QED BY <3>1, <3>2, <1>6, <1>k DEF Update, Strong
  <2>2. p = 1 => k2[UserRow(c.user)] \in {Update, Strong}
    <3> SUFFICES ASSUME p = 1 PROVE k2[UserRow(c.user)] \in {Update, Strong}
      OBVIOUS
    <3>1. s = "users"
      BY StepsOfJob DEF s
    <3>2. m \in {2, 3} /\ x = UserRow(c.user)
      BY <1>2, <1>7, <3>1, JobModes DEF Update, Strong
    <3> QED BY <1>4, <1>6, <1>k, <3>2 DEF Update, Strong
  <2>3. \A y \in Row : k2[y] # 0 => y[2] \in b \ r
    <3>1. c.user \in b \ r
      BY DEF SlotIs, Working
    <3>2. \A y \in Row : k[y] # 0 => y[2] \in b \ r
      BY DEF SlotIs, Covering
    <3> QED BY <1>4, <1>6, <3>1, <3>2
  <2> QED BY <2>1, <2>2, <2>3 DEF Covering
<1>10. Stronger("open", c, p, l, k2)
  <2> SUFFICES ASSUME NEW v \in User, k2[UserRow(v)] = Strong, c.kind # "anonymise"
               PROVE  v = c.user /\ l = {} /\ Past(c.kind, p)
    BY DEF Stronger
  <2>1. CASE k[UserRow(v)] = Strong
    BY <2>1 DEF SlotIs, Stronger
  <2>2. CASE k[UserRow(v)] # Strong
    <3>1. UserRow(v) = x /\ m = Strong
      BY <1>6, <2>2, UserRowIsRow DEF Strong
    <3>2. s = "users" /\ c.kind \in {"verify", "idp", "idpReopen"}
      BY <1>2, <3>1, StrongModes
    <3>3. v = c.user /\ l = {}
      BY <1>7, <3>1, <3>2 DEF UserRow
    <3>4. CASE c.kind = "verify"
      <4>1. p # 1 /\ p # 2
        BY <3>2, <3>4, StepsOfVerify DEF s
      <4>2. p >= 3
        BY <4>1
      <4> QED BY <3>3, <3>4, <4>2 DEF Past
    <3>5. CASE c.kind = "idp"
      BY <3>3, <3>5 DEF Past
    <3>6. CASE c.kind = "idpReopen"
      <4>1. p # 1
        BY <3>2, <3>6, StepsOfReopen DEF s
      <4> QED BY <3>3, <3>6, <4>1 DEF Past
    <3> QED BY <3>2, <3>4, <3>5, <3>6
  <2> QED BY <2>1, <2>2
<1>11. Asking("open", c, p, l, {}, g)
  BY <1>1 DEF Asking
<1> QED BY <1>4, <1>5, <1>8, <1>9, <1>10, <1>11
        DEF SlotIs, Fresh, Locking, k2

\* What Grant does, in terms of the slot.
LEMMA GrantParts ==
  ASSUME Typing, Slots, NEW t \in Tx, Grant(t)
  PROVE  \E a \in ask[t] :
           /\ ask[t] = {a} /\ status[t] = "open"
           /\ a \in [row : Row, mode : Mode]
           /\ a.row[2] = call[t].user
           /\ \A b \in Tx : ~Conflict(t, b, a)
           /\ lock' = [lock EXCEPT ![t] = Raised(lock[t], a)]
<1>1. PICK a \in ask[t] : (\A b \in Tx : ~Conflict(t, b, a)) /\ lock' = Held(t, a)
  BY DEF Grant
<1>2. /\ call[t] \in Call /\ pc[t] \in 1..5
      /\ SlotIs("open", call[t], pc[t], left[t], ask[t], lock[t], log[t],
                batch[t], rest[t], rewritten[t])
  BY OpenSlot DEF Grant
<1>3. ask[t] = {a}
  BY <1>1, <1>2 DEF SlotIs, Asking, Logging
<1>4. a \in [row : Row, mode : Mode]
  BY <1>1 DEF Typing
<1>5. a.row[2] = call[t].user
  <2>1. CASE log[t] = "inserting"
    <3>1. a = ShareOf(call[t])
      BY <1>2, <1>3, <2>1 DEF SlotIs, Logging
    <3> QED BY <1>2, <3>1, ShareParts DEF UserRow
  <2>2. CASE log[t] # "inserting"
    <3>1. lock[t] \in [Row -> Mode] /\ batch[t] \in SUBSET User
      BY DEF Typing
    <3>2. SlotIs("open", call[t], pc[t], left[t], {a}, lock[t], log[t],
                 batch[t], rest[t], rewritten[t])
      BY <1>2, <1>3
    <3>3. /\ a \in [row : Row, mode : Mode] /\ a.row[2] = call[t].user
          /\ SlotIs("open", call[t], pc[t], left[t], {}, Raised(lock[t], a), log[t],
                    batch[t], rest[t], rewritten[t])
      BY <1>2, <2>2, <3>1, <3>2, LockedSlot
    <3> QED BY <3>3
  <2> QED BY <2>1, <2>2
<1>6. lock' = [lock EXCEPT ![t] = Raised(lock[t], a)]
  BY <1>1 DEF Held, Raised, Typing
<1> QED BY <1>1, <1>3, <1>4, <1>5, <1>6 DEF Grant

LEMMA GrantKeeps ==
  ASSUME Typing, Slots, NEW t \in Tx, Grant(t)
  PROVE  Keeps(t)
<1>1. PICK a \in ask[t] :
           /\ ask[t] = {a} /\ status[t] = "open"
           /\ a \in [row : Row, mode : Mode]
           /\ lock' = [lock EXCEPT ![t] = Raised(lock[t], a)]
  BY GrantParts
<1> DEFINE k == Raised(lock[t], a)
<1>2. lock' = [lock EXCEPT ![t] = k]
  BY <1>1
<1>3. /\ call[t] \in Call /\ pc[t] \in 1..5
      /\ SlotIs("open", call[t], pc[t], left[t], {a}, lock[t], log[t],
                batch[t], rest[t], rewritten[t])
  BY OpenSlot, <1>1
<1>4. lock[t] \in [Row -> Mode] /\ batch[t] \in SUBSET User
  BY DEF Typing
<1>5. k \in [Row -> Mode]
  BY <1>1, <1>4, RaisedLocks
<1>6. /\ ask' = [ask EXCEPT ![t] = {}]
      /\ UNCHANGED <<status, call, pc, left, batch, rest, rewritten, history>>
  BY DEF Grant
<1>7. CASE log[t] = "inserting"
  <2>1. /\ log' = [log EXCEPT ![t] = "written"]
        /\ after' = after \/ after' = after \cup {t}
    BY <1>7 DEF Grant
  <2>2. SlotIs("open", call[t], pc[t], left[t], {}, k, "written",
                batch[t], rest[t], rewritten[t])
    BY <1>3, <1>4, <1>7, InsertedSlot
  <2> HIDE DEF k
  <2>3. Typing' /\ Frame(t) /\ lock'[t] = k /\ log'[t] = "written" /\ ask'[t] = {}
    BY <1>2, <1>5, <1>6, <2>1 DEF Typing, Frame
  <2> QED BY <1>1, <1>6, <2>2, <2>3 DEF Keeps, Slot
<1>8. CASE log[t] # "inserting"
  <2>1. log' = log /\ after' = after
    BY <1>8 DEF Grant
  <2>2. SlotIs("open", call[t], pc[t], left[t], {}, k, log[t],
                batch[t], rest[t], rewritten[t])
    BY <1>3, <1>4, <1>8, LockedSlot
  <2> HIDE DEF k
  <2>3. Typing' /\ Frame(t) /\ lock'[t] = k /\ ask'[t] = {}
    BY <1>2, <1>5, <1>6, <2>1 DEF Typing, Frame
  <2> QED BY <1>1, <1>6, <2>1, <2>2, <2>3 DEF Keeps, Slot
<1> QED BY <1>7, <1>8

\* The actions that only go on to the next step.
LEMMA GoneOn ==
  ASSUME Typing, Slots, NEW t \in Tx, status[t] \in {"open", "aborted"},
         ~AtEnd(t), GoOn(t), status[t] = "open" => left[t] = {},
         ask[t] = {} \/ log[t] = "inserting",
         NEW g \in {"none", "emitted", "inserting", "written", "late", "lost"},
         NEW w \in SUBSET Tx,
         g = log[t] \/ (g = "emitted" /\ call[t].kind # "anonymise" /\ ask[t] = {}),
         log' = [log EXCEPT ![t] = g], rewritten' = [rewritten EXCEPT ![t] = w],
         UNCHANGED <<status, call, ask, lock, batch, rest, history, after>>
  PROVE  Keeps(t)
<1>1. /\ call[t] \in Call /\ pc[t] \in 1..5 /\ Len(Steps(call[t].kind)) \in 1..4
      /\ SlotIs(status[t], call[t], pc[t], left[t], ask[t], lock[t], log[t],
                batch[t], rest[t], rewritten[t])
      /\ Slot(t)
  BY OpenSlot DEF Slots
<1>2. ~(pc[t] > Len(Steps(call[t].kind)))
  BY DEF AtEnd
<1>3. pc[t] \in 1..4 /\ pc[t] <= Len(Steps(call[t].kind))
  <2> DEFINE n == Len(Steps(call[t].kind))
  <2>1. n \in 1..4 /\ pc[t] \in 1..5 /\ ~(pc[t] > n)
    BY <1>1, <1>2
  <2> HIDE DEF n
  <2>2. pc[t] \in 1..4 /\ pc[t] <= n
    BY <2>1
  <2> QED BY <2>2 DEF n
<1>4. SlotIs(status[t], call[t], pc[t] + 1, Here(call[t], pc[t] + 1), ask[t], lock[t], g,
             batch[t], rest[t], w)
  BY <1>1, <1>3, Advance
<1>5. /\ pc' \in [Tx -> 1..5] /\ left' \in [Tx -> SUBSET Row]
      /\ left'[t] = Here(call[t], pc[t] + 1) /\ pc'[t] = pc[t] + 1
      /\ \A s \in Tx \ {t} : pc'[s] = pc[s] /\ left'[s] = left[s]
  BY <1>1, GoOnTyping
<1>6. Typing'
  BY <1>5 DEF Typing
<1>7. Frame(t) /\ log'[t] = g /\ rewritten'[t] = w
  BY <1>5 DEF Typing, Frame
<1> QED BY <1>4, <1>5, <1>6, <1>7 DEF Keeps, Slot

LEMMA TypedLog ==
  ASSUME Typing, NEW t \in Tx
  PROVE  /\ log[t] \in {"none", "emitted", "inserting", "written", "late", "lost"}
         /\ rewritten[t] \in SUBSET Tx
         /\ log = [log EXCEPT ![t] = log[t]]
         /\ rewritten = [rewritten EXCEPT ![t] = rewritten[t]]
BY DEF Typing

LEMMA StepInJob ==
  ASSUME Typing, Slots, NEW t \in Tx, status[t] # "idle", ~AtEnd(t),
         call[t].kind = "anonymise"
  PROVE  \/ pc[t] = 1 /\ Step(t) = "users"
         \/ pc[t] = 2 /\ Step(t) = "all"
         \/ pc[t] = 3 /\ Step(t) = "events"
<1>1. pc[t] \in 1..5 /\ ~(pc[t] > 3)
  BY OpenSlot, JobSteps DEF AtEnd
<1>2. pc[t] \in 1..3
  BY <1>1
<1> QED BY <1>2, JobSteps DEF Step

LEMMA StatementDoneKeeps ==
  ASSUME Typing, Slots, NEW t \in Tx, StatementDone(t) \/ Lookup(t)
  PROVE  Keeps(t)
BY GoneOn, TypedLog DEF StatementDone, Lookup, Free

LEMMA EmitEventKeeps ==
  ASSUME Typing, Slots, NEW t \in Tx, EmitEvent(t)
  PROVE  Keeps(t)
<1>1. call[t].kind # "anonymise"
  BY StepInJob DEF EmitEvent, Free
<1>2. /\ log' = [log EXCEPT ![t] = "emitted"]
      /\ rewritten' = [rewritten EXCEPT ![t] = rewritten[t]]
      /\ rewritten[t] \in SUBSET Tx
  BY TypedLog DEF EmitEvent
<1> QED BY <1>1, <1>2, GoneOn DEF EmitEvent, Free

LEMMA MailSentKeeps ==
  ASSUME Typing, Slots, NEW t \in Tx, MailSent(t)
  PROVE  Keeps(t)
<1>1. /\ call[t] \in Call
      /\ SlotIs(status[t], call[t], pc[t], left[t], ask[t], lock[t], log[t],
                batch[t], rest[t], rewritten[t])
  BY OpenSlot DEF MailSent
<1>2. Here(call[t], pc[t]) = {}
  <2>1. Locked(call[t], "mail") = {}
    BY DEF Locked
  <2> QED BY <2>1 DEF Here, MailSent, AtEnd, Step
<1>3. status[t] = "open" => left[t] = {}
  BY <1>1, <1>2 DEF SlotIs, Asking
<1>4. ask[t] = {} \/ log[t] = "inserting"
  BY <1>1, <1>2 DEF SlotIs, Asking
<1> QED BY <1>3, <1>4, GoneOn, TypedLog DEF MailSent

LEMMA RewriteKeeps ==
  ASSUME Typing, Slots, NEW t \in Tx, Rewrite(t)
  PROVE  Keeps(t)
<1> DEFINE w == rewritten[t] \cup {x \in history : call[x].user = call[t].user}
<1>1. rewritten' = [rewritten EXCEPT ![t] = w]
  BY DEF Rewrite
<1>2. w \in SUBSET Tx
  BY DEF Typing
<1> HIDE DEF w
<1> QED BY <1>1, <1>2, GoneOn, TypedLog DEF Rewrite, Free

LEMMA InsertKeeps ==
  ASSUME Typing, Slots, NEW t \in Tx, Insert(t)
  PROVE  Keeps(t)
<1> DEFINE a == {ShareOf(call[t])}
<1>1. /\ ask' = [ask EXCEPT ![t] = a] /\ log' = [log EXCEPT ![t] = "inserting"]
      /\ UNCHANGED <<status, call, pc, left, lock, batch, rest, rewritten, history, after>>
      /\ status[t] = "open" /\ ask[t] = {} /\ log[t] = "emitted"
  BY DEF Insert, ShareOf, UserRow
<1>2. /\ call[t] \in Call
      /\ SlotIs("open", call[t], pc[t], left[t], {}, lock[t], "emitted",
                batch[t], rest[t], rewritten[t])
  BY <1>1, OpenSlot
<1>3. a \subseteq [row : Row, mode : Mode] /\ a # {}
  BY <1>2, ShareParts
<1>4. SlotIs("open", call[t], pc[t], left[t], a, lock[t], "inserting",
             batch[t], rest[t], rewritten[t])
  BY <1>2 DEF SlotIs, Fresh, Asking, Logging, Working, Covering
<1> HIDE DEF a
<1>5. Typing' /\ Frame(t) /\ ask'[t] = a /\ log'[t] = "inserting"
  BY <1>1, <1>3 DEF Typing, Frame
<1> QED BY <1>1, <1>4, <1>5 DEF Keeps, Slot

LEMMA NextUserKeeps ==
  ASSUME Typing, Slots, NEW t \in Tx, NextUser(t)
  PROVE  Keeps(t)
<1>1. PICK u \in NextOf(rest[t]) :
        /\ call' = [call EXCEPT ![t].user = u]
        /\ rest' = [rest EXCEPT ![t] = @ \ {u}]
        /\ left' = [left EXCEPT ![t] = Locked([call[t] EXCEPT !.user = u],
                                             Steps(call[t].kind)[1])]
  BY DEF NextUser
<1>2. /\ pc' = [pc EXCEPT ![t] = 1]
      /\ UNCHANGED <<status, ask, lock, log, batch, rewritten, history, after>>
      /\ status[t] = "open" /\ ask[t] = {} /\ left[t] = {} /\ rest[t] # {}
  BY DEF NextUser, Free
<1>3. /\ call[t] \in Call /\ pc[t] \in 1..5
      /\ SlotIs("open", call[t], pc[t], {}, {}, lock[t], log[t],
                batch[t], rest[t], rewritten[t])
  BY <1>2, OpenSlot
<1>4. call[t].kind = "anonymise" /\ log[t] = "none" /\ rest[t] \subseteq batch[t]
  BY <1>2, <1>3 DEF SlotIs, Working
<1>5. pc[t] > 1
  <2>1. pc[t] > 3
    BY <1>4, JobSteps DEF NextUser, AtEnd
  <2> QED BY <1>3, <2>1
<1>6. u \in rest[t] /\ u \in User
  BY NextOfIsIn DEF Typing
<1> DEFINE c == [call[t] EXCEPT !.user = u]
           r == rest[t] \ {u}
           h == {UserRow(u)}
<1>7. c \in Call /\ c.user = u /\ c.kind = "anonymise"
  BY <1>3, <1>4, <1>6, CallWith
<1>8. call' = [call EXCEPT ![t] = c] /\ rest' = [rest EXCEPT ![t] = r]
  BY <1>1 DEF Typing
<1>9. left' = [left EXCEPT ![t] = Locked(c, "users")]
  BY <1>1, <1>4, JobSteps
<1> HIDE DEF c
<1>10. Locked(c, "users") = h /\ Here(c, 1) = h /\ h \subseteq Row
  BY <1>6, <1>7, LockedRows, StepsOfJob, UserRowIsRow DEF Here
<1>11. left' = [left EXCEPT ![t] = h]
  BY <1>9, <1>10
<1>12. batch[t] \ r = (batch[t] \ rest[t]) \cup {u}
  BY <1>4, <1>6
<1>13. Covering("open", c, 1, h, {}, lock[t], batch[t], r)
  <2>1. /\ \A v \in batch[t] \ rest[t] : lock[t][UserRow(v)] \in {Update, Strong}
        /\ \A x \in Row : lock[t][x] # 0 => x[2] \in batch[t] \ rest[t]
    BY <1>3, <1>4, <1>5 DEF SlotIs, Covering
  <2>2. \A v \in batch[t] \ r : v # c.user => lock[t][UserRow(v)] \in {Update, Strong}
    BY <1>7, <1>12, <2>1
  <2> QED BY <1>7, <1>12, <2>1, <2>2 DEF Covering
<1>14. Working("open", c, log[t], batch[t], r)
  BY <1>4, <1>6, <1>7 DEF Working
<1>15. Called("open", c, 1) /\ Asking("open", c, 1, h, {}, log[t])
  BY <1>7, <1>10, StepsOfJob DEF Called, Asking
<1>16. SlotIs("open", c, 1, h, {}, lock[t], log[t], batch[t], r, rewritten[t])
  BY <1>4, <1>7, <1>13, <1>14, <1>15 DEF SlotIs, Fresh, Locking, Logging, Stronger
<1>17. r \in SUBSET User
  BY DEF Typing
<1> HIDE DEF r, h
<1>18. Typing'
  <2>1. pc' \in [Tx -> 1..5] /\ rest' \in [Tx -> SUBSET User]
    BY <1>2, <1>8, <1>17 DEF Typing
  <2>2. call' \in [Tx -> Call \cup {NoCall}] /\ left' \in [Tx -> SUBSET Row]
    BY <1>7, <1>8, <1>10, <1>11 DEF Typing
  <2> QED BY <1>2, <2>1, <2>2 DEF Typing
<1>19. Frame(t) /\ call'[t] = c /\ rest'[t] = r /\ left'[t] = h /\ pc'[t] = 1
  BY <1>2, <1>8, <1>11 DEF Typing, Frame
<1> QED BY <1>2, <1>16, <1>18, <1>19 DEF Keeps, Slot

\* The ends of transactions.
LEMMA EndKeeps ==
  ASSUME Typing, Slots, NEW t \in Tx, status[t] \in {"open", "aborted"},
         NEW how \in Ended, End(t, how),
         NEW g \in {"none", "emitted", "written", "late", "lost"},
         g = "late" => how = "committed",
         call[t].kind = "anonymise" => g = "none",
         log' = [log EXCEPT ![t] = g],
         history' \subseteq Tx,
         UNCHANGED <<call, pc, batch, rest, rewritten, after>>
  PROVE  Keeps(t)
<1>1. SlotIs(status[t], call[t], pc[t], left[t], ask[t], lock[t], log[t],
             batch[t], rest[t], rewritten[t])
  BY OpenSlot
<1>2. SlotIs(how, call[t], pc[t], {}, {}, Unlocked, g, batch[t], rest[t], rewritten[t])
  BY <1>1, EndedSlot
<1>3. Typing'
  BY UnlockedIsTyped DEF Typing, End, Status
<1>4. /\ Frame(t) /\ status'[t] = how /\ ask'[t] = {} /\ left'[t] = {}
      /\ lock'[t] = Unlocked /\ log'[t] = g
  BY DEF Typing, Frame, End
<1> QED BY <1>2, <1>3, <1>4 DEF Keeps, Slot

LEMMA NoLogInJobs ==
  ASSUME Typing, Slots, NEW t \in Tx, status[t] # "idle", call[t].kind = "anonymise"
  PROVE  log[t] = "none"
BY OpenSlot DEF SlotIs, Working

LEMMA CommitKeeps ==
  ASSUME Typing, Slots, NEW t \in Tx, Commit(t)
  PROVE  Keeps(t)
<1>1. PICK g \in {"none", "emitted", "written", "late", "lost"} :
        /\ log' = [log EXCEPT ![t] = g]
        /\ g = log[t] \/ log[t] = "emitted"
  <2>1. CASE log[t] \in {"none", "written"} /\ UNCHANGED log
    BY <2>1, TypedLog
  <2>2. CASE log[t] = "emitted"
             /\ log' \in {[log EXCEPT ![t] = "late"], [log EXCEPT ![t] = "lost"]}
    BY <2>2
  <2> QED BY <2>1, <2>2 DEF Commit
<1>2. call[t].kind = "anonymise" => g = "none"
  BY <1>1, NoLogInJobs DEF Commit, Free
<1>3. history' \subseteq Tx
  BY DEF Commit, Typing
<1> QED BY <1>1, <1>2, <1>3, EndKeeps DEF Commit, Free, Ended

LEMMA RollBackKeeps ==
  ASSUME Typing, Slots, NEW t \in Tx, status[t] \in {"open", "aborted"}, RollBack(t)
  PROVE  Keeps(t)
<1>1. PICK g \in {"none", "lost"} :
        log' = [log EXCEPT ![t] = g] /\ (log[t] = "none" => g = "none")
  BY DEF RollBack
<1>2. call[t].kind = "anonymise" => g = "none"
  BY <1>1, NoLogInJobs
<1>3. history' \subseteq Tx
  BY DEF RollBack, Typing
<1> QED BY <1>1, <1>2, <1>3, EndKeeps DEF RollBack, Ended

LEMMA InsertLateKeeps ==
  ASSUME Typing, Slots, NEW t \in Tx, InsertLate(t)
  PROVE  Keeps(t) /\ status[t] = "committed" /\ status' = status
<1>1. /\ log' = [log EXCEPT ![t] = "written"] /\ log[t] = "late"
      /\ after' = after \/ after' = after \cup {t}
      /\ history' = history \cup {t}
      /\ UNCHANGED <<status, call, pc, left, ask, lock, batch, rest, rewritten>>
  BY DEF InsertLate
<1>2. SlotIs(status[t], call[t], pc[t], left[t], ask[t], lock[t], log[t],
             batch[t], rest[t], rewritten[t])
  BY DEF Slots, Slot
<1>3. status[t] = "committed"
  BY <1>1, <1>2 DEF SlotIs, Logging
<1>4. SlotIs(status[t], call[t], pc[t], left[t], ask[t], lock[t], "written",
             batch[t], rest[t], rewritten[t])
  BY <1>1, <1>2, <1>3 DEF SlotIs, Fresh, Asking, Logging, Working
<1>5. Typing' /\ Frame(t) /\ log'[t] = "written"
  BY <1>1 DEF Typing, Frame
<1> QED BY <1>1, <1>3, <1>4, <1>5 DEF Keeps, Slot

\* Whoever is in a cycle waits, and so is open.
LEMMA CycleIsOpen ==
  ASSUME Typing, Slots, NEW S \in SUBSET Tx, Cycle(S), NEW t \in S
  PROVE  /\ status[t] = "open"
         /\ \E b \in S : Blocks(b, t)
<1>1. PICK b \in S : Blocks(b, t)
  BY DEF Cycle
<1>2. ask[t] # {}
  BY <1>1 DEF Blocks
<1>3. status[t] = "open"
  BY <1>2 DEF Slots, Slot, SlotIs, Asking
<1> QED BY <1>1, <1>3

LEMMA VictimKeeps ==
  ASSUME Typing, Slots, NEW t \in Tx, Victim(t)
  PROVE  Keeps(t) /\ status[t] = "open"
<1>1. status[t] = "open"
  BY CycleIsOpen DEF Victim
<1>2. CASE RollBack(t)
  BY <1>1, <1>2, RollBackKeeps
<1>3. CASE /\ log[t] = "inserting"
           /\ log' = [log EXCEPT ![t] = "lost"]
           /\ status' = [status EXCEPT ![t] = "aborted"]
           /\ ask' = [ask EXCEPT ![t] = {}]
           /\ lock' = [lock EXCEPT ![t] = Unlocked]
           /\ UNCHANGED <<call, pc, left, batch, rest, rewritten, history, after>>
  <2>1. SlotIs("open", call[t], pc[t], left[t], ask[t], lock[t], "inserting",
               batch[t], rest[t], rewritten[t])
    BY <1>1, <1>3, OpenSlot
  <2>2. call[t].kind # "anonymise"
    BY <1>1, <1>3, NoLogInJobs
  <2>3. SlotIs("aborted", call[t], pc[t], left[t], {}, Unlocked, "lost",
               batch[t], rest[t], rewritten[t])
    BY <2>1, <2>2, EndedSlot
  <2>4. Typing'
    BY <1>3, UnlockedIsTyped DEF Typing, Status
  <2>5. /\ Frame(t) /\ status'[t] = "aborted" /\ ask'[t] = {} /\ lock'[t] = Unlocked
        /\ log'[t] = "lost"
    BY <1>3 DEF Typing, Frame
  <2> QED BY <1>1, <1>3, <2>3, <2>4, <2>5 DEF Keeps, Slot
<1> QED BY <1>2, <1>3 DEF Victim

LEMMA EndAbortedKeeps ==
  ASSUME Typing, Slots, NEW t \in Tx, EndAborted(t)
  PROVE  Keeps(t)
<1>1. CASE AtEnd(t)
  <2>1. /\ End(t, "silent") /\ status[t] = "aborted"
        /\ UNCHANGED <<call, pc, log, batch, rest, rewritten, history, after>>
    BY <1>1 DEF EndAborted
  <2>2. log[t] # "late" /\ log[t] # "inserting"
    BY <2>1 DEF Slots, Slot, SlotIs, Asking, Logging
  <2>3. log[t] \in {"none", "emitted", "written", "late", "lost"}
    BY <2>2, TypedLog
  <2>4. call[t].kind = "anonymise" => log[t] = "none"
    BY <2>1, NoLogInJobs
  <2>5. log' = [log EXCEPT ![t] = log[t]] /\ history' \subseteq Tx
    BY <2>1, TypedLog DEF Typing
  <2> QED BY <2>1, <2>2, <2>3, <2>4, <2>5, EndKeeps DEF Ended
<1>2. CASE ~AtEnd(t)
  BY <1>2, RollBackKeeps DEF EndAborted
<1> QED BY <1>1, <1>2

LEMMA EachKeeps ==
  ASSUME Typing, Slots, NEW t \in Tx, \/ \E c \in Call : Begin(t, c)
                                      \/ Progress(t)
                                      \/ Fails(t)
  PROVE  Keeps(t)
BY BeginKeeps, ConnectKeeps, FindBatchKeeps, AskKeeps, GrantKeeps,
   StatementDoneKeeps, EmitEventKeeps, InsertKeeps, MailSentKeeps, RewriteKeeps,
   NextUserKeeps, CommitKeeps, InsertLateKeeps, VictimKeeps, EndAbortedKeeps,
   RollBackKeeps
   DEF Progress, Fails

LEMMA NextKeeps ==
  ASSUME Typing, Slots, Next
  PROVE  Typing' /\ Slots'
BY EachKeeps, SlotsKept DEF Next, Keeps

-----------------------------------------------------------------------------
(* Locks and pools                                                          *)

LEMMA InitSlots == Init => Slots
<1> SUFFICES ASSUME Init, NEW t \in Tx PROVE Slot(t)
  BY DEF Slots
<1> QED
  BY DEF Init, Slot, SlotIs, Fresh, Called, Asking, Locking, Logging, Working,
         Covering, Stronger, NoCall

LEMMA CompatibleKept ==
  ASSUME Typing, Compatible, NEW t \in Tx,
         lock' = lock \/ lock' = [lock EXCEPT ![t] = Unlocked]
  PROVE  Compatible'
<1>1. CASE lock' = lock
  BY <1>1 DEF Compatible
<1>2. CASE lock' = [lock EXCEPT ![t] = Unlocked]
  <2>1. \A r \in Row : lock'[t][r] = 0
    BY <1>2 DEF Typing, Unlocked
  <2>2. \A s \in Tx \ {t} : lock'[s] = lock[s]
    BY <1>2 DEF Typing
  <2> SUFFICES ASSUME NEW s \in Tx, NEW b \in Tx, NEW r \in Row,
                      s # b, lock'[s][r] # 0, lock'[b][r] # 0
               PROVE  lock'[s][r] + lock'[b][r] < 4
    BY DEF Compatible
  <2>3. s # t /\ b # t
    BY <2>1
  <2> QED BY <2>2, <2>3 DEF Compatible
<1> QED BY <1>1, <1>2

LEMMA GrantCompatible ==
  ASSUME Typing, Slots, Compatible, NEW t \in Tx, Grant(t)
  PROVE  Compatible'
<1>1. PICK a \in ask[t] :
        /\ a \in [row : Row, mode : Mode]
        /\ \A b \in Tx : ~Conflict(t, b, a)
        /\ lock' = [lock EXCEPT ![t] = Raised(lock[t], a)]
  BY GrantParts
<1> DEFINE k == Raised(lock[t], a)
<1>2. lock[t] \in [Row -> Mode]
  BY DEF Typing
<1>3. \A r \in Row : k[r] = lock[t][r] \/ (r = a.row /\ k[r] = a.mode)
  BY <1>1, <1>2, RaisedLocks
<1>4. lock'[t] = k /\ \A s \in Tx \ {t} : lock'[s] = lock[s]
  BY <1>1 DEF Typing
<1> HIDE DEF k
<1>5. ASSUME NEW s \in Tx \ {t}, NEW r \in Row, k[r] # 0, lock[s][r] # 0
      PROVE  k[r] + lock[s][r] < 4
  <2>1. CASE k[r] = lock[t][r]
    BY <1>5, <2>1 DEF Compatible
  <2>2. CASE r = a.row /\ k[r] = a.mode
    <3>1. ~(lock[s][r] + a.mode >= 4)
      BY <1>1, <1>5, <2>2 DEF Conflict
    <3>2. lock[s][r] \in 0..3 /\ a.mode \in 0..3
      BY <1>1 DEF Typing, Mode
    <3> QED BY <2>2, <3>1, <3>2
  <2> QED BY <1>3, <2>1, <2>2
<1> SUFFICES ASSUME NEW s \in Tx, NEW b \in Tx, NEW r \in Row,
                    s # b, lock'[s][r] # 0, lock'[b][r] # 0
             PROVE  lock'[s][r] + lock'[b][r] < 4
  BY DEF Compatible
<1>6. CASE s = t
  BY <1>4, <1>5, <1>6
<1>7. CASE b = t
  <2>1. k[r] + lock[s][r] < 4
    BY <1>4, <1>5, <1>7
  <2>2. k[r] \in 0..3 /\ lock[s][r] \in 0..3
    BY <1>1, <1>2, <1>3 DEF Typing, Mode
  <2> QED BY <1>4, <1>7, <2>1, <2>2
<1>8. CASE s # t /\ b # t
  BY <1>4, <1>8 DEF Compatible
<1> QED BY <1>6, <1>7, <1>8

LEMMA NextCompatible ==
  ASSUME Typing, Slots, Compatible, Next
  PROVE  Compatible'
<1>1. PICK t \in Tx : \/ \E c \in Call : Begin(t, c)
                      \/ Progress(t)
                      \/ Fails(t)
  BY DEF Next
<1>2. CASE Grant(t)
  BY <1>2, GrantCompatible
<1>3. CASE ~Grant(t)
  <2>1. lock' = lock \/ lock' = [lock EXCEPT ![t] = Unlocked]
    BY <1>1, <1>3
       DEF Progress, Fails, Begin, Connect, FindBatch, Ask, StatementDone, Lookup,
           EmitEvent, Insert, MailSent, Rewrite, NextUser, Commit, InsertLate,
           Victim, EndAborted, RollBack, End
  <2> QED BY <2>1, CompatibleKept
<1> QED BY <1>2, <1>3

LEMMA UsersAreFinite ==
  ASSUME NEW p
  PROVE  /\ IsFiniteSet(Users(p)) /\ Cardinality(Users(p)) \in Nat
         /\ Used(p) = Cardinality(Users(p))
<1>1. Users(p) \subseteq Tx
  BY DEF Users
<1> QED
  BY <1>1, TransactionsAssumption, FS_Subset, FS_CardinalityType DEF Used, Users

LEMMA FewerUsers ==
  ASSUME NEW p, Users(p)' \subseteq Users(p), Used(p) <= PoolSize
  PROVE  Used(p)' <= PoolSize
<1> DEFINE A == Users(p)
           B == Users(p)'
<1>1. IsFiniteSet(A) /\ Cardinality(A) \in Nat /\ Used(p) = Cardinality(A)
  BY UsersAreFinite
<1>2. Used(p)' = Cardinality(B)
  BY DEF Used, Users
<1>3. B \subseteq A
  OBVIOUS
<1> HIDE DEF A, B
<1>4. Cardinality(B) <= Cardinality(A) /\ Cardinality(B) \in Nat
  BY <1>1, <1>3, FS_Subset, FS_CardinalityType
<1> QED BY <1>1, <1>2, <1>4, TransactionsAssumption

LEMMA OneMoreUser ==
  ASSUME NEW p, NEW t, Users(p)' \subseteq Users(p) \cup {t}, Used(p) < PoolSize
  PROVE  Used(p)' <= PoolSize
<1> DEFINE A == Users(p)
           B == Users(p)'
           C == A \cup {t}
<1>1. IsFiniteSet(A) /\ Cardinality(A) \in Nat /\ Used(p) = Cardinality(A)
  BY UsersAreFinite
<1>2. Used(p)' = Cardinality(B)
  BY DEF Used, Users
<1>3. B \subseteq C
  OBVIOUS
<1> HIDE DEF A, B
<1>4. /\ IsFiniteSet(C)
      /\ Cardinality(C) = Cardinality(A) \/ Cardinality(C) = Cardinality(A) + 1
  BY <1>1, FS_AddElement
<1> HIDE DEF C
<1>5. Cardinality(B) <= Cardinality(C) /\ Cardinality(B) \in Nat /\ Cardinality(C) \in Nat
  BY <1>3, <1>4, FS_Subset, FS_CardinalityType
<1> QED BY <1>1, <1>2, <1>4, <1>5, TransactionsAssumption

LEMMA SameHome ==
  ASSUME Typing, Slots, NEW t \in Tx, FindBatch(t) \/ NextUser(t)
  PROVE  call'[t].home = call[t].home
<1>1. call[t] \in Call
  BY OpenSlot DEF FindBatch, NextUser, Free
<1>2. \A u : [call[t] EXCEPT !.user = u].home = call[t].home
  BY <1>1 DEF Call
<1>3. CASE call' = call
  BY <1>3
<1>4. CASE \E u \in User : call' = [call EXCEPT ![t].user = u]
  BY <1>2, <1>4 DEF Typing
<1>5. \A S \in SUBSET User : \A u \in NextOf(S) : u \in User
  BY NextOfIsIn
<1> QED BY <1>3, <1>4, <1>5 DEF FindBatch, NextUser, Typing

LEMMA SameSlotHome ==
  ASSUME Typing, Slots, NEW t \in Tx, Progress(t) \/ Fails(t)
  PROVE  call'[t].home = call[t].home
BY SameHome DEF Progress, Fails, Connect, Ask, Grant, StatementDone, Lookup,
      EmitEvent, Insert, MailSent, Rewrite, Commit, InsertLate, Victim, EndAborted, RollBack

LEMMA NewlyOpen ==
  ASSUME Typing, Slots, NEW t \in Tx, Progress(t) \/ Fails(t),
         status'[t] \in {"open", "aborted"}, status[t] \notin {"open", "aborted"}
  PROVE  Used(call[t].home) < PoolSize
<1>1. CASE Connect(t) \/ FindBatch(t)
  BY <1>1 DEF Connect, FindBatch
<1>2. CASE Ask(t) \/ Grant(t) \/ StatementDone(t) \/ Lookup(t) \/ EmitEvent(t)
           \/ Insert(t) \/ MailSent(t) \/ Rewrite(t) \/ NextUser(t)
  BY <1>2 DEF Ask, Grant, StatementDone, Lookup, EmitEvent, Insert, MailSent, Rewrite,
              NextUser, Free
<1>3. CASE InsertLate(t)
  BY <1>3 DEF InsertLate
<1>4. CASE Victim(t)
  BY <1>4, VictimKeeps
<1>5. CASE Commit(t) \/ EndAborted(t) \/ Fails(t)
  BY <1>5 DEF Commit, EndAborted, Fails, Free
<1> QED BY <1>1, <1>2, <1>3, <1>4, <1>5 DEF Progress

LEMMA NextPools ==
  ASSUME Typing, Slots, PoolsFit, Next
  PROVE  PoolsFit'
<1>1. PICK t \in Tx : \/ \E c \in Call : Begin(t, c)
                      \/ Progress(t)
                      \/ Fails(t)
  BY DEF Next
<1>2. Frame(t)
  BY <1>1, EachKeeps DEF Keeps
<1> SUFFICES ASSUME NEW p \in Process PROVE Used(p)' <= PoolSize
  BY DEF PoolsFit
<1>3. Used(p) <= PoolSize
  BY DEF PoolsFit
<1>4. Users(p)' \subseteq Users(p) \cup {t}
  BY <1>2 DEF Users, Frame
<1>5. CASE t \notin Users(p)'
  BY <1>3, <1>4, <1>5, FewerUsers
<1>6. CASE t \in Users(p)
  BY <1>3, <1>4, <1>6, FewerUsers
<1>7. CASE t \in Users(p)' /\ t \notin Users(p)
  <2>1. status'[t] \in {"open", "aborted"} /\ call'[t].home = p
    BY <1>7 DEF Users
  <2>2. CASE \E c \in Call : Begin(t, c)
    BY <2>1, <2>2 DEF Begin, Typing
  <2>3. CASE Progress(t) \/ Fails(t)
    <3>1. call[t].home = p
      BY <2>1, <2>3, SameSlotHome
    <3>2. status[t] \notin {"open", "aborted"}
      BY <1>7, <3>1 DEF Users
    <3>3. Used(p) < PoolSize
      BY <2>1, <2>3, <3>1, <3>2, NewlyOpen
    <3> QED BY <1>4, <3>3, OneMoreUser
  <2> QED BY <1>1, <2>2, <2>3
<1> QED BY <1>5, <1>6, <1>7

-----------------------------------------------------------------------------
(* The account history                                                      *)

Action(t) == (\E c \in Call : Begin(t, c)) \/ Progress(t) \/ Fails(t)

LEMMA CommittedOnlyInserts ==
  ASSUME Typing, Slots, NEW t \in Tx, status[t] \in Ended, Action(t)
  PROVE  InsertLate(t)
<1>1. ~Victim(t)
  BY VictimKeeps DEF Ended
<1> QED
  BY <1>1 DEF Action, Progress, Fails, Begin, Connect, FindBatch, Ask, Grant, StatementDone,
              Lookup, EmitEvent, Insert, MailSent, Rewrite, NextUser, Commit, EndAborted,
              Free, Ended

\* The history rows of others than t, and their callers, stay.
LEMMA HistoryGrows ==
  ASSUME Typing, Slots, HistoryIsTrue, NEW t \in Tx, Action(t)
  PROVE  /\ history \subseteq history' /\ history' \subseteq history \cup {t}
         /\ \A x \in history : call'[x] = call[x] /\ status'[x] = "committed"
         /\ after \subseteq after'
         /\ t \notin history /\ t \in history' => Commit(t) \/ InsertLate(t)
<1>1. Frame(t)
  BY EachKeeps DEF Keeps, Action
<1>2. /\ history' = history \/ history' = history \cup {t}
      /\ history' # history => Commit(t) \/ InsertLate(t)
      /\ after \subseteq after'
  BY DEF Action, Progress, Fails, Begin, Connect, FindBatch, Ask, Grant, StatementDone,
         Lookup, EmitEvent, Insert, MailSent, Rewrite, NextUser, Commit, InsertLate,
         Victim, EndAborted, RollBack, End
<1>3. ASSUME NEW x \in history
      PROVE  call'[x] = call[x] /\ status'[x] = "committed"
  <2>1. x \in Tx /\ status[x] = "committed"
    BY DEF HistoryIsTrue, Typing
  <2>2. CASE x = t
    <3>1. InsertLate(t)
      BY <2>1, <2>2, CommittedOnlyInserts DEF Ended
    <3> QED BY <2>1, <2>2, <3>1 DEF InsertLate
  <2>3. CASE x # t
    BY <1>1, <2>1, <2>3 DEF Frame
  <2> QED BY <2>2, <2>3
<1> QED BY <1>2, <1>3

LEMMA TrueHistoryStays ==
  ASSUME Typing, Slots, HistoryIsTrue, NEW t \in Tx, Action(t)
  PROVE  HistoryIsTrue'
<1> SUFFICES ASSUME NEW x \in history' PROVE status'[x] = "committed"
  BY DEF HistoryIsTrue
<1>1. CASE x \in history
  BY <1>1, HistoryGrows
<1>2. CASE x \notin history
  <2>1. x = t /\ (Commit(t) \/ InsertLate(t))
    BY <1>2, HistoryGrows
  <2>2. CASE Commit(t)
    BY <2>1, <2>2 DEF Commit, End, Typing
  <2>3. CASE InsertLate(t)
    BY <2>1, <2>3, InsertLateKeeps
  <2> QED BY <2>1, <2>2, <2>3
<1> QED BY <1>1, <1>2

\* Who is anonymised stays so.
LEMMA AnonymisedGrows ==
  ASSUME Typing, Slots, NEW t \in Tx, Action(t)
  PROVE  Anonymised \subseteq Anonymised'
<1> SUFFICES ASSUME NEW x \in Tx, status[x] = "committed"
             PROVE  status'[x] = "committed" /\ batch'[x] = batch[x]
  BY DEF Anonymised
<1>1. CASE x = t
  BY <1>1, CommittedOnlyInserts DEF InsertLate, Ended
<1>2. CASE x # t
  BY <1>2, EachKeeps DEF Keeps, Action, Frame
<1> QED BY <1>1, <1>2

\* A job asks for a user with the strongest mode, or comes second.
LEMMA JobAsks ==
  ASSUME Typing, Slots, NEW t \in Tx, IsJob(t), Ask(t),
         NEW v \in User \ Anonymised, NEW a \in ask'[t], a.row = UserRow(v)
  PROVE  a.mode = Strong
<1>1. PICK x \in left[t], m \in Modes(call[t], Step(t)) :
        ask' = [ask EXCEPT ![t] = {[row |-> x, mode |-> m]}]
  BY DEF Ask
<1>2. a = [row |-> x, mode |-> m]
  BY <1>1 DEF Typing
<1>3. /\ call[t] \in Call /\ x \in Here(call[t], pc[t])
  BY OpenSlot DEF Ask, SlotIs, Asking
<1>4. x \in Locked(call[t], Step(t)) /\ pc[t] \in 1..5 /\ ~(pc[t] > Len(Steps(call[t].kind)))
  BY <1>3, OpenSlot DEF Here, Step, Ask
<1>5. Step(t) \in {"users", "all", "events"}
  BY <1>4, JobSteps DEF Step, IsJob
<1>6. Step(t) = "users" /\ v = call[t].user
  <2>1. x[1] = "users" /\ x[2] = v
    BY <1>2 DEF UserRow
  <2>2. "users" \notin Provider
    BY TransactionsAssumption DEF Provider
  <2>3. Step(t) = "all" => x \in Provider \X {call[t].user}
    BY <1>4 DEF Locked
  <2> QED BY <1>3, <1>4, <1>5, <2>1, <2>2, <2>3, LockedRows
<1> QED BY <1>1, <1>2, <1>6 DEF Modes, IsJob

LEMMA JobLocksStay ==
  ASSUME Typing, Slots, JobLocks, NEW t \in Tx, Action(t)
  PROVE  JobLocks'
<1> SUFFICES ASSUME NEW j \in Tx, IsJob(j)', NEW v \in User \ Anonymised
             PROVE  /\ lock'[j][UserRow(v)] \in {0, Strong}
                    /\ \A a \in ask'[j] : a.row = UserRow(v) => a.mode = Strong
  BY AnonymisedGrows DEF JobLocks
<1>1. Typing' /\ Frame(t) /\ UserRow(v) \in Row
  BY EachKeeps, UserRowIsRow DEF Keeps, Action
<1>2. CASE j # t
  <2>1. IsJob(j) /\ lock'[j] = lock[j] /\ ask'[j] = ask[j]
    BY <1>1, <1>2 DEF Frame, IsJob
  <2> QED BY <2>1 DEF JobLocks
<1>3. CASE j = t
  <2>1. CASE FindBatch(t)
    <3>1. lock'[t] = Unlocked /\ ask'[t] = {}
      BY <2>1, OpenSlot DEF FindBatch, SlotIs, Fresh, Locking
    <3> QED BY <1>1, <1>3, <3>1 DEF Unlocked
  <2>2. CASE ~FindBatch(t)
    <3>1. /\ ~(\E c \in Call : Begin(t, c)) /\ ~Connect(t) /\ ~Commit(t)
          /\ ~InsertLate(t) /\ ~Victim(t) /\ ~EndAborted(t) /\ ~Fails(t)
      <4>1. status'[t] = "open" /\ call'[t].kind = "anonymise"
        BY <1>3 DEF IsJob
      <4>2. ~(\E c \in Call : Begin(t, c)) /\ ~Commit(t)
            /\ ~Victim(t) /\ ~EndAborted(t) /\ ~Fails(t)
        BY <4>1 DEF Begin, Commit, Victim, EndAborted, Fails, RollBack, End, Typing
      <4>3. ~Connect(t)
        BY <4>1 DEF Connect
      <4>4. ~InsertLate(t)
        BY <4>1, InsertLateKeeps DEF InsertLate
      <4> QED BY <4>2, <4>3, <4>4
    <3>2. CASE Ask(t) \/ Grant(t) \/ StatementDone(t) \/ Lookup(t) \/ EmitEvent(t)
               \/ Insert(t) \/ MailSent(t) \/ Rewrite(t)
      <4>1. UNCHANGED <<status, call>>
        BY <3>2 DEF Ask, Grant, StatementDone, Lookup, EmitEvent, Insert, MailSent, Rewrite
      <4>2. IsJob(t)
        BY <1>3, <4>1 DEF IsJob
      <4>3. ~Insert(t)
        BY <4>2, NoLogInJobs DEF IsJob, Insert
      <4>4. CASE Ask(t)
        <5>1. lock' = lock
          BY <4>4 DEF Ask
        <5> QED BY <1>3, <4>2, <4>4, <5>1, JobAsks DEF JobLocks
      <4>5. CASE Grant(t)
        <5>1. PICK a \in ask[t] : lock' = Held(t, a) /\ a \in [row : Row, mode : Mode]
          BY <4>5 DEF Grant, Typing
        <5>2. lock'[t] = Raised(lock[t], a) /\ lock[t] \in [Row -> Mode]
          BY <5>1 DEF Held, Raised, Typing
        <5>3. \/ lock'[t][UserRow(v)] = lock[t][UserRow(v)]
              \/ a.row = UserRow(v) /\ lock'[t][UserRow(v)] = a.mode
          BY <1>1, <5>1, <5>2, RaisedLocks
        <5>4. ask'[t] = {}
          BY <4>5 DEF Grant, Typing
        <5> QED BY <1>3, <4>2, <5>1, <5>3, <5>4 DEF JobLocks
      <4>6. CASE ~Ask(t) /\ ~Grant(t)
        <5>1. lock' = lock /\ ask' = ask
          BY <3>2, <4>3, <4>6
             DEF StatementDone, Lookup, EmitEvent, MailSent, Rewrite
        <5> QED BY <1>3, <4>2, <5>1 DEF JobLocks
      <4> QED BY <4>4, <4>5, <4>6
    <3>3. CASE NextUser(t)
      <4>1. lock' = lock /\ ask' = ask /\ IsJob(t)
        BY <3>3 DEF NextUser, Free, IsJob, Slots, Slot, SlotIs, Working
      <4> QED BY <1>3, <4>1 DEF JobLocks
    <3> QED BY <2>2, <3>1, <3>2, <3>3 DEF Action, Progress
  <2> QED BY <2>1, <2>2
<1> QED BY <1>2, <1>3

\* An open job keeps everybody else from the users it has come to first.
LEMMA JobKeepsOut ==
  ASSUME Typing, Slots, Compatible, JobLocks, NEW j \in Tx, IsJob(j),
         NEW v \in Done(j) \ Anonymised
  PROVE  /\ lock[j][UserRow(v)] = Strong /\ v \in User
         /\ \A t \in Tx \ {j} : lock[t][UserRow(v)] = 0
<1>1. /\ v \in batch[j] \ rest[j] /\ v \in User
      /\ v # call[j].user \/ pc[j] > 3
  BY DEF Done, Typing
<1>2. /\ pc[j] \in 1..5
      /\ SlotIs("open", call[j], pc[j], left[j], ask[j], lock[j], log[j],
             batch[j], rest[j], rewritten[j])
  BY OpenSlot DEF IsJob
<1>3. lock[j][UserRow(v)] = Strong
  <2>1. pc[j] > 3 => pc[j] > 1
    BY <1>2
  <2>2. lock[j][UserRow(v)] \in {Update, Strong}
    BY <1>1, <1>2, <2>1 DEF SlotIs, Covering, IsJob
  <2> QED BY <1>1, <2>2 DEF JobLocks, Update, Strong
<1>4. ASSUME NEW t \in Tx \ {j}
      PROVE  lock[t][UserRow(v)] = 0
  <2>1. UserRow(v) \in Row
    BY <1>1, UserRowIsRow
  <2>2. lock[t][UserRow(v)] \in 0..3
    BY <2>1 DEF Typing, Mode
  <2>3. lock[t][UserRow(v)] # 0 => lock[j][UserRow(v)] + lock[t][UserRow(v)] < 4
    BY <1>3, <2>1 DEF Compatible, Strong
  <2> QED BY <1>3, <2>2, <2>3 DEF Strong
<1> QED BY <1>1, <1>3, <1>4

\* So nobody else has an uncommitted history row of such a user.
LEMMA WrittenIsElsewhere ==
  ASSUME Typing, Slots, Compatible, JobLocks, NEW j \in Tx, IsJob(j), NEW t \in Tx,
         t # j, status[t] = "open", log[t] = "written"
  PROVE  call[t].user \notin Done(j) \ Anonymised
<1>1. lock[t][UserRow(call[t].user)] # 0
  BY DEF Slots, Slot, SlotIs, Logging
<1> QED BY <1>1, JobKeepsOut

\* What an action must respect so that the job's cleaning stays complete.
LEMMA CleaningKept ==
  ASSUME Typing, Slots, HistoryIsTrue, Cleaning, NEW t \in Tx, Action(t),
         history' = history,
         Anonymised' = Anonymised, Cleared \subseteq Cleared',
         status'[t] = "open" /\ log'[t] = "written" /\ call'[t].user \in Anonymised
           => t \in after',
         IsJob(t)' => \A x \in history : call[x].user \in Done(t)' \ Anonymised
                                         => x \in rewritten'[t]
  PROVE  Cleaning'
<1>1. Frame(t)
  BY EachKeeps DEF Keeps, Action
<1>2. (\A x \in history : call'[x] = call[x]) /\ after \subseteq after'
  BY HistoryGrows
<1>3. DoneIsRewritten'
  <2> SUFFICES ASSUME NEW j \in Tx, IsJob(j)', NEW x \in history,
                      call'[x].user \in Done(j)' \ Anonymised
               PROVE  x \in rewritten'[j]
    BY DEF DoneIsRewritten
  <2>1. CASE j = t
    BY <1>2, <2>1
  <2>2. CASE j # t
    <3>1. IsJob(j) /\ Done(j)' = Done(j) /\ rewritten'[j] = rewritten[j]
      BY <1>1, <2>2 DEF IsJob, Done, Frame
    <3> QED BY <1>2, <3>1 DEF Cleaning, DoneIsRewritten
  <2> QED BY <2>1, <2>2
<1>4. WrittenAfter'
  <2> SUFFICES ASSUME NEW x \in Tx, status'[x] = "open", log'[x] = "written",
                      call'[x].user \in Anonymised
               PROVE  x \in after'
    BY DEF WrittenAfter
  <2>1. CASE x = t
    BY <2>1
  <2>2. CASE x # t
    BY <1>1, <1>2, <2>2 DEF Frame, Cleaning, WrittenAfter
  <2> QED BY <2>1, <2>2
<1>5. JobClearsHistory'
  BY <1>2 DEF JobClearsHistory, Cleaning
<1> QED BY <1>3, <1>4, <1>5 DEF Cleaning

\* Transactions that are not committed, before or after, do not count.
LEMMA SameAnonymised ==
  ASSUME Typing, NEW t \in Tx, Frame(t), status[t] # "committed",
         status'[t] # "committed" \/ batch'[t] = {}
  PROVE  Anonymised' = Anonymised /\ Cleared \subseteq Cleared'
BY DEF Anonymised, Cleared, Frame

LEMMA QuietCleaning ==
  ASSUME Typing, Slots, HistoryIsTrue, Cleaning, NEW t \in Tx,
         \/ \E c \in Call : Begin(t, c)
         \/ Connect(t) \/ FindBatch(t)
         \/ Fails(t) \/ Victim(t) \/ EndAborted(t)
  PROVE  Cleaning'
<1>1. Action(t) /\ Frame(t)
  BY EachKeeps DEF Keeps, Action, Progress
<1>2. history' = history
  BY DEF Begin, Connect, FindBatch, Fails, Victim, EndAborted, RollBack
<1>3. status[t] # "committed"
  BY VictimKeeps DEF Begin, Connect, FindBatch, Fails, EndAborted
<1>4. CASE FindBatch(t)
  <2>1. /\ pc[t] = 1 /\ log[t] = "none" /\ batch[t] = {}
    BY <1>4 DEF FindBatch, Slots, Slot, SlotIs, Fresh
  <2>2. status'[t] # "committed" \/ batch'[t] = {}
    BY <1>4, <2>1 DEF FindBatch, Typing
  <2>3. log' = log /\ pc' = pc
    BY <1>4 DEF FindBatch
  <2>4. IsJob(t)' => Done(t)' = {}
    <3>1. CASE status' = [status EXCEPT ![t] = "committed"]
      BY <3>1 DEF IsJob, Typing
    <3>2. ASSUME NEW S \in SUBSET (User \ Anonymised), NEW u \in NextOf(S),
                 call' = [call EXCEPT ![t].user = u],
                 batch' = [batch EXCEPT ![t] = S],
                 rest' = [rest EXCEPT ![t] = S \ {u}]
          PROVE  Done(t)' = {}
      <4>1. call[t] \in Call
        BY <1>4, OpenSlot DEF FindBatch
      <4>2. u \in S /\ u \in User
        BY NextOfIsIn
      <4>3. call'[t].user = u
        BY <3>2, <4>1, <4>2, CallWith DEF Typing
      <4>4. batch'[t] = S /\ rest'[t] = S \ {u} /\ pc'[t] = 1
        BY <3>2, <2>1, <2>3 DEF Typing
      <4> QED BY <4>2, <4>3, <4>4 DEF Done
    <3> QED BY <1>4, <3>1, <3>2 DEF FindBatch
  <2>5. Anonymised' = Anonymised /\ Cleared \subseteq Cleared'
    BY <1>1, <1>3, <2>2, SameAnonymised
  <2> QED BY <1>1, <1>2, <2>1, <2>3, <2>4, <2>5, CleaningKept
<1>5. CASE Connect(t)
  <2>1. status'[t] = "open" /\ log'[t] = "none" /\ ~IsJob(t)'
    BY <1>5 DEF Connect, Slots, Slot, SlotIs, Fresh, IsJob, Typing
  <2>2. Anonymised' = Anonymised /\ Cleared \subseteq Cleared'
    BY <1>1, <1>3, <2>1, SameAnonymised
  <2> QED BY <1>1, <1>2, <2>1, <2>2, CleaningKept
<1>6. CASE \/ \E c \in Call : Begin(t, c)
           \/ Fails(t) \/ Victim(t) \/ EndAborted(t)
  <2>1. status'[t] \in {"queued", "rolledBack", "aborted", "silent"}
    BY <1>6 DEF Begin, Fails, Victim, EndAborted, RollBack, End, Typing
  <2>2. ~IsJob(t)'
    BY <2>1 DEF IsJob
  <2>3. Anonymised' = Anonymised /\ Cleared \subseteq Cleared'
    BY <1>1, <1>3, <2>1, SameAnonymised
  <2> QED BY <1>1, <1>2, <2>1, <2>2, <2>3, CleaningKept
<1> QED BY <1>4, <1>5, <1>6

\* Statements: the transaction stays open.
LEMMA StatementCleaning ==
  ASSUME Typing, Slots, HistoryIsTrue, Cleaning, NEW t \in Tx,
         \/ Ask(t) \/ Grant(t) \/ StatementDone(t) \/ Lookup(t)
         \/ EmitEvent(t) \/ Insert(t) \/ MailSent(t)
  PROVE  Cleaning'
<1>1. Action(t) /\ Frame(t)
  BY EachKeeps DEF Keeps, Action, Progress
<1>2. /\ history' = history /\ status' = status /\ call' = call /\ batch' = batch
      /\ rest' = rest /\ rewritten' = rewritten
      /\ status[t] \in {"open", "aborted"}
  BY DEF Ask, Grant, StatementDone, Lookup, EmitEvent, Insert, MailSent, Free
<1>3. Anonymised' = Anonymised /\ Cleared' = Cleared
  BY <1>2 DEF Anonymised, Cleared
<1>4. status[t] = "open" /\ log'[t] = "written" /\ call[t].user \in Anonymised
        => t \in after'
  <2> SUFFICES ASSUME status[t] = "open", log'[t] = "written",
                      call[t].user \in Anonymised
               PROVE  t \in after'
    OBVIOUS
  <2>1. CASE log[t] = "written"
    <3>1. t \in after
      BY <2>1 DEF Cleaning, WrittenAfter
    <3> QED BY <1>1, <3>1, HistoryGrows
  <2>2. CASE log[t] # "written"
    <3>1. Grant(t) /\ log[t] = "inserting"
      BY <2>2 DEF Ask, Grant, StatementDone, Lookup, EmitEvent, Insert, MailSent, Typing
    <3> QED BY <3>1 DEF Grant
  <2> QED BY <2>1, <2>2
<1>5. IsJob(t) => Done(t)' = Done(t)
  <2> SUFFICES ASSUME IsJob(t) PROVE pc[t] > 3 <=> pc'[t] > 3
    BY <1>2 DEF Done
  <2>1. CASE pc' = pc
    BY <2>1
  <2>2. CASE pc' # pc
    <3>1. ~AtEnd(t) /\ GoOn(t) /\ Step(t) \notin {"events"}
      BY <2>2 DEF Ask, Grant, StatementDone, Lookup, EmitEvent, Insert, MailSent
    <3>2. pc[t] \in {1, 2}
      BY <3>1, StepInJob DEF IsJob
    <3>3. pc'[t] = pc[t] + 1
      BY <3>1 DEF GoOn, Typing
    <3> QED BY <3>2, <3>3
  <2> QED BY <2>1, <2>2
<1>6. IsJob(t)' => \A x \in history : call[x].user \in Done(t)' \ Anonymised
                                    => x \in rewritten'[t]
  <2>1. IsJob(t)' <=> IsJob(t)
    BY <1>2 DEF IsJob
  <2> QED BY <1>2, <1>5, <2>1 DEF Cleaning, DoneIsRewritten
<1> QED BY <1>1, <1>2, <1>3, <1>4, <1>6, CleaningKept

LEMMA JobCleaning ==
  ASSUME Typing, Slots, HistoryIsTrue, Cleaning, NEW t \in Tx,
         Rewrite(t) \/ NextUser(t)
  PROVE  Cleaning'
<1>1. Action(t) /\ Frame(t)
  BY EachKeeps DEF Keeps, Action, Progress
<1>2. /\ history' = history /\ status' = status /\ log' = log /\ batch' = batch
      /\ status[t] = "open"
      /\ ~IsJob(t) => UNCHANGED call
  <2>1. NextUser(t) => IsJob(t)
    BY DEF NextUser, Free, IsJob, Slots, Slot, SlotIs, Working
  <2> QED BY <2>1 DEF Rewrite, NextUser, Free
<1>3. Anonymised' = Anonymised /\ Cleared \subseteq Cleared'
  BY <1>1, <1>2, SameAnonymised
<1>4. status'[t] = "open" /\ log'[t] = "written" /\ call'[t].user \in Anonymised
        => t \in after'
  <2>1. CASE IsJob(t)
    BY <1>2, <2>1, NoLogInJobs DEF IsJob
  <2>2. CASE ~IsJob(t)
    BY <1>1, <1>2, <2>2, HistoryGrows DEF Cleaning, WrittenAfter
  <2> QED BY <2>1, <2>2
<1>5. ASSUME IsJob(t)', NEW x \in history, call[x].user \in Done(t)' \ Anonymised
      PROVE  x \in rewritten'[t]
  <2>1. CASE Rewrite(t)
    <3>1. IsJob(t) /\ call' = call /\ rest' = rest
      BY <1>5, <2>1 DEF Rewrite, IsJob, Free
    <3>2. rewritten'[t] = rewritten[t] \cup {y \in history : call[y].user = call[t].user}
      BY <2>1 DEF Rewrite, Typing
    <3>3. call[x].user \in Done(t) \/ call[x].user = call[t].user
      BY <1>2, <1>5, <3>1 DEF Done
    <3> QED BY <1>5, <3>1, <3>2, <3>3 DEF Cleaning, DoneIsRewritten
  <2>2. CASE NextUser(t)
    <3>1. PICK u \in NextOf(rest[t]) :
            /\ call' = [call EXCEPT ![t].user = u]
            /\ rest' = [rest EXCEPT ![t] = @ \ {u}]
      BY <2>2 DEF NextUser
    <3>2. call[t] \in Call /\ u \in User
      BY <2>2, OpenSlot, NextOfIsIn DEF NextUser, Free, Typing
    <3>3. call'[t].user = u /\ rest'[t] = rest[t] \ {u} /\ pc'[t] = 1 /\ rewritten' = rewritten
      BY <2>2, <3>1, <3>2, CallWith DEF NextUser, Typing
    <3>4. IsJob(t) /\ pc[t] > 3
      <4>1. IsJob(t)
        BY <2>2 DEF NextUser, Free, IsJob, Slots, Slot, SlotIs, Working
      <4> QED BY <2>2, <4>1, JobSteps DEF NextUser, AtEnd, IsJob
    <3>5. call[x].user \in batch[t] \ rest[t]
      BY <1>2, <1>5, <3>3 DEF Done
    <3>6. call[x].user \in Done(t)
      BY <3>4, <3>5 DEF Done
    <3> QED BY <1>5, <3>3, <3>4, <3>6 DEF Cleaning, DoneIsRewritten
  <2> QED BY <2>1, <2>2
<1> QED BY <1>1, <1>2, <1>3, <1>4, <1>5, CleaningKept

LEMMA InsertLateCleaning ==
  ASSUME Typing, Slots, Compatible, HistoryIsTrue, JobLocks, Cleaning,
         NEW t \in Tx, InsertLate(t)
  PROVE  Cleaning'
<1>1. /\ history' = history \cup {t}
      /\ \A b \in Tx \ {t} : lock[b][UserRow(call[t].user)] # Strong
      /\ after' = IF call[t].user \in Anonymised THEN after \cup {t} ELSE after
      /\ UNCHANGED <<status, call, pc, left, ask, lock, batch, rest, rewritten>>
  BY DEF InsertLate, UserRow
<1>2. status[t] = "committed" /\ Frame(t)
  BY InsertLateKeeps DEF Keeps
<1>3. Anonymised' = Anonymised /\ Cleared' = Cleared
  BY <1>1 DEF Anonymised, Cleared
<1>4. DoneIsRewritten'
  <2> SUFFICES ASSUME NEW j \in Tx, IsJob(j), NEW x \in history',
                      call[x].user \in Done(j) \ Anonymised
               PROVE  x \in rewritten[j]
    BY <1>1, <1>3 DEF DoneIsRewritten, IsJob, Done
  <2>1. CASE x \in history
    BY <2>1 DEF Cleaning, DoneIsRewritten
  <2>2. CASE x = t
    <3>1. j # t
      BY <1>2 DEF IsJob
    <3>2. lock[j][UserRow(call[t].user)] = Strong
      BY <2>2, JobKeepsOut
    <3> QED BY <1>1, <3>1, <3>2
  <2> QED BY <1>1, <2>1, <2>2
<1>5. WrittenAfter'
  <2> SUFFICES ASSUME NEW x \in Tx, status[x] = "open", log'[x] = "written",
                      call[x].user \in Anonymised
               PROVE  x \in after'
    BY <1>1, <1>3 DEF WrittenAfter
  <2>1. x # t /\ log'[x] = log[x]
    BY <1>2 DEF Frame
  <2> QED BY <1>1, <2>1 DEF Cleaning, WrittenAfter
<1>6. JobClearsHistory'
  BY <1>1, <1>3 DEF JobClearsHistory, Cleaning
<1> QED BY <1>4, <1>5, <1>6 DEF Cleaning

LEMMA CommitCleaning ==
  ASSUME Typing, Slots, Compatible, HistoryIsTrue, JobLocks, Cleaning,
         NEW t \in Tx, Commit(t)
  PROVE  Cleaning'
<1>1. /\ status[t] = "open" /\ AtEnd(t) /\ rest[t] = {}
      /\ status' = [status EXCEPT ![t] = "committed"]
      /\ history' = IF log[t] = "written" THEN history \cup {t} ELSE history
      /\ UNCHANGED <<call, pc, batch, rest, rewritten, after>>
  BY DEF Commit, Free, End
<1>2. Frame(t) /\ status'[t] = "committed"
  BY <1>1, CommitKeeps DEF Keeps, Typing
<1>3. Anonymised' = Anonymised \cup batch[t] /\ Cleared' = Cleared \cup rewritten[t]
  BY <1>1, <1>2 DEF Anonymised, Cleared, Frame
<1>4. CASE ~IsJob(t)
  <2>1. batch[t] = {}
    BY <1>1, <1>4, OpenSlot DEF IsJob, SlotIs, Working
  <2>2. Anonymised' = Anonymised
    BY <1>3, <2>1
  <2>3. DoneIsRewritten'
    <3> SUFFICES ASSUME NEW j \in Tx, IsJob(j)', NEW x \in history',
                        call[x].user \in Done(j)' \ Anonymised
                 PROVE  x \in rewritten[j]
      BY <1>1, <2>2 DEF DoneIsRewritten
    <3>1. j # t
      BY <1>2 DEF IsJob
    <3>2. IsJob(j) /\ Done(j)' = Done(j)
      BY <1>1, <1>2, <3>1 DEF IsJob, Done, Frame
    <3>3. CASE x \in history
      BY <3>2, <3>3 DEF Cleaning, DoneIsRewritten
    <3>4. CASE x = t /\ log[t] = "written"
      BY <1>1, <3>1, <3>2, <3>4, WrittenIsElsewhere
    <3> QED BY <1>1, <3>3, <3>4
  <2>4. WrittenAfter'
    BY <1>1, <1>2, <2>2 DEF WrittenAfter, Cleaning, Frame
  <2>5. JobClearsHistory'
    BY <1>1, <1>3, <2>2 DEF JobClearsHistory, Cleaning, WrittenAfter
  <2> QED BY <2>3, <2>4, <2>5 DEF Cleaning
<1>5. CASE IsJob(t)
  <2>1. batch[t] = Done(t)
    <3>1. pc[t] > 3
      BY <1>1, <1>5, JobSteps DEF AtEnd, IsJob
    <3> QED BY <1>1, <3>1 DEF Done
  <2>2. history' = history
    BY <1>1, <1>5, NoLogInJobs DEF IsJob
  <2>3. DoneIsRewritten'
    <3> SUFFICES ASSUME NEW j \in Tx, IsJob(j)', NEW x \in history,
                        call[x].user \in Done(j)' \ Anonymised
                 PROVE  x \in rewritten[j]
      BY <1>1, <1>3, <2>2 DEF DoneIsRewritten
    <3>1. j # t
      BY <1>2 DEF IsJob
    <3>2. IsJob(j) /\ Done(j)' = Done(j)
      BY <1>1, <1>2, <3>1 DEF IsJob, Done, Frame
    <3> QED BY <3>2 DEF Cleaning, DoneIsRewritten
  <2>4. WrittenAfter'
    <3> SUFFICES ASSUME NEW x \in Tx, status'[x] = "open", log'[x] = "written",
                        call[x].user \in Anonymised'
                 PROVE  x \in after
      BY <1>1 DEF WrittenAfter
    <3>1. x # t
      BY <1>2
    <3>2. status[x] = "open" /\ log[x] = "written"
      BY <1>2, <3>1 DEF Frame
    <3>3. call[x].user \notin batch[t] \ Anonymised
      BY <1>5, <2>1, <3>1, <3>2, WrittenIsElsewhere
    <3> QED BY <1>3, <3>2, <3>3 DEF Cleaning, WrittenAfter
  <2>5. JobClearsHistory'
    <3> SUFFICES ASSUME NEW x \in history, call[x].user \in Anonymised'
                 PROVE  x \in Cleared' \cup after
      BY <1>1, <2>2 DEF JobClearsHistory
    <3>1. CASE call[x].user \in Anonymised
      BY <1>3, <3>1 DEF Cleaning, JobClearsHistory
    <3>2. CASE call[x].user \in batch[t] \ Anonymised
      BY <1>3, <1>5, <2>1, <3>2 DEF Cleaning, DoneIsRewritten
    <3> QED BY <1>3, <3>1, <3>2
  <2> QED BY <2>3, <2>4, <2>5 DEF Cleaning
<1> QED BY <1>4, <1>5

LEMMA CleaningStays ==
  ASSUME Typing, Slots, Compatible, HistoryIsTrue, JobLocks, Cleaning,
         NEW t \in Tx, Action(t)
  PROVE  Cleaning'
BY QuietCleaning, StatementCleaning, JobCleaning, InsertLateCleaning, CommitCleaning
   DEF Action, Progress

-----------------------------------------------------------------------------
(* Silent rollbacks                                                         *)

LEMMA BatchesStay ==
  ASSUME Typing, Slots, NEW t \in Tx, Action(t), NEW j \in Tx,
         call[j].kind = "anonymise", NEW u \in batch[j]
  PROVE  call'[j].kind = "anonymise" /\ u \in batch'[j]
<1>1. CASE j # t
  BY <1>1, EachKeeps DEF Keeps, Action, Frame
<1>2. CASE j = t
  <2>1. status[t] \notin {"idle", "queued"}
    BY <1>2 DEF Slots, Slot, SlotIs, Fresh
  <2>2. batch' = batch
    BY <2>1 DEF Action, Progress, Fails, Begin, Connect, FindBatch, Ask, Grant, StatementDone,
                Lookup, EmitEvent, Insert, MailSent, Rewrite, NextUser, Commit, InsertLate,
                Victim, EndAborted, RollBack
  <2>3. call'[t].kind = call[t].kind
    <3>1. CASE NextUser(t)
      <4>1. call[t] \in Call
        BY <2>1, OpenSlot
      <4>2. PICK v \in NextOf(rest[t]) : call' = [call EXCEPT ![t].user = v]
        BY <3>1 DEF NextUser
      <4>3. v \in User
        BY NextOfIsIn DEF Typing
      <4> QED BY <4>1, <4>2, <4>3, CallWith DEF Typing
    <3>2. CASE ~NextUser(t)
      BY <2>1, <3>2
         DEF Action, Progress, Fails, Begin, Connect, FindBatch, Ask, Grant, StatementDone,
             Lookup, EmitEvent, Insert, MailSent, Rewrite, Commit, InsertLate,
             Victim, EndAborted, RollBack
    <3> QED BY <3>1, <3>2
  <2> QED BY <1>2, <2>2, <2>3
<1> QED BY <1>1, <1>2

\* Nobody in a cycle holds the strongest lock on a user but a nightly job: the
\* others have nothing to wait for after it.
LEMMA StrongInCycle ==
  ASSUME Typing, Slots, Compatible, NEW b \in Tx, NEW c \in Tx, status[b] = "open",
         Blocks(c, b), NEW u \in User, lock[b][UserRow(u)] = Strong
  PROVE  call[b].kind = "anonymise" /\ u \in batch[b]
<1>1. PICK a \in ask[b] : Conflict(b, c, a)
  BY DEF Blocks
<1>2. c # b /\ lock[c][a.row] # 0
  BY <1>1 DEF Conflict
<1>3. /\ call[b] \in Call
      /\ SlotIs("open", call[b], pc[b], left[b], ask[b], lock[b], log[b],
             batch[b], rest[b], rewritten[b])
  BY OpenSlot
<1>4. UserRow(u) \in Row /\ UserRow(u)[2] = u
  BY UserRowIsRow DEF UserRow
<1>5. CASE call[b].kind = "anonymise"
  <2>1. lock[b][UserRow(u)] # 0
    BY DEF Strong
  <2> QED BY <1>3, <1>4, <1>5, <2>1 DEF SlotIs, Covering
<1>6. CASE call[b].kind # "anonymise"
  <2>1. u = call[b].user /\ Past(call[b].kind, pc[b])
    BY <1>3, <1>6 DEF SlotIs, Stronger
  <2>2. a.row = UserRow(u)
    <3>1. CASE log[b] = "inserting"
      BY <1>1, <1>3, <2>1, <3>1, ShareParts DEF SlotIs, Logging
    <3>2. CASE log[b] # "inserting"
      <4>1. a.row \in Here(call[b], pc[b]) /\ pc[b] <= Len(Steps(call[b].kind))
        BY <1>1, <1>3, <3>2 DEF SlotIs, Asking
      <4>2. Here(call[b], pc[b]) \subseteq {UserRow(u)}
        BY <1>3, <2>1, OpenSlot, PastLocksUser
      <4> QED BY <4>1, <4>2
    <3> QED BY <3>1, <3>2
  <2>3. lock[b][UserRow(u)] + lock[c][UserRow(u)] < 4
    BY <1>2, <1>4, <2>2 DEF Compatible, Strong
  <2>4. lock[c][UserRow(u)] \in 0..3
    BY <1>4 DEF Typing, Mode
  <2> QED BY <1>2, <2>2, <2>3, <2>4 DEF Strong
<1> QED BY <1>5, <1>6

LEMMA VictimBesideJob ==
  ASSUME Typing, Slots, Compatible, NEW t \in Tx, log[t] = "inserting",
         NEW S \in SUBSET Tx, Cycle(S), t \in S
  PROVE  \E j \in Tx : call[j].kind = "anonymise" /\ call[t].user \in batch[j]
<1>1. status[t] = "open"
  BY CycleIsOpen
<1>2. PICK b \in S : Blocks(b, t)
  BY CycleIsOpen
<1>3. PICK c \in S : Blocks(c, b)
  BY CycleIsOpen
<1>4. status[b] = "open" /\ b \in Tx /\ c \in Tx
  BY CycleIsOpen
<1>5. call[t] \in Call /\ call[t].user \in User /\ ask[t] = {ShareOf(call[t])}
  BY <1>1, OpenSlot, CallParts DEF SlotIs, Logging
<1>6. lock[b][UserRow(call[t].user)] + 1 >= 4
  BY <1>2, <1>5, ShareParts DEF Blocks, Conflict
<1>7. lock[b][UserRow(call[t].user)] = Strong
  <2>1. lock[b][UserRow(call[t].user)] \in 0..3
    BY <1>4, <1>5, UserRowIsRow DEF Typing, Mode
  <2> QED BY <1>6, <2>1 DEF Strong
<1> QED BY <1>3, <1>4, <1>5, <1>7, StrongInCycle

LEMMA SilentStays ==
  ASSUME Typing, Slots, Compatible, SilentOnlyBesideJob, NEW t \in Tx, Action(t)
  PROVE  SilentOnlyBesideJob'
<1> SUFFICES ASSUME NEW x \in Tx, status'[x] \in {"silent", "aborted"}
             PROVE  \E j \in Tx : call'[j].kind = "anonymise" /\ call'[x].user \in batch'[j]
  BY DEF SilentOnlyBesideJob
<1>1. CASE /\ call'[x] = call[x]
           /\ \E j \in Tx : call[j].kind = "anonymise" /\ call[x].user \in batch[j]
  BY <1>1, BatchesStay
<1>2. CASE x # t
  <2>1. status'[x] = status[x] /\ call'[x] = call[x]
    BY <1>2, EachKeeps DEF Keeps, Action, Frame
  <2> QED BY <1>1, <2>1 DEF SilentOnlyBesideJob
<1>3. CASE x = t /\ status[t] \in {"silent", "aborted"}
  <2>1. call' = call
    BY <1>3, CommittedOnlyInserts
       DEF Action, Progress, Fails, Begin, Connect, FindBatch, Ask, Grant, StatementDone,
           Lookup, EmitEvent, Insert, MailSent, Rewrite, NextUser, Commit, InsertLate,
           Victim, EndAborted, RollBack, Free
  <2> QED BY <1>1, <1>3, <2>1 DEF SilentOnlyBesideJob
<1>4. CASE x = t /\ status[t] \notin {"silent", "aborted"}
  <2>1. CASE Victim(t) /\ log[t] = "inserting"
    <3>1. call' = call
      BY <2>1 DEF Victim, RollBack
    <3>2. \E j \in Tx : call[j].kind = "anonymise" /\ call[t].user \in batch[j]
      BY <2>1, VictimBesideJob DEF Victim
    <3> QED BY <1>1, <1>4, <3>1, <3>2
  <2>2. CASE ~(Victim(t) /\ log[t] = "inserting")
    <3>1. status'[t] \in {"queued", "open", "committed", "rolledBack"} \/ status'[t] = status[t]
      BY <1>4, <2>2
         DEF Action, Progress, Fails, Begin, Connect, FindBatch, Ask, Grant, StatementDone,
             Lookup, EmitEvent, Insert, MailSent, Rewrite, NextUser, Commit, InsertLate,
             Victim, EndAborted, RollBack, End, Typing
    <3> QED BY <1>4, <3>1
  <2> QED BY <2>1, <2>2
<1> QED BY <1>2, <1>3, <1>4

-----------------------------------------------------------------------------
(* The theorems                                                             *)

LEMMA InitInvariant == Init => IInv
<1> SUFFICES ASSUME Init PROVE IInv
  OBVIOUS
<1>1. Typing /\ Slots
  BY InitTyping, InitSlots
<1>2. Compatible
  BY DEF Init, Compatible, Unlocked
<1>3. PoolsFit
  <2> SUFFICES ASSUME NEW p \in Process PROVE Used(p) <= PoolSize
    BY DEF PoolsFit
  <2>1. Users(p) = {}
    BY DEF Init, Users
  <2>2. Used(p) = 0
    BY <2>1, UsersAreFinite, FS_EmptySet
  <2> QED BY <2>2, TransactionsAssumption
<1>4. HistoryIsTrue /\ Cleaning
  BY DEF Init, HistoryIsTrue, Cleaning, DoneIsRewritten, WrittenAfter, JobClearsHistory
<1>5. SilentOnlyBesideJob /\ JobLocks
  BY DEF Init, SilentOnlyBesideJob, JobLocks, IsJob
<1> QED BY <1>1, <1>2, <1>3, <1>4, <1>5 DEF IInv

LEMMA NextInvariant == IInv /\ [Next]_vars => IInv'
<1> SUFFICES ASSUME IInv, [Next]_vars PROVE IInv'
  OBVIOUS
<1> USE DEF IInv
<1>1. CASE Next
  <2>1. PICK t \in Tx : Action(t)
    BY <1>1 DEF Next, Action
  <2>2. Typing' /\ Slots'
    BY <1>1, NextKeeps
  <2>3. Compatible' /\ PoolsFit'
    BY <1>1, NextCompatible, NextPools
  <2>4. HistoryIsTrue' /\ JobLocks' /\ Cleaning' /\ SilentOnlyBesideJob'
    BY <2>1, TrueHistoryStays, JobLocksStay, CleaningStays, SilentStays
  <2> QED BY <2>2, <2>3, <2>4
<1>2. CASE UNCHANGED vars
  <2>1. Typing' /\ Slots'
    BY <1>2 DEF vars, Typing, Slots, Slot
  <2>2. Compatible' /\ PoolsFit'
    BY <1>2 DEF vars, Compatible, PoolsFit, Used
  <2>3. HistoryIsTrue' /\ SilentOnlyBesideJob'
    BY <1>2 DEF vars, HistoryIsTrue, SilentOnlyBesideJob
  <2>4. Cleaning'
    BY <1>2 DEF vars, Cleaning, DoneIsRewritten, IsJob, Done, WrittenAfter, Anonymised,
                Cleared, JobClearsHistory
  <2>5. JobLocks'
    BY <1>2 DEF vars, JobLocks, IsJob, Anonymised
  <2> QED BY <2>1, <2>2, <2>3, <2>4, <2>5
<1> QED BY <1>1, <1>2

LEMMA InvariantHolds == Spec => []IInv
BY InitInvariant, NextInvariant, PTL DEF Spec

\* The locks of PostgreSQL keep their meaning, the pools their size, and only
\* open transactions hold locks, for any number of transactions.
THEOREM TransactionsTypeCorrect == Spec => []TypeOK
<1>1. IInv => TypeOK
  <2> SUFFICES ASSUME IInv PROVE TypeOK
    OBVIOUS
  <2>1. Typing /\ Compatible /\ PoolsFit
    BY DEF IInv
  <2>2. \A t \in Tx : status[t] # "open" => lock[t] = Unlocked
    BY DEF IInv, Slots, Slot, SlotIs, Locking
  <2> QED BY <2>1, <2>2 DEF TypeOK, Typing, Compatible, PoolsFit
<1> QED BY <1>1, InvariantHolds, PTL

\* emit is not awaited and createEvent may fail in its own time, and still no
\* history row tells of a transaction that was rolled back.
THEOREM TrueHistory == Spec => []HistoryIsTrue
<1>1. IInv => HistoryIsTrue
  BY DEF IInv
<1> QED BY <1>1, InvariantHolds, PTL

\* anonymizeUserProfile saves the user before it updates the history: by the
\* foreign key, no transaction that logged before can commit after the UPDATE.
THEOREM HistoryIsCleared == Spec => []JobClearsHistory
<1>1. IInv => JobClearsHistory
  BY DEF IInv, Cleaning
<1> QED BY <1>1, InvariantHolds, PTL

\* A deadlock in the un-awaited INSERT, which nobody would be told of, always
\* has a nightly job in it.
THEOREM SilenceNeedsJob == Spec => []SilentOnlyBesideJob
<1>1. IInv => SilentOnlyBesideJob
  BY DEF IInv
<1> QED BY <1>1, InvariantHolds, PTL

-----------------------------------------------------------------------------
(* The order of the locks                                                   *)

\* A request locks rows of its user only.  The job goes upwards.
Upwards(c, k, b, r) ==
  /\ c.kind # "anonymise" => \A x \in Row : k[x] # 0 => x[2] = c.user
  /\ \A v \in b \ r : v <= c.user
  /\ \A v \in r : c.user <= v

\* The first statement finds nothing locked of its user.  Who closes a profile
\* locks the user with it.
UserFirst(c, p, l, a, k) ==
  /\ p = 1 /\ (l # {} \/ a # {}) => \A x \in Row : x[2] = c.user => k[x] = 0
  /\ c.kind = "close" => \/ k[UserRow(c.user)] >= Update
                         \/ p = 1 /\ (a # {} \/ l = {UserRow(c.user)})

\* A mail locks its user with the history INSERT and nothing before.
LogOnly(c, p, k, g) ==
  /\ g # "none" => c.kind = "mail" /\ p > 1
  /\ c.kind = "mail" /\ g # "written" => k = Unlocked

Ladder(c, p, l, a, k, g, b, r) ==
  c.kind \notin Hasty => /\ Upwards(c, k, b, r)
                         /\ UserFirst(c, p, l, a, k)
                         /\ LogOnly(c, p, k, g)

Ladders ==
  \A t \in Tx : status[t] = "open" =>
    Ladder(call[t], pc[t], left[t], ask[t], lock[t], log[t], batch[t], rest[t])

Patient == {"signUp", "addLocal", "signOut", "close", "idp", "mail", "anonymise"}

LEMMA PatientSteps ==
  /\ Steps("signUp") = <<"lookup">>
  /\ Steps("addLocal") = <<"refer">>
  /\ Steps("signOut") = <<"own">>
  /\ Steps("close") = <<"users", "all">>
  /\ Steps("mail") = <<"log", "mail">>
BY DEF Steps, SignUpSteps, AddLocalSteps, SignOutSteps, CloseSteps, MailSteps

LEMMA PatientKinds == ASSUME NEW k \in Kind, k \notin Hasty PROVE k \in Patient
BY DEF Kind, Hasty, Patient, Mails

\* What the first statement of a patient transaction locks.
LEMMA FirstLocks ==
  ASSUME NEW c \in Call, c.kind \notin Hasty
  PROVE  /\ Here(c, 1) \in {{}, {UserRow(c.user)}, {<<c.own, c.user>>}}
         /\ c.kind \in {"close", "anonymise"} => Here(c, 1) = {UserRow(c.user)}
         /\ c.kind = "mail" => \A p \in 1..5 : Here(c, p) = {}
<1> DEFINE e == Steps(c.kind)[1]
<1>1. c.kind \in Patient
  BY PatientKinds, CallParts
<1>2. Len(Steps(c.kind)) \in 1..4
  BY StepsLength, CallParts
<1>3. Here(c, 1) = Locked(c, e)
  BY <1>2 DEF Here
<1>4. /\ e \in {"lookup", "refer", "own", "users", "log"}
      /\ c.kind \in {"close", "anonymise"} => e = "users"
  BY <1>1, PatientSteps, StepsOfIdp, StepsOfJob DEF Patient
<1>5. /\ Locked(c, "lookup") = {} /\ Locked(c, "log") = {} /\ Locked(c, "mail") = {}
      /\ Locked(c, "refer") = {UserRow(c.user)} /\ Locked(c, "users") = {UserRow(c.user)}
      /\ Locked(c, "own") = {<<c.own, c.user>>}
  BY DEF Locked, UserRow
<1>6. ASSUME c.kind = "mail", NEW p \in 1..5 PROVE Here(c, p) = {}
  <2>1. Len(Steps(c.kind)) = 2 /\ Steps(c.kind)[1] = "log" /\ Steps(c.kind)[2] = "mail"
    BY <1>6, PatientSteps
  <2>2. p > 2 \/ p = 1 \/ p = 2
    OBVIOUS
  <2> QED BY <1>5, <2>1, <2>2 DEF Here
<1> HIDE DEF e
<1> QED BY <1>3, <1>4, <1>5, <1>6

\* Only a mail logs, as its first step, and then waits for the mail.
LEMMA PatientLogs ==
  ASSUME NEW c \in Call, c.kind \notin Hasty, NEW p \in 1..5, p <= Len(Steps(c.kind))
  PROVE  /\ Steps(c.kind)[p] = "log" => c.kind = "mail" /\ p = 1
         /\ Steps(c.kind)[p] = "mail" => p > 1
<1>1. c.kind \in Patient
  BY PatientKinds, CallParts
<1>2. CASE c.kind \in {"signUp", "addLocal", "signOut"}
  <2>1. /\ Len(Steps(c.kind)) = 1
        /\ Steps(c.kind)[1] \notin {"log", "mail"}
    BY <1>2, PatientSteps
  <2>2. p = 1
    BY <2>1
  <2> QED BY <2>1, <2>2
<1>3. CASE c.kind \in {"close", "idp"}
  <2>1. /\ Len(Steps(c.kind)) = 2
        /\ Steps(c.kind)[1] \notin {"log", "mail"}
        /\ Steps(c.kind)[2] \notin {"log", "mail"}
    BY <1>3, PatientSteps, StepsOfIdp
  <2>2. p = 1 \/ p = 2
    BY <2>1
  <2> QED BY <2>1, <2>2
<1>4. CASE c.kind = "mail"
  <2>1. Len(Steps(c.kind)) = 2 /\ Steps(c.kind)[1] = "log" /\ Steps(c.kind)[2] = "mail"
    BY <1>4, PatientSteps
  <2>2. p = 1 \/ p = 2
    BY <2>1
  <2> QED BY <1>4, <2>1, <2>2
<1>5. CASE c.kind = "anonymise"
  <2>1. Len(Steps(c.kind)) = 3
    BY <1>5, JobSteps
  <2>2. p = 1 \/ p = 2 \/ p = 3
    BY <2>1
  <2> QED BY <1>5, <2>2, JobSteps
<1> QED BY <1>1, <1>2, <1>3, <1>4, <1>5 DEF Patient

-----------------------------------------------------------------------------

LEMMA StartedLadder ==
  ASSUME NEW c \in Call, NEW b, NEW r, \A v \in b \ r : v <= c.user,
         \A v \in r : c.user <= v
  PROVE  Ladder(c, 1, Here(c, 1), {}, Unlocked, "none", b, r)
<1> SUFFICES ASSUME c.kind \notin Hasty
             PROVE  Ladder(c, 1, Here(c, 1), {}, Unlocked, "none", b, r)
  BY DEF Ladder
<1>1. \A x \in Row : Unlocked[x] = 0
  BY DEF Unlocked
<1> QED BY <1>1, FirstLocks DEF Ladder, Upwards, UserFirst, LogOnly

LEMMA AdvancedLadder ==
  ASSUME NEW c \in Call, NEW p \in 1..4, NEW l, NEW l2, NEW a, NEW k, NEW g, NEW g2,
         NEW b, NEW r, Ladder(c, p, l, a, k, g, b, r),
         p = 1 => l = {} /\ a = {},
         p <= Len(Steps(c.kind)),
         g2 = g \/ (g2 = "emitted" /\ Steps(c.kind)[p] = "log")
  PROVE  Ladder(c, p + 1, l2, a, k, g2, b, r)
<1> SUFFICES ASSUME c.kind \notin Hasty
             PROVE  Ladder(c, p + 1, l2, a, k, g2, b, r)
  BY DEF Ladder
<1>1. Upwards(c, k, b, r) /\ UserFirst(c, p, l, a, k) /\ LogOnly(c, p, k, g)
  BY DEF Ladder
<1>2. UserFirst(c, p + 1, l2, a, k)
  BY <1>1 DEF UserFirst
<1>3. LogOnly(c, p + 1, k, g2)
  <2>1. CASE g2 = g
    BY <1>1, <2>1 DEF LogOnly
  <2>2. CASE g2 = "emitted" /\ Steps(c.kind)[p] = "log"
    <3>1. c.kind = "mail" /\ p = 1
      BY <2>2, PatientLogs
    <3> QED BY <1>1, <2>2, <3>1 DEF LogOnly
  <2> QED BY <2>1, <2>2
<1> QED BY <1>1, <1>2, <1>3 DEF Ladder

LEMMA AskedLadder ==
  ASSUME NEW c \in Call, NEW p \in 1..5, NEW l, NEW l2, NEW a, NEW k, NEW g, NEW g2,
         NEW b, NEW r, Ladder(c, p, l, {}, k, g, b, r),
         a # {},
         \/ l # {} /\ g2 = g
         \/ l2 = l /\ g = "emitted" /\ g2 = "inserting"
  PROVE  Ladder(c, p, l2, a, k, g2, b, r)
BY DEF Ladder, UserFirst, LogOnly

LEMMA GrantedLadder ==
  ASSUME NEW c \in Call, NEW p \in 1..5, NEW l, NEW a, NEW k \in [Row -> Mode],
         NEW g, NEW b, NEW r, NEW w,
         SlotIs("open", c, p, l, {a}, k, g, b, r, w), NEW g2,
         Ladder(c, p, l, {a}, k, g, b, r),
         a \in [row : Row, mode : Mode], a.row[2] = c.user,
         IF g = "inserting" THEN g2 = "written" ELSE g2 = g
  PROVE  Ladder(c, p, l, {}, Raised(k, a), g2, b, r)
<1> SUFFICES ASSUME c.kind \notin Hasty
             PROVE  Ladder(c, p, l, {}, Raised(k, a), g2, b, r)
  BY DEF Ladder
<1> DEFINE k2 == Raised(k, a)
<1>1. Upwards(c, k, b, r) /\ UserFirst(c, p, l, {a}, k) /\ LogOnly(c, p, k, g)
  BY DEF Ladder
<1>2. /\ k2 \in [Row -> Mode] /\ k2[a.row] >= a.mode
      /\ \A x \in Row : k2[x] >= k[x]
      /\ \A x \in Row : x # a.row => k2[x] = k[x]
  BY RaisedLocks
<1>3. UserRow(c.user) \in Row
  BY CallParts, UserRowIsRow
<1> HIDE DEF k2
<1>4. Upwards(c, k2, b, r)
  BY <1>1, <1>2 DEF Upwards
<1>5. ASSUME g # "inserting"
      PROVE  /\ p <= Len(Steps(c.kind))
             /\ c.kind # "mail"
             /\ p = 1 => l = {}
             /\ p = 1 /\ c.kind = "close" => a.row = UserRow(c.user) /\ a.mode = Update
  <2>1. PICK x \in Here(c, p) \ l, m \in AllModes(c, Steps(c.kind)[p]) :
          a = [row |-> x, mode |-> m]
    BY <1>5 DEF SlotIs, Asking
  <2>2. p <= Len(Steps(c.kind)) /\ l \subseteq Here(c, p)
    BY <1>5 DEF SlotIs, Asking
  <2>3. c.kind # "mail"
    BY <2>1, FirstLocks
  <2>4. p = 1 => l = {}
    BY <2>1, <2>2, FirstLocks
  <2>5. ASSUME p = 1, c.kind = "close" PROVE a.row = UserRow(c.user) /\ a.mode = Update
    <3>1. x = UserRow(c.user)
      BY <2>1, <2>5, FirstLocks
    <3>2. AllModes(c, Steps(c.kind)[p]) = {Update}
      BY <2>5, PatientSteps DEF AllModes
    <3> QED BY <2>1, <3>1, <3>2
  <2> QED BY <2>2, <2>3, <2>4, <2>5
<1>6. CASE g = "inserting"
  <2>1. c.kind = "mail" /\ p > 1
    BY <1>1, <1>6 DEF LogOnly
  <2> QED BY <1>4, <1>6, <2>1 DEF Ladder, UserFirst, LogOnly, k2
<1>7. CASE g # "inserting"
  <2>1. g2 = g
    BY <1>7
  <2>2. UserFirst(c, p, l, {}, k2)
    <3>1. p = 1 => l = {}
      BY <1>5, <1>7
    <3>2. c.kind = "close" => k2[UserRow(c.user)] >= Update
      <4> SUFFICES ASSUME c.kind = "close" PROVE k2[UserRow(c.user)] >= 2
        BY DEF Update
      <4>1. k[UserRow(c.user)] \in 0..3 /\ k2[UserRow(c.user)] \in 0..3
        BY <1>2, <1>3 DEF Mode
      <4>2. CASE k[UserRow(c.user)] >= Update
        BY <1>2, <1>3, <4>1, <4>2 DEF Update
      <4>3. CASE p = 1
        BY <1>2, <1>5, <1>7, <4>3 DEF Update
      <4> QED BY <1>1, <4>2, <4>3 DEF UserFirst
    <3> QED BY <3>1, <3>2 DEF UserFirst
  <2>3. LogOnly(c, p, k2, g2)
    BY <1>1, <1>5, <1>7, <2>1 DEF LogOnly
  <2> QED BY <1>4, <2>2, <2>3 DEF Ladder, k2
<1> QED BY <1>6, <1>7

LEMMA NextUserLadder ==
  ASSUME NEW c \in Call, NEW p, NEW l, NEW a, NEW k, NEW g, NEW b \in SUBSET User,
         NEW r \in SUBSET User, NEW w,
         SlotIs("open", c, p, l, a, k, g, b, r, w), Ladder(c, p, l, a, k, g, b, r),
         NEW d \in Call, d.kind = c.kind, d.user \in NextOf(r)
  PROVE  Ladder(d, 1, {UserRow(d.user)}, {}, k, g, b, r \ {d.user})
<1> SUFFICES ASSUME c.kind \notin Hasty
             PROVE  Ladder(d, 1, {UserRow(d.user)}, {}, k, g, b, r \ {d.user})
  BY DEF Ladder
<1>1. Upwards(c, k, b, r) /\ LogOnly(c, p, k, g)
  BY DEF Ladder
<1>2. d.user \in r /\ \A v \in r : d.user <= v
  BY DEF NextOf
<1>3. c.kind = "anonymise" /\ g = "none" /\ r \subseteq b
  BY <1>2 DEF SlotIs, Working
<1>4. c.user \in User /\ d.user \in User
  BY CallParts
<1>5. Upwards(d, k, b, r \ {d.user})
  <2>1. \A v \in b \ (r \ {d.user}) : v <= d.user
    <3> SUFFICES ASSUME NEW v \in b \ r PROVE v <= d.user
      BY <1>4, TransactionsAssumption
    <3>1. v <= c.user /\ c.user <= d.user
      BY <1>1, <1>2 DEF Upwards
    <3>2. v \in Nat /\ c.user \in Nat /\ d.user \in Nat
      BY <1>4, TransactionsAssumption
    <3> QED BY <3>1, <3>2
  <2>2. \A v \in r : d.user <= v
    BY <1>2
  <2> QED BY <1>3, <2>1, <2>2 DEF Upwards
<1>6. \A x \in Row : x[2] = d.user => k[x] = 0
  <2>1. \A x \in Row : k[x] # 0 => x[2] \in b \ r
    BY <1>3 DEF SlotIs, Covering
  <2> QED BY <1>2, <2>1
<1> QED BY <1>3, <1>5, <1>6 DEF Ladder, UserFirst, LogOnly

-----------------------------------------------------------------------------

\* What an action does to its own transaction is all that has to be looked at.
LEMMA LaddersKept ==
  ASSUME Ladders, NEW t \in Tx, Keeps(t),
         status'[t] = "open" =>
           Ladder(call'[t], pc'[t], left'[t], ask'[t], lock'[t], log'[t], batch'[t], rest'[t])
  PROVE  Ladders'
<1> SUFFICES ASSUME NEW s \in Tx, status'[s] = "open"
             PROVE  Ladder(call'[s], pc'[s], left'[s], ask'[s], lock'[s], log'[s],
                           batch'[s], rest'[s])
  BY DEF Ladders
<1>1. CASE s # t
  BY <1>1 DEF Keeps, Frame, Ladders
<1>2. CASE s = t
  BY <1>2
<1> QED BY <1>1, <1>2

LEMMA ClosedLadders ==
  ASSUME Typing, Slots, Ladders, NEW t \in Tx,
         \/ \E c \in Call : Begin(t, c)
         \/ Commit(t) \/ InsertLate(t) \/ Victim(t) \/ EndAborted(t) \/ Fails(t)
  PROVE  Ladders'
<1>1. Keeps(t)
  BY EachKeeps DEF Progress
<1>2. status'[t] # "open"
  BY InsertLateKeeps
     DEF Begin, Commit, Victim, EndAborted, Fails, RollBack, End, Typing
<1> QED BY <1>1, <1>2, LaddersKept

LEMMA ConnectLadders ==
  ASSUME Typing, Slots, Ladders, NEW t \in Tx, Connect(t)
  PROVE  Ladders'
<1> DEFINE h == Locked(call[t], Step(t))
<1>1. /\ call[t] \in Call /\ Len(Steps(call[t].kind)) \in 1..4
      /\ SlotIs("queued", call[t], pc[t], left[t], ask[t], lock[t], log[t],
                batch[t], rest[t], rewritten[t])
  BY OpenSlot DEF Connect
<1>2. /\ pc[t] = 1 /\ ask[t] = {} /\ log[t] = "none" /\ lock[t] = Unlocked
      /\ batch[t] = {} /\ rest[t] = {}
  BY <1>1 DEF SlotIs, Fresh, Locking
<1>3. h = Here(call[t], 1)
  BY <1>1, <1>2 DEF Here, Step
<1>4. left' = [left EXCEPT ![t] = h]
  BY DEF Connect
<1> HIDE DEF h
<1>5. left'[t] = Here(call[t], 1)
  BY <1>3, <1>4 DEF Typing
<1>6. Ladder(call[t], 1, Here(call[t], 1), {}, Unlocked, "none", {}, {})
  BY <1>1, StartedLadder
<1>7. Keeps(t)
  BY EachKeeps DEF Progress
<1> QED BY <1>2, <1>5, <1>6, <1>7, LaddersKept DEF Connect

LEMMA FindBatchLadders ==
  ASSUME Typing, Slots, Ladders, NEW t \in Tx, FindBatch(t)
  PROVE  Ladders'
<1>1. Keeps(t)
  BY EachKeeps DEF Progress
<1>2. CASE status' = [status EXCEPT ![t] = "committed"]
  BY <1>1, <1>2, LaddersKept DEF Typing
<1>3. CASE \E S \in SUBSET (User \ Anonymised) : \E u \in NextOf(S) :
             /\ call' = [call EXCEPT ![t].user = u]
             /\ left' = [left EXCEPT ![t] = Locked([call[t] EXCEPT !.user = u], Step(t))]
             /\ batch' = [batch EXCEPT ![t] = S]
             /\ rest' = [rest EXCEPT ![t] = S \ {u}]
  <2>1. /\ call[t] \in Call /\ call[t].kind = "anonymise"
        /\ SlotIs("queued", call[t], pc[t], left[t], ask[t], lock[t], log[t],
                  batch[t], rest[t], rewritten[t])
    BY OpenSlot DEF FindBatch
  <2>2. /\ pc[t] = 1 /\ ask[t] = {} /\ log[t] = "none" /\ lock[t] = Unlocked
        /\ UNCHANGED <<pc, ask, lock, log>>
    BY <2>1 DEF SlotIs, Fresh, Locking, FindBatch
  <2>s. PICK S \in SUBSET (User \ Anonymised) : \E u \in NextOf(S) :
          /\ call' = [call EXCEPT ![t].user = u]
          /\ left' = [left EXCEPT ![t] = Locked([call[t] EXCEPT !.user = u], Step(t))]
          /\ batch' = [batch EXCEPT ![t] = S]
          /\ rest' = [rest EXCEPT ![t] = S \ {u}]
    BY <1>3
  <2>3. PICK u \in NextOf(S) :
          /\ call' = [call EXCEPT ![t].user = u]
          /\ left' = [left EXCEPT ![t] = Locked([call[t] EXCEPT !.user = u], Step(t))]
          /\ batch' = [batch EXCEPT ![t] = S]
          /\ rest' = [rest EXCEPT ![t] = S \ {u}]
    BY <2>s
  <2>4. u \in S /\ u \in User /\ \A v \in S : u <= v
    BY DEF NextOf
  <2> DEFINE c == [call[t] EXCEPT !.user = u]
  <2>5. c \in Call /\ c.user = u /\ c.kind = "anonymise"
    BY <2>1, <2>4, CallWith
  <2>6. Locked(c, Step(t)) = Here(c, 1)
    <3>1. Len(Steps(c.kind)) = 3 /\ Steps(c.kind)[1] = "users"
      BY <2>5, JobSteps
    <3>2. Step(t) = "users"
      BY <2>1, <2>2, JobSteps DEF Step
    <3> HIDE DEF c
    <3> QED BY <3>1, <3>2 DEF Here
  <2>7. call' = [call EXCEPT ![t] = c] /\ left' = [left EXCEPT ![t] = Locked(c, Step(t))]
    BY <2>1, <2>3 DEF Typing
  <2> HIDE DEF c
  <2>8. /\ call'[t] = c /\ left'[t] = Here(c, 1) /\ batch'[t] = S /\ rest'[t] = S \ {u}
    BY <2>3, <2>6, <2>7 DEF Typing
  <2>9. S \ (S \ {u}) = {u} /\ u <= u
    BY <2>4, TransactionsAssumption
  <2>10. Ladder(c, 1, Here(c, 1), {}, Unlocked, "none", S, S \ {u})
    BY <2>4, <2>5, <2>9, StartedLadder
  <2> QED BY <1>1, <2>2, <2>8, <2>10, LaddersKept
<1> QED BY <1>2, <1>3 DEF FindBatch

LEMMA AskLadders ==
  ASSUME Typing, Slots, Ladders, NEW t \in Tx, Ask(t) \/ Insert(t)
  PROVE  Ladders'
<1>1. Keeps(t)
  BY EachKeeps DEF Progress
<1>2. /\ status[t] = "open" /\ ask[t] = {}
      /\ UNCHANGED <<status, call, pc, lock, batch, rest>>
  BY DEF Ask, Insert
<1>3. call[t] \in Call /\ pc[t] \in 1..5
  BY <1>2, OpenSlot
<1>4. Ladder(call[t], pc[t], left[t], {}, lock[t], log[t], batch[t], rest[t])
  BY <1>2 DEF Ladders
<1>5. /\ ask'[t] # {}
      /\ \/ left[t] # {} /\ log'[t] = log[t]
         \/ left'[t] = left[t] /\ log[t] = "emitted" /\ log'[t] = "inserting"
  <2>1. CASE Ask(t)
    <3>1. PICK r \in left[t] : \E m \in Modes(call[t], Step(t)) :
            ask' = [ask EXCEPT ![t] = {[row |-> r, mode |-> m]}]
      BY <2>1 DEF Ask
    <3>2. log' = log
      BY <2>1 DEF Ask
    <3> QED BY <3>1, <3>2 DEF Typing
  <2>2. CASE Insert(t)
    BY <2>2 DEF Insert, Typing
  <2> QED BY <2>1, <2>2
<1> DEFINE a2 == ask'[t]
           l2 == left'[t]
           g2 == log'[t]
<1>6. /\ a2 # {}
      /\ \/ left[t] # {} /\ g2 = log[t]
         \/ l2 = left[t] /\ log[t] = "emitted" /\ g2 = "inserting"
  BY <1>5
<1> HIDE DEF a2, l2, g2
<1>7. Ladder(call[t], pc[t], l2, a2, lock[t], g2, batch[t], rest[t])
  BY <1>3, <1>4, <1>6, AskedLadder
<1> QED BY <1>1, <1>2, <1>7, LaddersKept DEF a2, l2, g2

LEMMA GrantLadders ==
  ASSUME Typing, Slots, Ladders, NEW t \in Tx, Grant(t)
  PROVE  Ladders'
<1>1. Keeps(t)
  BY EachKeeps DEF Progress
<1>2. PICK a \in ask[t] :
        /\ ask[t] = {a} /\ status[t] = "open"
        /\ a \in [row : Row, mode : Mode]
        /\ a.row[2] = call[t].user
        /\ lock' = [lock EXCEPT ![t] = Raised(lock[t], a)]
  BY GrantParts
<1> DEFINE k == Raised(lock[t], a)
           g == IF log[t] = "inserting" THEN "written" ELSE log[t]
<1>3. /\ call[t] \in Call /\ pc[t] \in 1..5 /\ lock[t] \in [Row -> Mode]
      /\ SlotIs("open", call[t], pc[t], left[t], {a}, lock[t], log[t],
                batch[t], rest[t], rewritten[t])
  BY <1>2, OpenSlot DEF Typing
<1>4. Ladder(call[t], pc[t], left[t], {a}, lock[t], log[t], batch[t], rest[t])
  BY <1>2 DEF Ladders
<1>5. Ladder(call[t], pc[t], left[t], {}, k, g, batch[t], rest[t])
  BY <1>2, <1>3, <1>4, GrantedLadder
<1>6. lock' = [lock EXCEPT ![t] = k]
  BY <1>2
<1> HIDE DEF k
<1>7. /\ ask'[t] = {} /\ log'[t] = g /\ lock'[t] = k
      /\ UNCHANGED <<status, call, pc, left, batch, rest>>
  BY <1>6 DEF Grant, Typing
<1> QED BY <1>1, <1>5, <1>7, LaddersKept

LEMMA GoneOnLadders ==
  ASSUME Typing, Slots, Ladders, NEW t \in Tx,
         StatementDone(t) \/ Lookup(t) \/ EmitEvent(t) \/ MailSent(t) \/ Rewrite(t)
  PROVE  Ladders'
<1>1. Keeps(t)
  BY EachKeeps DEF Progress
<1>2. SUFFICES ASSUME status'[t] = "open", call[t].kind \notin Hasty PROVE Ladders'
  <2>1. call' = call
    BY DEF StatementDone, Lookup, EmitEvent, MailSent, Rewrite
  <2> QED BY <1>1, <2>1, LaddersKept DEF Ladder
<1>3. /\ UNCHANGED <<status, call, ask, lock, batch, rest>>
      /\ ~AtEnd(t) /\ GoOn(t)
      /\ MailSent(t) \/ (ask[t] = {} /\ left[t] = {})
  BY DEF StatementDone, Lookup, EmitEvent, MailSent, Rewrite, Free
<1>4. /\ call[t] \in Call /\ pc[t] \in 1..5
      /\ Len(Steps(call[t].kind)) \in 1..4 /\ Slot(t)
  BY <1>2, <1>3, OpenSlot DEF Slots
<1>5. pc[t] \in 1..4 /\ pc[t] <= Len(Steps(call[t].kind))
  <2> DEFINE n == Len(Steps(call[t].kind))
  <2>1. ~(pc[t] > n) /\ n \in 1..4
    BY <1>3, <1>4 DEF AtEnd
  <2> HIDE DEF n
  <2>2. pc[t] \in 1..4 /\ pc[t] <= n
    BY <1>4, <2>1
  <2> QED BY <2>2 DEF n
<1>6. pc[t] = 1 => left[t] = {} /\ ask[t] = {}
  <2>1. MailSent(t) => Steps(call[t].kind)[pc[t]] = "mail"
    BY DEF MailSent, Step
  <2> QED BY <1>2, <1>3, <1>4, <1>5, <2>1, PatientLogs
<1> DEFINE g == log'[t]
           l == left'[t]
<1>7. g = log[t] \/ (g = "emitted" /\ Steps(call[t].kind)[pc[t]] = "log")
  BY DEF StatementDone, Lookup, EmitEvent, MailSent, Rewrite, Step, Typing
<1>8. pc'[t] = pc[t] + 1
  BY <1>2, <1>3, <1>4, GoOnTyping
<1>9. Ladder(call[t], pc[t], left[t], ask[t], lock[t], log[t], batch[t], rest[t])
  BY <1>2, <1>3 DEF Ladders
<1> HIDE DEF g, l
<1>10. Ladder(call[t], pc[t] + 1, l, ask[t], lock[t], g, batch[t], rest[t])
  BY <1>4, <1>5, <1>6, <1>7, <1>9, AdvancedLadder
<1> QED BY <1>1, <1>3, <1>8, <1>10, LaddersKept DEF g, l

LEMMA NextUserLadders ==
  ASSUME Typing, Slots, Ladders, NEW t \in Tx, NextUser(t)
  PROVE  Ladders'
<1>1. Keeps(t)
  BY EachKeeps DEF Progress
<1>2. PICK u \in NextOf(rest[t]) :
        /\ call' = [call EXCEPT ![t].user = u]
        /\ rest' = [rest EXCEPT ![t] = @ \ {u}]
        /\ left' = [left EXCEPT ![t] = Locked([call[t] EXCEPT !.user = u],
                                             Steps(call[t].kind)[1])]
  BY DEF NextUser
<1>3. /\ pc' = [pc EXCEPT ![t] = 1]
      /\ UNCHANGED <<status, ask, lock, log, batch>>
      /\ status[t] = "open" /\ ask[t] = {} /\ left[t] = {}
  BY DEF NextUser, Free
<1>4. /\ call[t] \in Call /\ batch[t] \in SUBSET User /\ rest[t] \in SUBSET User
      /\ SlotIs("open", call[t], pc[t], {}, {}, lock[t], log[t],
                batch[t], rest[t], rewritten[t])
  BY <1>3, OpenSlot DEF Typing
<1>5. u \in rest[t] /\ u \in User
  BY NextOfIsIn DEF Typing
<1>6. call[t].kind = "anonymise"
  BY <1>3, <1>4, <1>5 DEF SlotIs, Working
<1> DEFINE c == [call[t] EXCEPT !.user = u]
           r == rest[t] \ {u}
           h == {UserRow(u)}
<1>7. c \in Call /\ c.user = u /\ c.kind = "anonymise"
  BY <1>4, <1>5, <1>6, CallWith
<1>8. /\ call' = [call EXCEPT ![t] = c] /\ rest' = [rest EXCEPT ![t] = r]
      /\ left' = [left EXCEPT ![t] = Locked(c, "users")]
  BY <1>2, <1>6, JobSteps DEF Typing
<1> HIDE DEF c
<1>9. Locked(c, "users") = h
  BY <1>7, LockedRows
<1>10. Ladder(call[t], pc[t], {}, {}, lock[t], log[t], batch[t], rest[t])
  BY <1>3 DEF Ladders
<1>11. Ladder(c, 1, h, {}, lock[t], log[t], batch[t], r)
  BY <1>4, <1>6, <1>7, <1>10, NextUserLadder
<1> HIDE DEF r, h
<1>12. call'[t] = c /\ rest'[t] = r /\ left'[t] = h /\ pc'[t] = 1
  BY <1>3, <1>8, <1>9 DEF Typing
<1> QED BY <1>1, <1>3, <1>11, <1>12, LaddersKept

LEMMA NextLadders == IInv /\ Ladders /\ [Next]_vars => Ladders'
<1> SUFFICES ASSUME IInv, Ladders, [Next]_vars PROVE Ladders'
  OBVIOUS
<1>1. CASE Next
  <2>1. PICK t \in Tx : (\E c \in Call : Begin(t, c)) \/ Progress(t) \/ Fails(t)
    BY <1>1 DEF Next
  <2> QED BY <2>1, ClosedLadders, ConnectLadders, FindBatchLadders, AskLadders,
             GrantLadders, GoneOnLadders, NextUserLadders DEF Progress, IInv
<1>2. CASE UNCHANGED vars
  BY <1>2 DEF vars, Ladders
<1> QED BY <1>1, <1>2

LEMMA InitLadders == Init => Ladders
BY DEF Init, Ladders

LEMMA LaddersHold == Spec => []Ladders
BY InitLadders, NextLadders, InvariantHolds, PTL DEF Spec

-----------------------------------------------------------------------------
(* Deadlocks                                                                *)

\* Whoever is patient asks for nothing below what it holds: the rows of a user
\* after those of the users before, and its authentications after itself.
Height(x) == IF x[1] = "users" THEN 2 * x[2] ELSE 2 * x[2] + 1

LEMMA Heights ==
  ASSUME NEW x \in Row, NEW y \in Row
  PROVE  /\ Height(x) \in Nat /\ x[2] \in Nat
         /\ x[2] < y[2] => Height(x) < Height(y)
         /\ x[2] <= y[2] /\ y[1] # "users" => Height(x) <= Height(y)
         /\ Height(x) = Height(y) => x[2] = y[2] /\ (x[1] = "users" <=> y[1] = "users")
<1>1. PICK m \in Nat : m = x[2]
  BY TransactionsAssumption DEF Row
<1>2. PICK n \in Nat : n = y[2]
  BY TransactionsAssumption DEF Row
<1>3. PICK h \in Nat : h = Height(x) /\ (IF x[1] = "users" THEN h = 2 * m ELSE h = 2 * m + 1)
  BY <1>1 DEF Height
<1>4. PICK i \in Nat : i = Height(y) /\ (IF y[1] = "users" THEN i = 2 * n ELSE i = 2 * n + 1)
  BY <1>2 DEF Height
<1>5. m < n => h < i
  BY <1>3, <1>4
<1>6. m <= n /\ y[1] # "users" => h <= i
  BY <1>3, <1>4
<1>7. h = i => m = n /\ (x[1] = "users" <=> y[1] = "users")
  BY <1>3, <1>4
<1> QED BY <1>1, <1>2, <1>3, <1>4, <1>5, <1>6, <1>7

LEMMA AskedAbove ==
  ASSUME Typing, Slots, Ladders, NEW t \in Tx, call[t].kind \notin Hasty,
         NEW a \in ask[t], NEW x \in Row, lock[t][x] # 0
  PROVE  /\ Height(x) <= Height(a.row)
         /\ Height(x) = Height(a.row) => a.row[1] # "users"
         /\ a.row[1] # "users" => lock[t][UserRow(a.row[2])] >= Update
<1>1. status[t] = "open"
  BY DEF Slots, Slot, SlotIs, Asking
<1> DEFINE c == call[t]
           p == pc[t]
           k == lock[t]
           y == a.row
<1>2. /\ c \in Call /\ p \in 1..5 /\ k[x] # 0 /\ c.kind \notin Hasty /\ ask[t] # {}
      /\ SlotIs("open", c, p, left[t], ask[t], k, log[t],
                batch[t], rest[t], rewritten[t])
  BY <1>1, OpenSlot
<1>3. /\ Upwards(c, k, batch[t], rest[t])
      /\ UserFirst(c, p, left[t], ask[t], k)
      /\ LogOnly(c, p, k, log[t])
  BY <1>1 DEF Ladders, Ladder
<1>4. log[t] # "inserting"
  <2>1. CASE log[t] = "inserting"
    <3>1. k = Unlocked
      BY <1>3, <2>1 DEF LogOnly
    <3> QED BY <3>1 DEF Unlocked
  <2> QED BY <2>1
<1>5. y \in Here(c, p) /\ p <= Len(Steps(c.kind))
  <2>1. PICK r \in Here(c, p) \ left[t], m \in AllModes(c, Steps(c.kind)[p]) :
          ask[t] = {[row |-> r, mode |-> m]}
    BY <1>2, <1>4 DEF SlotIs, Asking
  <2> QED BY <1>2, <1>4, <2>1 DEF SlotIs, Asking
<1> SUFFICES /\ Height(x) <= Height(y)
             /\ Height(x) = Height(y) => y[1] # "users"
             /\ y[1] # "users" => k[UserRow(y[2])] >= Update
  OBVIOUS
<1> HIDE DEF c, p, k, y
<1>6. c.kind \in Patient
  BY <1>2, PatientKinds, CallParts
<1>7. y \in Row /\ y[2] = c.user
  BY <1>2, <1>5, HereRows
<1>8. x[2] \in Nat /\ c.user \in Nat
  BY <1>7, Heights
<1>9. x[2] <= c.user
  <2>1. CASE c.kind # "anonymise"
    <3>1. x[2] = c.user
      BY <1>2, <1>3, <2>1 DEF Upwards
    <3> QED BY <1>8, <3>1
  <2>2. CASE c.kind = "anonymise"
    <3>1. x[2] \in batch[t] \ rest[t]
      BY <1>2, <2>2 DEF SlotIs, Covering
    <3> QED BY <1>3, <3>1 DEF Upwards
  <2> QED BY <2>1, <2>2
<1>10. CASE p = 1
  <2>1. x[2] # c.user
    BY <1>2, <1>3, <1>10 DEF UserFirst
  <2>2. x[2] < c.user
    BY <1>8, <1>9, <2>1
  <2>3. Height(x) < Height(y) /\ Height(x) \in Nat /\ Height(y) \in Nat
    BY <1>7, <2>2, Heights
  <2>4. y = UserRow(c.user)
    <3>1. c.kind = "anonymise"
      BY <1>2, <1>3, <2>1 DEF Upwards
    <3> QED BY <1>2, <1>5, <1>10, <3>1, FirstLocks
  <2>5. Height(x) <= Height(y) /\ Height(x) # Height(y)
    BY <2>3
  <2> QED BY <2>4, <2>5 DEF UserRow
<1>11. CASE p # 1
  <2>1. PICK n \in 1..4 : n = Len(Steps(c.kind))
    BY <1>2, StepsLength, CallParts
  <2>2. p \in 2..4 /\ p <= n
    <3>1. p <= n
      BY <1>5, <2>1
    <3> QED BY <1>2, <1>11, <3>1
  <2>3. c.kind \notin {"signUp", "addLocal", "signOut"}
    <3>1. c.kind \in {"signUp", "addLocal", "signOut"} => n = 1
      BY <2>1, PatientSteps
    <3> QED BY <2>2, <3>1
  <2>4. c.kind # "mail"
    BY <1>2, <1>5, FirstLocks
  <2>5. c.kind # "idp"
    <3> SUFFICES ASSUME c.kind = "idp" PROVE FALSE
      OBVIOUS
    <3>1. n = 2 /\ Steps(c.kind)[2] = "reload"
      BY <2>1, StepsOfIdp
    <3>2. p = 2
      BY <2>2, <3>1
    <3>3. Here(c, p) = {}
      BY <1>2, <3>1, <3>2, LockedRows DEF Here
    <3> QED BY <1>5, <3>3
  <2>6. c.kind \in {"close", "anonymise"}
    BY <1>6, <2>3, <2>4, <2>5 DEF Patient
  <2>7. Here(c, p) \subseteq Provider \X {c.user}
    <3>1. /\ Steps(c.kind)[2] = "all"
          /\ c.kind = "anonymise" => n = 3 /\ Steps(c.kind)[3] = "events"
          /\ c.kind = "close" => n = 2
      BY <2>1, <2>6, PatientSteps, JobSteps
    <3>2. p = 2 \/ (p = 3 /\ c.kind = "anonymise")
      BY <2>2, <2>6, <3>1
    <3>3. Locked(c, "all") = Provider \X {c.user} /\ Locked(c, "events") = {}
      BY DEF Locked
    <3> QED BY <3>1, <3>2, <3>3 DEF Here
  <2>8. y[1] # "users"
    <3>1. "users" \notin Provider
      BY TransactionsAssumption DEF Provider
    <3> QED BY <1>5, <2>7, <3>1
  <2>9. Height(x) <= Height(y)
    BY <1>7, <1>9, <2>8, Heights
  <2>10. k[UserRow(c.user)] >= Update
    <3>1. CASE c.kind = "close"
      BY <1>3, <1>11, <3>1 DEF UserFirst
    <3>2. CASE c.kind = "anonymise"
      <4>1. c.user \in batch[t] \ rest[t] /\ p > 1
        BY <1>2, <2>2, <3>2 DEF SlotIs, Working
      <4> QED BY <1>2, <3>2, <4>1 DEF SlotIs, Covering, Strong, Update
    <3> QED BY <2>6, <3>1, <3>2
  <2> QED BY <1>7, <2>8, <2>9, <2>10
<1> QED BY <1>10, <1>11

\* Every nonempty set of naturals has a least element.
LEMMA LeastNatural ==
  ASSUME NEW T \in SUBSET Nat, T # {}
  PROVE  \E n \in T : \A m \in T : n <= m
<1> DEFINE R == OpToRel(<, Nat)
<1>1. IsWellFoundedOn(R, Nat)
  BY NatLessThanWellFounded
<1>2. T \subseteq Nat /\ T # {}
  OBVIOUS
<1>3. \E n \in T : \A m \in T : ~(<<m, n>> \in R)
  <2> HIDE DEF R
  <2> QED BY <1>1, <1>2, WFMin
<1>4. PICK n \in T : \A m \in T : ~(m < n)
  BY <1>3 DEF OpToRel
<1> QED BY <1>4

\* In a cycle each is in the way of another, or there were a smaller cycle.
LEMMA EachBlocks ==
  ASSUME NEW S \in SUBSET Tx, Cycle(S), NEW t \in S
  PROVE  \E b \in S : Blocks(t, b)
<1>1. PICK b \in S : Blocks(b, t)
  BY DEF Cycle
<1>2. b # t
  BY <1>1 DEF Blocks, Conflict
<1>3. S \ {t} \in (SUBSET S) \ {{}, S}
  BY <1>2
<1>4. PICK s \in S \ {t} : \A d \in S \ {t} : ~Blocks(d, s)
  BY <1>3 DEF Cycle
<1>5. PICK d \in S : Blocks(d, s)
  BY DEF Cycle
<1> QED BY <1>4, <1>5

LEMMA PatientCycle ==
  ASSUME Typing, Slots, Compatible, Ladders, NEW S \in SUBSET Tx, Cycle(S)
  PROVE  \E t \in S : call[t].kind \in Hasty
<1> SUFFICES ASSUME \A t \in S : call[t].kind \notin Hasty PROVE FALSE
  OBVIOUS
<1>1. ASSUME NEW t \in S, NEW a \in ask[t]
      PROVE  /\ a \in [row : Row, mode : Mode] /\ Height(a.row) \in Nat
             /\ a.row[2] \in Nat
  <2>1. a \in [row : Row, mode : Mode]
    BY <1>1 DEF Typing
  <2>2. a.row[2] \in Nat
    BY <2>1, TransactionsAssumption DEF Row
  <2> QED BY <2>1, <2>2 DEF Height
<1> DEFINE H == {Height(a.row) : a \in UNION {ask[t] : t \in S}}
<1>2. H \in SUBSET Nat /\ H # {}
  <2>1. PICK t \in S : TRUE
    BY DEF Cycle
  <2>2. PICK b \in S : Blocks(b, t)
    BY DEF Cycle
  <2>3. PICK a \in ask[t] : TRUE
    BY <2>2 DEF Blocks
  <2> QED BY <1>1, <2>3
<1>3. PICK n \in H : \A m \in H : n <= m
  <2> HIDE DEF H
  <2> QED BY <1>2, LeastNatural
<1>s. PICK t \in S : \E a \in ask[t] : n = Height(a.row)
  BY <1>3
<1>4. PICK a \in ask[t] : n = Height(a.row)
  BY <1>s
<1>5. PICK c \in S : Blocks(t, c)
  BY EachBlocks
<1>6. PICK q \in ask[c] : Conflict(c, t, q)
  BY <1>5 DEF Blocks
<1>7. Height(a.row) <= Height(q.row)
  BY <1>3, <1>4
<1>8. /\ q.row \in Row /\ Height(q.row) \in Nat /\ q.row[2] \in Nat
      /\ a.row \in Row /\ Height(a.row) \in Nat /\ a.row[2] \in Nat
  BY <1>1
<1>9. t # c /\ lock[t][q.row] # 0
  BY <1>6 DEF Conflict
<1>10. /\ Height(q.row) <= Height(a.row)
       /\ Height(q.row) = Height(a.row) => a.row[1] # "users"
       /\ a.row[1] # "users" => lock[t][UserRow(a.row[2])] >= Update
  BY <1>8, <1>9, AskedAbove
<1>11. /\ a.row[1] # "users" /\ q.row[1] # "users" /\ q.row[2] = a.row[2]
       /\ lock[t][UserRow(a.row[2])] >= Update
  <2>1. Height(q.row) = Height(a.row)
    BY <1>7, <1>8, <1>10
  <2> QED BY <1>8, <1>10, <2>1 DEF Height
<1>12. PICK d \in S : Blocks(c, d)
  BY EachBlocks
<1>13. PICK e \in ask[d] : Conflict(d, c, e)
  BY <1>12 DEF Blocks
<1>14. e.row \in Row /\ lock[c][e.row] # 0
  BY <1>1, <1>13 DEF Conflict
<1>15. lock[c][UserRow(q.row[2])] >= Update
  BY <1>11, <1>14, AskedAbove
<1>16. UserRow(a.row[2]) \in Row
  BY <1>8, UserRowIsRow DEF Row
<1>17. PICK x \in Row : x = UserRow(a.row[2])
  BY <1>16
<1>18. lock[t][x] \in 0..3 /\ lock[c][x] \in 0..3
  BY DEF Typing, Mode
<1>19. lock[t][x] >= 2 /\ lock[c][x] >= 2
  BY <1>11, <1>15, <1>17 DEF Update
<1>20. lock[t][x] + lock[c][x] < 4
  BY <1>9, <1>18, <1>19 DEF Compatible
<1> QED BY <1>18, <1>19, <1>20

\* Among sign-outs, closed profiles, sign-ins through a provider, mails and the
\* nightly job nobody ever waits in a circle, for any number of them.
THEOREM PatientNeverDeadlock == Spec => []DeadlockNeedsHaste
<1>1. IInv /\ Ladders => DeadlockNeedsHaste
  BY PatientCycle DEF IInv, DeadlockNeedsHaste
<1> QED BY <1>1, InvariantHolds, LaddersHold, PTL
=============================================================================
