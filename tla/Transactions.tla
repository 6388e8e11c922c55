---------------------------- MODULE Transactions ----------------------------
(***************************************************************************)
(* The transactions of the server against the row locks of PostgreSQL, the *)
(* two connection pools, and the account history whose INSERT nobody       *)
(* awaits.  What the transactions read and write is in Accounts; here is   *)
(* in which order they lock, wait, log, commit and are undone.             *)
(*                                                                         *)
(* A slot t \in Tx runs one transaction.  The nightly job keeps users in   *)
(* its batch that others have restored since (Accounts), so any request    *)
(* may run beside it on the same user.                                     *)
(***************************************************************************)
EXTENDS Naturals, Sequences, FiniteSets

CONSTANTS
  Tx,           \* slots for transactions
  User,         \* the users, by id: the nightly job reads them in this order
  Idp,          \* the identity providers
  PoolSize      \* connections of each process

ASSUME TransactionsAssumption ==
  /\ IsFiniteSet(Tx)
  /\ User \subseteq Nat
  /\ PoolSize \in Nat \ {0}
  /\ "local" \notin Idp
  /\ "users" \notin Idp

Provider == {"local"} \cup Idp

\* A row of users, or one of the authentications of a user.
Row == ({"users"} \cup Provider) \X User

Process == {"api", "consumer"}

-----------------------------------------------------------------------------
(* The code of the transactions                                             *)

\* The statements of each transaction in their order, the query it makes on a
\* second connection ("lookup"), the event it emits for the history ("log") and
\* the mail it waits for.

\* localSignUp: the user name is looked up without the manager, then the rows
\* are inserted; or a user has signed up with a provider, and the new
\* authentication refers to him.
SignUpSteps == <<"lookup">>
AddLocalSteps == <<"refer">>

\* signIn takes the session away from the other authentications.
SignInSteps == <<"own", "others">>
SignOutSteps == <<"own">>

\* localEmailVerification, localReactivationConfirm, localRestorationConfirm.
ConfirmSteps == <<"own", "others", "users", "log">>

\* localPasswordResetConfirm.
ResetSteps == <<"own", "log">>

\* Mutant of CloseSteps: the authentications are updated first.
AuthsFirst == <<"all", "users">>

\* deactivateUserProfile and deleteUserProfile.
CloseSteps == <<"users", "all">>

\* Mutant of IdpSteps: the reload is made without the manager.
ReloadOutside == <<"users", "lookup">>

\* idPAuthentication of a known user, and of one that it reactivates.
IdpSteps == <<"users", "reload">>
IdpReopenSteps == <<"log", "users", "reload">>

\* sendEmailVerification stores that a link is out; the others only log and send.
VerifyMailSteps == <<"own", "log", "mail">>
MailSteps == <<"log", "mail">>

\* Mutant of AnonymiseSteps: the history is updated before the user is saved.
EventsFirst == <<"events", "users", "all">>

\* anonymizeUserProfile, for each user of a batch.
AnonymiseSteps == <<"users", "all", "events">>

Steps(k) ==
  CASE k = "signUp"                  -> SignUpSteps
    [] k = "addLocal"                -> AddLocalSteps
    [] k = "signIn"                  -> SignInSteps
    [] k = "signOut"                 -> SignOutSteps
    [] k \in {"verify", "reopen"}    -> ConfirmSteps
    [] k = "reset"                   -> ResetSteps
    [] k = "close"                   -> CloseSteps
    [] k = "idp"                     -> IdpSteps
    [] k = "idpReopen"               -> IdpReopenSteps
    [] k = "verifyMail"              -> VerifyMailSteps
    [] k = "mail"                    -> MailSteps
    [] k = "anonymise"               -> AnonymiseSteps

Mails == {"verifyMail", "mail"}

Kind == {"signUp", "addLocal", "signIn", "signOut", "verify", "reopen", "reset", "close",
         "idp", "idpReopen", "anonymise"} \cup Mails

\* Who may run a transaction: the nightly job is in both processes.
RunsIn(k) == CASE k \in Mails      -> {"consumer"}
               [] k = "anonymise"  -> Process
               [] OTHER            -> {"api"}

Call == [kind : Kind, user : User, own : Provider, home : Process]

\* The rows that a statement locks, one after the other in no fixed order.
Locked(c, s) ==
  CASE s = "own"               -> {<<c.own, c.user>>}
    [] s = "others"            -> (Provider \ {c.own}) \X {c.user}
    [] s = "all"               -> Provider \X {c.user}
    [] s \in {"users", "refer"} -> {<<"users", c.user>>}
    [] OTHER                   -> {}

\* Lock modes: FOR KEY SHARE (a foreign key), FOR NO KEY UPDATE, FOR UPDATE (an
\* UPDATE that changes a unique column).  Two modes conflict if their sum is 4.
Share == 1
Update == 2
Strong == 3
Mode == 0..3

-----------------------------------------------------------------------------

VARIABLES
  status,       \* of the transaction; a "silent" one was answered with success,
                \* but its COMMIT was a ROLLBACK
  call,         \* which transaction it is; .user is the current one of a batch
  pc,           \* the step it is at
  left,         \* rows of the current statement it has not asked for
  ask,          \* the row lock it waits for: none or one [row, mode]
  lock,         \* the locks it holds
  log,          \* its history INSERT, from emit to the row
  batch,        \* the users of a nightly batch
  rest,         \* those of them that are not done
  rewritten,    \* history rows in which a batch replaced the address
  history,      \* the transactions whose history row is committed
  after         \* ghost: rows inserted when their user had been anonymised

vars == <<status, call, pc, left, ask, lock, log, batch, rest, rewritten, history,
          after>>

Ended == {"committed", "silent", "rolledBack"}
Status == {"idle", "queued", "open", "aborted"} \cup Ended

-----------------------------------------------------------------------------
(* State functions                                                          *)

AtEnd(t) == pc[t] > Len(Steps(call[t].kind))

Step(t) == Steps(call[t].kind)[pc[t]]

\* The client is not waiting for a statement and has all rows of the last one.
Free(t) == status[t] = "open" /\ ask[t] = {} /\ left[t] = {}

Used(p) == Cardinality({t \in Tx : status[t] \in {"open", "aborted"} /\ call[t].home = p})

Conflict(t, b, a) == b # t /\ lock[b][a.row] # 0 /\ lock[b][a.row] + a.mode >= 4

Blocks(b, t) == \E a \in ask[t] : Conflict(t, b, a)

\* A cycle of transactions that wait for each other, and no more.
Cycle(S) == /\ S # {}
            /\ \A t \in S : \E b \in S : Blocks(b, t)
            /\ \A R \in (SUBSET S) \ {{}, S} : \E t \in R : \A b \in R : ~Blocks(b, t)

Anonymised == UNION {batch[t] : t \in {x \in Tx : status[x] = "committed"}}

\* Mutant of Modes: a profile that is closed gives its user name free.
ModesFreeingName(c, s) == IF s = "users" /\ c.kind = "close" THEN {Strong} ELSE {Update}

\* Verification and sign-in through a provider may change the user name,
\* anonymisation changes the address, unless the job of the other process has.
Modes(c, s) == CASE s = "refer"                          -> {Share}
                 [] s = "users" /\ c.kind = "anonymise"
                      -> {m \in {Update, Strong} : m = Strong \/ c.user \in Anonymised}
                 [] s = "users" /\ c.kind \in {"verify", "idp", "idpReopen"}
                                                         -> {Update, Strong}
                 [] OTHER                                -> {Update}

Cleared == UNION {rewritten[t] : t \in {x \in Tx : status[x] = "committed"}}

Unlocked == [r \in Row |-> 0]

NoCall == [kind |-> "none"]

-----------------------------------------------------------------------------

Init ==
  /\ status = [t \in Tx |-> "idle"]
  /\ call = [t \in Tx |-> NoCall]
  /\ pc = [t \in Tx |-> 1]
  /\ left = [t \in Tx |-> {}]
  /\ ask = [t \in Tx |-> {}]
  /\ lock = [t \in Tx |-> Unlocked]
  /\ log = [t \in Tx |-> "none"]
  /\ batch = [t \in Tx |-> {}]
  /\ rest = [t \in Tx |-> {}]
  /\ rewritten = [t \in Tx |-> {}]
  /\ history = {}
  /\ after = {}

\* A handler reaches dataSource.transaction and asks its pool for a connection.
Begin(t, c) ==
  /\ status[t] = "idle"
  /\ c.home \in RunsIn(c.kind)
  /\ c.own # "local" => c.kind = "signIn" \/ c.kind = "signOut"
  /\ status' = [status EXCEPT ![t] = "queued"]
  /\ call' = [call EXCEPT ![t] = c]
  /\ UNCHANGED <<pc, left, ask, lock, log, batch, rest, rewritten, history, after>>

\* A connection is free: START TRANSACTION, and the nightly job reads its batch.
Connect(t) ==
  /\ status[t] = "queued" /\ Used(call[t].home) < PoolSize
  /\ call[t].kind # "anonymise"
  /\ status' = [status EXCEPT ![t] = "open"]
  /\ left' = [left EXCEPT ![t] = Locked(call[t], Step(t))]
  /\ UNCHANGED <<call, pc, ask, lock, log, batch, rest, rewritten, history, after>>

\* order: { id: "ASC" }.
NextOf(S) == {u \in S : \A v \in S : u <= v}

FindBatch(t) ==
  /\ status[t] = "queued" /\ Used(call[t].home) < PoolSize
  /\ call[t].kind = "anonymise"
  /\ \/ /\ status' = [status EXCEPT ![t] = "committed"]      \* nobody to anonymise
        /\ UNCHANGED <<call, left, batch, rest>>
     \/ \E S \in SUBSET (User \ Anonymised) : \E u \in NextOf(S) :
          /\ status' = [status EXCEPT ![t] = "open"]
          /\ call' = [call EXCEPT ![t].user = u]
          /\ left' = [left EXCEPT ![t] = Locked([call[t] EXCEPT !.user = u], Step(t))]
          /\ batch' = [batch EXCEPT ![t] = S]
          /\ rest' = [rest EXCEPT ![t] = S \ {u}]
  /\ UNCHANGED <<pc, ask, lock, log, rewritten, history, after>>

-----------------------------------------------------------------------------
(* Statements                                                               *)

\* A statement comes to its next row.
Ask(t) ==
  /\ status[t] = "open" /\ ask[t] = {}
  /\ \E r \in left[t] : \E m \in Modes(call[t], Step(t)) :
       /\ ask' = [ask EXCEPT ![t] = {[row |-> r, mode |-> m]}]
       /\ left' = [left EXCEPT ![t] = @ \ {r}]
  /\ UNCHANGED <<status, call, pc, lock, log, batch, rest, rewritten, history, after>>

\* Whoever holds more keeps it.
Held(t, a) == [lock EXCEPT ![t][a.row] = IF @ < a.mode THEN a.mode ELSE @]

\* Nobody holds a lock in the way.  A history INSERT has its row with the lock
\* of the foreign key.
Grant(t) ==
  /\ status[t] = "open"
  /\ \E a \in ask[t] :
       /\ \A b \in Tx : ~Conflict(t, b, a)
       /\ lock' = Held(t, a)
  /\ ask' = [ask EXCEPT ![t] = {}]
  /\ IF log[t] = "inserting"
       THEN /\ log' = [log EXCEPT ![t] = "written"]
            /\ after' = IF call[t].user \in Anonymised THEN after \cup {t} ELSE after
       ELSE UNCHANGED <<log, after>>
  /\ UNCHANGED <<status, call, pc, left, batch, rest, rewritten, history>>

\* The next step, when the client has the result of this one.
GoOn(t) ==
  /\ pc' = [pc EXCEPT ![t] = @ + 1]
  /\ left' = [left EXCEPT ![t] = IF pc[t] < Len(Steps(call[t].kind))
                                   THEN Locked(call[t], Steps(call[t].kind)[pc[t] + 1])
                                   ELSE {}]

StatementDone(t) ==
  /\ Free(t) /\ ~AtEnd(t)
  /\ Step(t) \in {"own", "others", "all", "users", "refer", "reload"}
  /\ GoOn(t)
  /\ UNCHANGED <<status, call, ask, lock, log, batch, rest, rewritten, history, after>>

\* A query without the manager takes a connection of its own.
Lookup(t) ==
  /\ Free(t) /\ ~AtEnd(t)
  /\ Step(t) = "lookup"
  /\ Used(call[t].home) < PoolSize
  /\ GoOn(t)
  /\ UNCHANGED <<status, call, ask, lock, log, batch, rest, rewritten, history, after>>

\* eventEmitter.emit returns before its handler has done anything.
EmitEvent(t) ==
  /\ Free(t) /\ ~AtEnd(t)
  /\ Step(t) = "log"
  /\ log' = [log EXCEPT ![t] = "emitted"]
  /\ GoOn(t)
  /\ UNCHANGED <<status, call, ask, lock, batch, rest, rewritten, history, after>>

\* Mutant of Insert: createEvent is not given the manager.
InsertOutside(t) ==
  /\ status[t] = "open" /\ ask[t] = {} /\ log[t] = "emitted"
  /\ log' = [log EXCEPT ![t] = "written"]
  /\ history' = history \cup {t}
  /\ UNCHANGED <<status, call, pc, left, ask, lock, batch, rest, rewritten, after>>

\* createEvent saves the row with the manager of the transaction; what the
\* transaction does next queues up behind the INSERT.
Insert(t) ==
  /\ status[t] = "open" /\ ask[t] = {} /\ log[t] = "emitted"
  /\ log' = [log EXCEPT ![t] = "inserting"]
  /\ ask' = [ask EXCEPT ![t] = {[row |-> <<"users", call[t].user>>, mode |-> Share]}]
  /\ UNCHANGED <<status, call, pc, left, lock, batch, rest, rewritten, history, after>>

\* sendMail resolves; the INSERT may still be waiting for its lock.
MailSent(t) ==
  /\ status[t] \in {"open", "aborted"} /\ ~AtEnd(t)
  /\ Step(t) = "mail" /\ log[t] # "emitted"
  /\ GoOn(t)
  /\ UNCHANGED <<status, call, ask, lock, log, batch, rest, rewritten, history, after>>

\* The UPDATE of the committed history rows of a user.
Rewrite(t) ==
  /\ Free(t) /\ ~AtEnd(t)
  /\ Step(t) = "events"
  /\ rewritten' = [rewritten EXCEPT ![t] = @ \cup {x \in history : call[x].user = call[t].user}]
  /\ GoOn(t)
  /\ UNCHANGED <<status, call, ask, lock, log, batch, rest, history, after>>

NextUser(t) ==
  /\ Free(t) /\ AtEnd(t) /\ rest[t] # {}
  /\ \E u \in NextOf(rest[t]) :
       /\ call' = [call EXCEPT ![t].user = u]
       /\ rest' = [rest EXCEPT ![t] = @ \ {u}]
       /\ left' = [left EXCEPT ![t] = Locked([call[t] EXCEPT !.user = u],
                                             Steps(call[t].kind)[1])]
  /\ pc' = [pc EXCEPT ![t] = 1]
  /\ UNCHANGED <<status, ask, lock, log, batch, rewritten, history, after>>

-----------------------------------------------------------------------------
(* Ends                                                                     *)

\* Mutant of End: the connection goes back to the pool with its transaction open.
EndWithLocks(t, how) ==
  /\ status' = [status EXCEPT ![t] = how]
  /\ ask' = [ask EXCEPT ![t] = {}]
  /\ left' = [left EXCEPT ![t] = {}]
  /\ UNCHANGED lock

\* The locks and the connection are given back.
End(t, how) ==
  /\ status' = [status EXCEPT ![t] = how]
  /\ ask' = [ask EXCEPT ![t] = {}]
  /\ left' = [left EXCEPT ![t] = {}]
  /\ lock' = [lock EXCEPT ![t] = Unlocked]

\* COMMIT.  It may overtake an INSERT that is not on its way yet, if nothing
\* was awaited since the event was emitted.
Commit(t) ==
  /\ Free(t) /\ AtEnd(t) /\ rest[t] = {}
  /\ \/ log[t] \in {"none", "written"} /\ UNCHANGED log
     \/ /\ log[t] = "emitted"
        /\ Steps(call[t].kind)[Len(Steps(call[t].kind))] = "log"
        /\ log' \in {[log EXCEPT ![t] = "late"], [log EXCEPT ![t] = "lost"]}
  /\ history' = IF log[t] = "written" THEN history \cup {t} ELSE history
  /\ End(t, "committed")
  /\ UNCHANGED <<call, pc, batch, rest, rewritten, after>>

\* The INSERT after the COMMIT, in no transaction.
InsertLate(t) ==
  /\ log[t] = "late"
  /\ \A b \in Tx \ {t} : lock[b][<<"users", call[t].user>>] # Strong
  /\ log' = [log EXCEPT ![t] = "written"]
  /\ history' = history \cup {t}
  /\ after' = IF call[t].user \in Anonymised THEN after \cup {t} ELSE after
  /\ UNCHANGED <<status, call, pc, left, ask, lock, batch, rest, rewritten>>

\* A statement, the mail or the COMMIT fails, or the process dies: ROLLBACK.
RollBack(t) ==
  /\ End(t, "rolledBack")
  /\ log' = [log EXCEPT ![t] = IF @ = "none" THEN @ ELSE "lost"]
  /\ UNCHANGED <<call, pc, batch, rest, rewritten, history, after>>

Fails(t) == status[t] = "open" /\ RollBack(t)

\* PostgreSQL's deadlock detector ends one member of a cycle.  If that was
\* waiting in the history INSERT, only the handler of the event is told.
Victim(t) ==
  /\ \E S \in SUBSET Tx : Cycle(S) /\ t \in S
  /\ \/ log[t] # "inserting" /\ RollBack(t)
     \/ /\ log[t] = "inserting"
        /\ log' = [log EXCEPT ![t] = "lost"]
        /\ status' = [status EXCEPT ![t] = "aborted"]
        /\ ask' = [ask EXCEPT ![t] = {}]
        /\ lock' = [lock EXCEPT ![t] = Unlocked]
        /\ UNCHANGED <<call, pc, left, batch, rest, rewritten, history, after>>

\* In an aborted transaction the next statement throws, and a COMMIT quietly
\* rolls back.
EndAborted(t) ==
  /\ status[t] = "aborted"
  /\ IF AtEnd(t)
       THEN /\ End(t, "silent")
            /\ UNCHANGED <<call, pc, log, batch, rest, rewritten, history, after>>
       ELSE Step(t) # "mail" /\ RollBack(t)

-----------------------------------------------------------------------------
(* The specification                                                        *)

Progress(t) ==
  \/ Connect(t) \/ FindBatch(t)
  \/ Ask(t) \/ Grant(t) \/ StatementDone(t) \/ Lookup(t)
  \/ EmitEvent(t) \/ Insert(t) \/ MailSent(t) \/ Rewrite(t) \/ NextUser(t)
  \/ Commit(t) \/ InsertLate(t) \/ Victim(t) \/ EndAborted(t)

Next ==
  \E t \in Tx : \/ \E c \in Call : Begin(t, c)
                \/ Progress(t)
                \/ Fails(t)

Spec == Init /\ [][Next]_vars

\* Statements return, mails are sent or time out, free connections are given
\* to who waits, and the detector runs.  Nothing fails out of fairness.
FairSpec == Spec /\ \A t \in Tx : WF_vars(Progress(t))

-----------------------------------------------------------------------------
(* Correctness                                                              *)

\* The state is well typed, no pool hands out more than it has, locks never
\* conflict, and only open transactions hold any.
TypeOK ==
  /\ status \in [Tx -> Status]
  /\ call \in [Tx -> Call \cup {NoCall}]
  /\ pc \in [Tx -> 1..5]
  /\ left \in [Tx -> SUBSET Row]
  /\ ask \in [Tx -> SUBSET [row : Row, mode : Mode]]
  /\ lock \in [Tx -> [Row -> Mode]]
  /\ log \in [Tx -> {"none", "emitted", "inserting", "written", "late", "lost"}]
  /\ batch \in [Tx -> SUBSET User]
  /\ rest \in [Tx -> SUBSET User]
  /\ rewritten \in [Tx -> SUBSET Tx]
  /\ history \subseteq Tx
  /\ after \subseteq Tx
  /\ \A p \in Process : Used(p) <= PoolSize
  /\ \A t, b \in Tx, r \in Row :
       t # b /\ lock[t][r] # 0 /\ lock[b][r] # 0 => lock[t][r] + lock[b][r] < 4
  /\ \A t \in Tx : status[t] # "open" => lock[t] = Unlocked

\* The account history tells of committed transactions only, though nobody
\* waits for its INSERT and a deadlock, a failing mail or a crash may undo the
\* transaction at any moment.
HistoryIsTrue == \A t \in history : status[t] = "committed"

\* The nightly job replaces the address in every history row there is when it
\* commits, the rows of transactions beside it included: what keeps an address
\* was inserted afterwards.
JobClearsHistory ==
  \A t \in history : call[t].user \in Anonymised => t \in Cleared \cup after

\* A request that was answered with success while its changes were rolled back
\* had a nightly job beside it.
SilentOnlyBesideJob ==
  \A t \in Tx : status[t] \in {"silent", "aborted"} =>
    \E j \in Tx : call[j].kind = "anonymise" /\ call[t].user \in batch[j]

\* Deactivation, deletion and the nightly job lock the user first, and the job
\* goes through its batch in order: they never deadlock among themselves, nor
\* with mails and provider sign-ins.  In every deadlock somebody locked an
\* authentication, or logged, before the user.
Hasty == {"signIn", "verify", "reopen", "reset", "verifyMail", "idpReopen"}

DeadlockNeedsHaste ==
  \A S \in SUBSET Tx : Cycle(S) => \E t \in S : call[t].kind \in Hasty

\* Sign-ups hold all connections of the pool, and each waits for another one.
PoolStuck ==
  \E S \in SUBSET Tx : /\ Cardinality(S) = PoolSize
                       /\ \A t \in S : /\ status[t] = "open" /\ ~AtEnd(t)
                                       /\ call[t].kind = "signUp"

\* Every transaction ends, whatever the locks, unless sign-ups of new users
\* have used up the pool of the API with lookups outside their transactions.
EveryTransactionEnds ==
  \A t \in Tx :
    status[t] # "idle"
      ~> (status[t] \in Ended \/ (PoolStuck /\ call[t].home = "api"))

\* "Clears PII (...)": no history row of an anonymised user has the address.
AnonymisedLeavesNoAddress ==
  \A t \in history : call[t].user \in Anonymised => t \in Cleared
=============================================================================
