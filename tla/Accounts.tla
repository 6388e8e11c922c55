------------------------------ MODULE Accounts ------------------------------
(***************************************************************************)
(* The life of an account: AuthService, UsersService, the local and IdP    *)
(* sign-in strategies, RmqEmailService and CronService over the tables     *)
(* users and authentications.                                              *)
(*                                                                         *)
(* A handler reads rows first and opens a transaction later, so it is two  *)
(* actions: Begin... evaluates its guards on what it read and keeps the    *)
(* part of the snapshot it uses later; Commit... is its transaction.  In   *)
(* between, anybody else may commit.  A transaction that updates several   *)
(* authentications of a user with several statements takes their row locks *)
(* one by one and shows its writes at COMMIT; one that writes a row or two *)
(* in a single statement is one step, possible while the rows are free.    *)
(* Abort stands for every failure after the read: a deadlock or a unique   *)
(* violation, a lost connection, a throw of addToBlacklist.                *)
(***************************************************************************)
EXTENDS Naturals, FiniteSets

CONSTANTS
  User,          \* the accounts, one per e-mail address
  Idp,           \* the identity providers: google, github, yandex
  Request,       \* slots: the requests that may be in flight together
  Cron,          \* the processes that run the nightly job
  Batch,         \* CRON_USER_ANONYMIZATION_BATCH
  MaxPasswords,  \* bound: password hashes made for one account
  MaxAborts,     \* bound: batches of the nightly job that fail
  Redeliver,     \* a message may be handled again after its mail was sent
  Overlap        \* requests and mails may be in flight while the job runs

ASSUME AccountsAssumption ==
  /\ "local" \notin Idp
  /\ Batch \in Nat \ {0}          \* CRON_USER_ANONYMIZATION_BATCH || 25
  /\ MaxPasswords \in Nat
  /\ MaxAborts \in Nat
  /\ Redeliver \in BOOLEAN
  /\ Overlap \in BOOLEAN

Provider == {"local"} \cup Idp

\* A row of users.  "old": deletedAt is more than 30 days ago.
Account == [deactivated : BOOLEAN, deleted : {"no", "recent", "old"},
            anonymised : BOOLEAN]

Untouched == [deactivated |-> FALSE, deleted |-> "no", anonymised |-> FALSE]

\* metadata.local of the local authentication; NoMeta: it has none.
Meta == [verified : BOOLEAN, password : 0..MaxPasswords]
NoMeta == [verified |-> FALSE, password |-> 0]

Kind == {"created", "reset", "reactivation", "restoration"}

\* A request in flight: the part of what it read that it will use later.
Op == {"signUp", "verify", "signIn", "idp", "reset", "deactivate", "delete",
       "reactivate", "restore"}
Task == [op : Op, user : User, via : Provider,
         meta : Meta,              \* metadata.local as read
         known : SUBSET Provider,  \* the authentications as read
         deactivated : BOOLEAN,    \* isDeactivated as read
         link : 0..MaxPasswords,   \* the password that signed its reset link
         stmt : 0..2,              \* UPDATEs of authentications it has started
         held : SUBSET Provider,   \* the authentications it has updated
         left : SUBSET Provider,   \* those its second UPDATE has yet to update
         stale : BOOLEAN]          \* ghost: closed since the read
Idle == [op |-> "none"]
SessionOp == {"verify", "signIn", "reactivate", "restore"}

\* sendEmailVerification in flight: the metadata it read.
Mail == [stage : {"idle", "read", "mailed"}, meta : Meta,
         again : BOOLEAN]          \* ghost: a link was out before it mailed one
NoMail == [stage |-> "idle", meta |-> NoMeta, again |-> FALSE]

VARIABLES
  account,     \* users, per account
  auths,       \* authentications: the providers that have a row
  meta,        \* metadata.local of the local one
  session,     \* the providers whose row has a refreshToken
  access,      \* providers an access token is out for
  links,       \* a mailed link with a token for <<account, local>> is out
  resetLinks,  \* the passwords that signed the reset links that are out
  hashes,      \* password hashes made so far
  outbox,      \* messages to the consumer: <<account, kind>>
  sender,      \* sendEmailVerification, per account
  req,         \* the requests in flight
  batch,       \* the accounts the nightly job has read, per process
  entity,      \* the rows as the job read them
  saved,       \* the accounts of the batch that manager.save compared
  diff,        \* the columns it found changed
  aborts,      \* batches that failed so far
  late,        \* ghost: the session was made by a stale request
  uses         \* ghost: password resets per link

rows == <<account, auths, meta, session>>
tokens == <<access, links, resetLinks>>
job == <<batch, entity, saved, diff>>
ghosts == <<hashes, aborts, late, uses>>
vars == <<rows, tokens, outbox, sender, req, job, ghosts>>

-----------------------------------------------------------------------------

Init ==
  /\ account = [u \in User |-> Untouched]
  /\ auths = [u \in User |-> {}]
  /\ meta = [u \in User |-> NoMeta]
  /\ session = [u \in User |-> {}]
  /\ access = [u \in User |-> {}]
  /\ links = {}
  /\ resetLinks = [u \in User |-> {}]
  /\ hashes = [u \in User |-> 0]
  /\ outbox = {}
  /\ sender = [u \in User |-> NoMail]
  /\ req = [r \in Request |-> Idle]
  /\ batch = [j \in Cron |-> {}]
  /\ entity = [j \in Cron |-> [u \in User |-> Untouched]]
  /\ saved = [j \in Cron |-> {}]
  /\ diff = [j \in Cron |-> [u \in User |-> {}]]
  /\ aborts = 0
  /\ late = [u \in User |-> FALSE]
  /\ uses = [u \in User |-> [v \in 0..MaxPasswords |-> 0]]

-----------------------------------------------------------------------------
(* Reading and ending a request                                             *)

\* findUser without withDeleted finds the row.
Found(u) == auths[u] # {} /\ account[u].deleted = "no"

LocalVerified(u) == "local" \in auths[u] /\ meta[u].verified

\* Mutant of Free: the transaction of a verification mail does not lock its row.
FreeButForMail(u, p) ==
  \A r \in Request : req[r] # Idle /\ req[r].user = u => p \notin req[r].held

\* No transaction that has not ended has updated the authentication.
Free(u, p) ==
  /\ \A r \in Request : req[r] # Idle /\ req[r].user = u => p \notin req[r].held
  /\ p = "local" => sender[u].stage # "mailed"

JobRuns == \E j \in Cron : batch[j] # {}
RequestsRun == \/ \E r \in Request : req[r] # Idle
               \/ \E u \in User : sender[u].stage # "idle"

Is(r, op) == req[r].op = op

TaskFor(op, u, p) == [op |-> op, user |-> u, via |-> p, meta |-> NoMeta,
                      known |-> {}, deactivated |-> FALSE, link |-> 0,
                      stmt |-> 0, held |-> {}, left |-> {}, stale |-> FALSE]

Begin(r, task) ==
  /\ req[r] = Idle
  /\ Overlap \/ ~JobRuns
  /\ req' = [req EXCEPT ![r] = task]
  /\ UNCHANGED <<rows, tokens, outbox, sender, job, ghosts>>

End(r) == req' = [req EXCEPT ![r] = Idle]

Abort(r) ==
  /\ req[r] # Idle
  /\ End(r)
  /\ UNCHANGED <<rows, tokens, outbox, sender, job, ghosts>>

\* The account's other requests in flight read it before it was closed.
Outdated(task, us) == IF task # Idle /\ task.user \in us
                      THEN [task EXCEPT !.stale = TRUE] ELSE task

\* The first UPDATE of a request that sets a session: { refreshToken } on its
\* own authentication.
UpdateOwn(r) ==
  /\ req[r].op \in SessionOp
  /\ req[r].stmt = 0
  /\ Free(req[r].user, req[r].via)
  /\ req' = [req EXCEPT ![r] = [@ EXCEPT !.stmt = 1, !.held = {req[r].via}]]
  /\ UNCHANGED <<rows, tokens, outbox, sender, job, ghosts>>

\* Mutant of UpdateOthers: only the authentications that have a token.
UpdateSignedIn(r) ==
  /\ req[r].op \in SessionOp
  /\ req[r].stmt = 1
  /\ req' = [req EXCEPT ![r] = [@ EXCEPT !.stmt = 2,
                                        !.left = session[req[r].user] \ {req[r].via}]]
  /\ UNCHANGED <<rows, tokens, outbox, sender, job, ghosts>>

\* The second: null on the others, the rows it sees when it starts,
UpdateOthers(r) ==
  /\ req[r].op \in SessionOp
  /\ req[r].stmt = 1
  /\ req' = [req EXCEPT ![r] = [@ EXCEPT !.stmt = 2,
                                        !.left = auths[req[r].user] \ {req[r].via}]]
  /\ UNCHANGED <<rows, tokens, outbox, sender, job, ghosts>>

\* each as its lock is free.
LockOther(r, p) ==
  /\ req[r].op \in SessionOp
  /\ p \in req[r].left
  /\ Free(req[r].user, p)
  /\ req' = [req EXCEPT ![r] = [@ EXCEPT !.held = req[r].held \cup {p},
                                        !.left = req[r].left \ {p}]]
  /\ UNCHANGED <<rows, tokens, outbox, sender, job, ghosts>>

\* Their COMMIT, and an access token in the answer.
SetSession(r) ==
  LET u == req[r].user IN
  /\ req[r].stmt = 2
  /\ req[r].left = {}
  /\ session' = [session EXCEPT ![u] = (@ \ req[r].held) \cup {req[r].via}]
  /\ late' = [late EXCEPT ![u] = req[r].stale]
  /\ access' = [access EXCEPT ![u] = @ \cup {req[r].via}]

\* refreshToken: null on every authentication of the user.
ClearSessions(us) ==
  /\ \A u \in us : \A p \in auths[u] : Free(u, p)
  /\ session' = [u \in User |-> IF u \in us THEN {} ELSE session[u]]
  /\ late' = [u \in User |-> late[u] /\ u \notin us]

-----------------------------------------------------------------------------
(* Sign-up, e-mail verification, sign-in                                    *)

BeginSignUp(r, u) ==
  /\ ~account[u].anonymised
  /\ Found(u) => "local" \notin auths[u]
  /\ Begin(r, [TaskFor("signUp", u, "local") EXCEPT
                 !.known = IF Found(u) THEN auths[u] ELSE {}])

\* Without a row at the read it inserts one, and e-mails are unique, as are
\* authentications per user and provider.
CommitSignUp(r) ==
  LET u == req[r].user IN
  /\ Is(r, "signUp")
  /\ req[r].known = {} => auths[u] = {}
  /\ "local" \notin auths[u]
  /\ hashes[u] < MaxPasswords
  /\ hashes' = [hashes EXCEPT ![u] = @ + 1]
  /\ auths' = [auths EXCEPT ![u] = @ \cup {"local"}]
  /\ meta' = [meta EXCEPT ![u] = [verified |-> FALSE, password |-> hashes[u] + 1]]
  /\ outbox' = outbox \cup {<<u, "created">>}
  /\ End(r)
  /\ UNCHANGED <<account, session, tokens, sender, job, aborts, late, uses>>

\* The join with users skips a deleted row, and reading its e-mail then
\* throws inside the transaction.
BeginVerify(r, u) ==
  /\ u \in links
  /\ "local" \in auths[u]
  /\ ~meta[u].verified
  /\ account[u].deleted = "no"
  /\ Begin(r, [TaskFor("verify", u, "local") EXCEPT !.meta = meta[u]])

CommitVerify(r) ==
  LET u == req[r].user IN
  /\ Is(r, "verify")
  /\ meta' = [meta EXCEPT ![u] = [req[r].meta EXCEPT !.verified = TRUE]]
  /\ SetSession(r)
  /\ End(r)
  /\ UNCHANGED <<account, auths, links, resetLinks, outbox, sender, job, hashes, aborts, uses>>

\* Mutant of BeginSignIn: signIn without its last guard.
BeginSignInDeleted(r, u) ==
  /\ LocalVerified(u)
  /\ ~account[u].deactivated
  /\ Begin(r, TaskFor("signIn", u, "local"))

\* Mutant of BeginSignIn: without the first of them.
BeginSignInDeactivated(r, u) ==
  /\ LocalVerified(u)
  /\ account[u].deleted = "no"
  /\ Begin(r, TaskFor("signIn", u, "local"))

\* LocalAuthStrategy.validate and the guards of signIn on the user it found.
BeginSignIn(r, u) ==
  /\ LocalVerified(u)
  /\ ~account[u].deactivated
  /\ account[u].deleted = "no"
  /\ Begin(r, TaskFor("signIn", u, "local"))

\* The same guards refuse and mail a link instead.
RefuseSignIn(u) ==
  /\ LocalVerified(u)
  /\ account[u].deactivated \/ account[u].deleted # "no"
  /\ outbox' = outbox \cup {<<u, IF account[u].deactivated THEN "reactivation"
                                 ELSE "restoration">>}
  /\ UNCHANGED <<rows, tokens, sender, req, job, ghosts>>

CommitSignIn(r) ==
  /\ Is(r, "signIn")
  /\ SetSession(r)
  /\ End(r)
  /\ UNCHANGED <<account, auths, meta, links, resetLinks, outbox, sender, job,
                 hashes, aborts, uses>>

SignOut(u, p) ==
  /\ p \in access[u] \cap session[u]
  /\ Free(u, p)
  /\ session' = [session EXCEPT ![u] = @ \ {p}]
  /\ UNCHANGED <<account, auths, meta, tokens, outbox, sender, req, job, ghosts>>

-----------------------------------------------------------------------------
(* Sign-in through an identity provider                                     *)

\* The first lookup, withDeleted, of idPAuthentication's transaction.  It does
\* not select deletedAt.
BeginIdp(r, u, p) ==
  /\ ~account[u].anonymised
  /\ Begin(r, [TaskFor("idp", u, p) EXCEPT !.known = auths[u],
                                           !.deactivated = account[u].deactivated])

\* Mutant of IdpSaved: a known user's new authentication is not saved.
IdpOnlyUpdated(r) ==
  LET u == req[r].user IN
  /\ req[r].known # {}
  /\ account' = [account EXCEPT ![u].deactivated = @ /\ ~req[r].deactivated]
  /\ UNCHANGED <<auths, meta, session, tokens, sender, job, ghosts>>

\* manager.create and save: a new user, or a known one whose row is updated
\* and gets the authentication it lacks.
IdpSaved(r) ==
  LET u == req[r].user IN
  /\ req[r].known = {} => auths[u] = {}
  /\ req[r].via \in auths[u] => req[r].via \in req[r].known
  /\ auths' = [auths EXCEPT ![u] = @ \cup {req[r].via}]
  /\ account' = [account EXCEPT ![u].deactivated = @ /\ ~req[r].deactivated]
  /\ UNCHANGED <<meta, session, tokens, sender, job, ghosts>>

\* The reload finds the row, and signIn goes on with it; a user that was
\* deactivated since the lookup is sent a link.
CommitIdp(r) ==
  LET u == req[r].user IN
  /\ Is(r, "idp")
  /\ account[u].deleted = "no"
  /\ ~account[u].anonymised
  /\ IdpSaved(r)
  /\ IF account'[u].deactivated
       THEN outbox' = outbox \cup {<<u, "reactivation">>} /\ End(r)
       ELSE /\ req' = [req EXCEPT ![r] = TaskFor("signIn", u, req[r].via)]
            /\ UNCHANGED outbox

\* The reload is without withDeleted: a deleted user is not found, and the
\* transaction is rolled back.
IdpNotFound(r) ==
  /\ Is(r, "idp")
  /\ req[r].known # {}
  /\ account[req[r].user].deleted # "no" \/ account[req[r].user].anonymised
  /\ Abort(r)

-----------------------------------------------------------------------------
(* Password reset                                                           *)

RequestReset(u) ==
  /\ Found(u)
  /\ LocalVerified(u)
  /\ outbox' = outbox \cup {<<u, "reset">>}
  /\ UNCHANGED <<rows, tokens, sender, req, job, ghosts>>

\* The link is verified with the current password hash as the secret.
BeginReset(r, u, v) ==
  /\ v \in resetLinks[u]
  /\ Found(u)
  /\ LocalVerified(u)
  /\ v = meta[u].password
  /\ Begin(r, [TaskFor("reset", u, "local") EXCEPT !.meta = meta[u], !.link = v])

\* Mutant of CommitReset: the other fields of the metadata are not spread.
CommitResetNoSpread(r) ==
  LET u == req[r].user IN
  /\ Is(r, "reset")
  /\ Free(u, "local")
  /\ hashes[u] < MaxPasswords
  /\ hashes' = [hashes EXCEPT ![u] = @ + 1]
  /\ meta' = [meta EXCEPT ![u] = [NoMeta EXCEPT !.password = hashes[u] + 1]]
  /\ uses' = [uses EXCEPT ![u][req[r].link] = @ + 1]
  /\ End(r)
  /\ UNCHANGED <<account, auths, session, tokens, outbox, sender, job, aborts, late>>

CommitReset(r) ==
  LET u == req[r].user IN
  /\ Is(r, "reset")
  /\ Free(u, "local")
  /\ hashes[u] < MaxPasswords
  /\ hashes' = [hashes EXCEPT ![u] = @ + 1]
  /\ meta' = [meta EXCEPT ![u] = [req[r].meta EXCEPT !.password = hashes[u] + 1]]
  /\ uses' = [uses EXCEPT ![u][req[r].link] = @ + 1]
  /\ End(r)
  /\ UNCHANGED <<account, auths, session, tokens, outbox, sender, job, aborts, late>>

-----------------------------------------------------------------------------
(* Closing and reopening an account                                         *)

BeginDeactivate(r, u) ==
  /\ access[u] # {}
  /\ Found(u)
  /\ ~account[u].deactivated
  /\ Begin(r, TaskFor("deactivate", u, "local"))

CommitDeactivate(r) ==
  LET u == req[r].user IN
  /\ Is(r, "deactivate")
  /\ account' = [account EXCEPT ![u].deactivated = TRUE]
  /\ ClearSessions({u})
  /\ req' = [x \in Request |-> IF x = r THEN Idle ELSE Outdated(req[x], {u})]
  /\ UNCHANGED <<auths, meta, tokens, outbox, sender, job, hashes, aborts, uses>>

BeginDelete(r, u) ==
  /\ access[u] # {}
  /\ Found(u)
  /\ Begin(r, TaskFor("delete", u, "local"))

CommitDelete(r) ==
  LET u == req[r].user IN
  /\ Is(r, "delete")
  /\ account' = [account EXCEPT ![u].deleted = "recent"]
  /\ ClearSessions({u})
  /\ req' = [x \in Request |-> IF x = r THEN Idle ELSE Outdated(req[x], {u})]
  /\ UNCHANGED <<auths, meta, tokens, outbox, sender, job, hashes, aborts, uses>>

BeginReactivate(r, u) ==
  /\ u \in links
  /\ Found(u)
  /\ LocalVerified(u)
  /\ account[u].deactivated
  /\ Begin(r, TaskFor("reactivate", u, "local"))

CommitReactivate(r) ==
  LET u == req[r].user IN
  /\ Is(r, "reactivate")
  /\ account' = [account EXCEPT ![u].deactivated = FALSE]
  /\ SetSession(r)
  /\ End(r)
  /\ UNCHANGED <<auths, meta, links, resetLinks, outbox, sender, job, hashes, aborts, uses>>

\* Mutant of BeginRestore: the metadata is not looked at.
BeginRestoreAnyone(r, u) ==
  /\ u \in links
  /\ account[u].deleted # "no"
  /\ Begin(r, [TaskFor("restore", u, "local") EXCEPT !.meta = meta[u]])

BeginRestore(r, u) ==
  /\ u \in links
  /\ LocalVerified(u)
  /\ account[u].deleted # "no"
  /\ Begin(r, [TaskFor("restore", u, "local") EXCEPT !.meta = meta[u]])

CommitRestore(r) ==
  LET u == req[r].user IN
  /\ Is(r, "restore")
  /\ account' = [account EXCEPT ![u].deleted = "no"]
  /\ SetSession(r)
  /\ End(r)
  /\ UNCHANGED <<auths, meta, links, resetLinks, outbox, sender, job, hashes, aborts, uses>>

-----------------------------------------------------------------------------
(* The consumer's mails                                                     *)

\* The delivery is acknowledged, or lost its channel and comes again.
Handled(u, k) == \/ outbox' = outbox \ {<<u, k>>}
                 \/ Redeliver /\ UNCHANGED outbox

\* sendUserReactivation and sendUserRestoration; only the second one looks
\* for deleted users.
MailLink(u, k) ==
  /\ k \in {"reactivation", "restoration"}
  /\ <<u, k>> \in outbox
  /\ k = "reactivation" => Found(u)
  /\ links' = links \cup {u}
  /\ Handled(u, k)
  /\ UNCHANGED <<rows, access, resetLinks, sender, req, job, ghosts>>

\* sendPasswordReset signs with the password it reads.
MailReset(u) ==
  /\ <<u, "reset">> \in outbox
  /\ resetLinks' = [resetLinks EXCEPT ![u] = @ \cup {meta[u].password}]
  /\ Handled(u, "reset")
  /\ UNCHANGED <<rows, access, links, sender, req, job, ghosts>>

\* sendEmailVerification: the read of the authentication,
ReadForMail(u) ==
  /\ <<u, "created">> \in outbox
  /\ sender[u].stage = "idle"
  /\ Overlap \/ ~JobRuns
  /\ sender' = [sender EXCEPT ![u] = [@ EXCEPT !.stage = "read", !.meta = meta[u]]]
  /\ UNCHANGED <<rows, tokens, outbox, req, job, ghosts>>

\* the update that writes the read metadata back, and sendMail inside the
\* same transaction,
SendMail(u) ==
  /\ sender[u].stage = "read"
  /\ Free(u, "local")
  /\ sender' = [sender EXCEPT ![u] = [@ EXCEPT !.stage = "mailed", !.again = u \in links]]
  /\ links' = links \cup {u}
  /\ UNCHANGED <<rows, access, resetLinks, outbox, req, job, ghosts>>

\* and COMMIT, or a failure of any of it.
CommitMail(u) ==
  /\ sender[u].stage = "mailed"
  /\ sender' = [sender EXCEPT ![u] = NoMail]
  /\ meta' = [meta EXCEPT ![u] = sender[u].meta]
  /\ Handled(u, "created")
  /\ UNCHANGED <<account, auths, session, tokens, req, job, ghosts>>

MailFails(u) ==
  /\ sender[u].stage # "idle"
  /\ sender[u].stage = "mailed" => Redeliver
  /\ sender' = [sender EXCEPT ![u] = NoMail]
  /\ UNCHANGED <<rows, tokens, outbox, req, job, ghosts>>

-----------------------------------------------------------------------------
(* Time and the nightly job                                                 *)

\* Thirty days pass after a deletion.  What was in flight has ended long since,
\* and the mailed links and the access tokens have expired.
Age(u) ==
  /\ account[u].deleted = "recent"
  /\ \A j \in Cron : u \notin batch[j]
  /\ req' = [r \in Request |-> IF req[r] # Idle /\ req[r].user = u
                                THEN Idle ELSE req[r]]
  /\ sender' = [sender EXCEPT ![u] = NoMail]
  /\ account' = [account EXCEPT ![u].deleted = "old"]
  /\ links' = links \ {u}
  /\ resetLinks' = [resetLinks EXCEPT ![u] = {}]
  /\ access' = [access EXCEPT ![u] = {}]
  /\ UNCHANGED <<auths, meta, session, outbox, job, ghosts>>

\* Mutant of Eligible: the age is compared the wrong way round.
EligibleRecent == {u \in User : account[u].deleted = "recent" /\ ~account[u].anonymised}

Eligible == {u \in User : account[u].deleted = "old" /\ ~account[u].anonymised}

\* The batch is read without a lock.
JobFind(j) ==
  /\ batch[j] = {}
  /\ Eligible # {}
  /\ Overlap \/ ~RequestsRun
  /\ \E us \in SUBSET Eligible :
       /\ Cardinality(us) <= Batch
       /\ Cardinality(us) < Batch => us = Eligible
       /\ batch' = [batch EXCEPT ![j] = us]
       /\ entity' = [entity EXCEPT ![j] =
                       [u \in User |-> IF u \in us THEN account[u] ELSE Untouched]]
  /\ UNCHANGED <<rows, tokens, outbox, sender, req, saved, diff, ghosts>>

\* manager.save loads the row again and will write the columns in which the
\* entity in memory differs from it.
JobSave(j, u) ==
  /\ u \in batch[j] \ saved[j]
  /\ saved' = [saved EXCEPT ![j] = @ \cup {u}]
  /\ diff' = [diff EXCEPT ![j][u] =
                {f \in {"deactivated", "deleted"} : entity[j][u][f] # account[u][f]}]
  /\ UNCHANGED <<rows, tokens, outbox, sender, req, batch, entity, ghosts>>

Written(j, u, f) == IF f \in diff[j][u] THEN entity[j][u][f] ELSE account[u][f]

JobDone(j) == /\ batch' = [batch EXCEPT ![j] = {}]
              /\ entity' = [entity EXCEPT ![j] = [u \in User |-> Untouched]]
              /\ saved' = [saved EXCEPT ![j] = {}]
              /\ diff' = [diff EXCEPT ![j] = [u \in User |-> {}]]

JobCommit(j) ==
  /\ batch[j] # {}
  /\ saved[j] = batch[j]
  /\ account' = [u \in User |->
       IF u \in batch[j]
         THEN [deactivated |-> Written(j, u, "deactivated"),
               deleted |-> Written(j, u, "deleted"), anonymised |-> TRUE]
         ELSE account[u]]
  /\ meta' = [u \in User |-> IF u \in batch[j] THEN NoMeta ELSE meta[u]]
  /\ ClearSessions(batch[j])
  /\ req' = [r \in Request |-> Outdated(req[r], batch[j])]
  /\ JobDone(j)
  /\ UNCHANGED <<auths, tokens, outbox, sender, hashes, aborts, uses>>

\* One failure rolls the batch back and ends the job for the night.
JobAborts(j) ==
  /\ batch[j] # {}
  /\ aborts < MaxAborts
  /\ aborts' = aborts + 1
  /\ JobDone(j)
  /\ UNCHANGED <<rows, tokens, outbox, sender, req, hashes, late, uses>>

-----------------------------------------------------------------------------

BeginAny(r, u) ==
  \/ BeginSignUp(r, u) \/ BeginVerify(r, u) \/ BeginSignIn(r, u)
  \/ \E p \in Idp : BeginIdp(r, u, p)
  \/ \E v \in 0..MaxPasswords : BeginReset(r, u, v)
  \/ BeginDeactivate(r, u) \/ BeginDelete(r, u)
  \/ BeginReactivate(r, u) \/ BeginRestore(r, u)

CommitAny(r) ==
  \/ CommitSignUp(r) \/ CommitVerify(r) \/ CommitSignIn(r)
  \/ CommitIdp(r) \/ IdpNotFound(r) \/ CommitReset(r)
  \/ CommitDeactivate(r) \/ CommitDelete(r)
  \/ CommitReactivate(r) \/ CommitRestore(r)

Transaction(r) ==
  \/ UpdateOwn(r) \/ UpdateOthers(r) \/ \E p \in Provider : LockOther(r, p)

Mailing(u) ==
  \/ \E k \in Kind : MailLink(u, k)
  \/ MailReset(u) \/ ReadForMail(u) \/ SendMail(u) \/ CommitMail(u) \/ MailFails(u)

Job(j) == JobFind(j) \/ (\E u \in User : JobSave(j, u)) \/ JobCommit(j) \/ JobAborts(j)

Next ==
  \/ \E r \in Request :
       \/ Transaction(r) \/ CommitAny(r) \/ Abort(r)
       \/ \E u \in User : BeginAny(r, u)
  \/ \E u \in User :
       \/ RefuseSignIn(u) \/ RequestReset(u) \/ Mailing(u) \/ Age(u)
       \/ \E p \in Provider : SignOut(u, p)
  \/ \E j \in Cron : Job(j)

Spec == Init /\ [][Next]_vars

\* A transaction that holds row locks ends, if only because a deadlock is found.
EndTransaction(r) ==
  /\ req[r].op \in SessionOp
  /\ req[r].stmt > 0
  /\ CommitAny(r) \/ Abort(r)

\* The job runs every night until it finds nobody, its statements return, and
\* the lock queue lets it through.  Open transactions end, and time passes.
FairSpec ==
  /\ Spec
  /\ \A r \in Request : WF_vars(EndTransaction(r))
  /\ \A u \in User : WF_vars(CommitMail(u) \/ MailFails(u)) /\ WF_vars(Age(u))
  /\ \A j \in Cron :
       /\ WF_vars(JobFind(j))
       /\ \A u \in User : WF_vars(JobSave(j, u))
       /\ SF_vars(JobCommit(j))

-----------------------------------------------------------------------------
(* Correctness                                                              *)

\* Every variable has its type, and a refresh token sits in a row that exists.
Typing ==
  /\ account \in [User -> Account]
  /\ auths \in [User -> SUBSET Provider]
  /\ meta \in [User -> Meta]
  /\ session \in [User -> SUBSET Provider]
  /\ access \in [User -> SUBSET Provider]
  /\ links \subseteq User
  /\ resetLinks \in [User -> SUBSET (0..MaxPasswords)]
  /\ hashes \in [User -> 0..MaxPasswords]
  /\ outbox \subseteq User \X Kind
  /\ sender \in [User -> Mail]
  /\ req \in [Request -> Task \cup {Idle}]
  /\ batch \in [Cron -> SUBSET User]
  /\ entity \in [Cron -> [User -> Account]]
  /\ saved \in [Cron -> SUBSET User]
  /\ diff \in [Cron -> [User -> SUBSET {"deactivated", "deleted"}]]
  /\ aborts \in 0..MaxAborts
  /\ late \in [User -> BOOLEAN]
  /\ uses \in [User -> [0..MaxPasswords -> Nat]]

SessionsHaveRows == \A u \in User : session[u] \subseteq auths[u]

TypeOK == Typing /\ SessionsHaveRows

\* "Set refreshToken to null for all other user's authentications": whatever
\* sign-ins, confirmations and sign-outs interleave, one authentication of a
\* user at most holds a refresh token.
SingleSession == \A u \in User : \A p, q \in session[u] : p = q

\* A session on a deleted account can only come from a request that had read
\* the account before it was deleted: no guard lets a later one in.
DeletedStaysOut ==
  \A u \in User : account[u].deleted # "no" /\ session[u] # {} => late[u]

\* Behind the properties above: a request that will set a session found the
\* row it will write, and, unless the account was closed since, the account open.
RequestsFounded ==
  \A r \in Request :
    /\ req[r].op \in {"signIn", "verify", "reactivate", "restore"}
         => req[r].via \in auths[req[r].user]
    /\ req[r].op \in {"signIn", "verify", "reactivate"} /\ ~req[r].stale
         => account[req[r].user].deleted = "no"
    /\ req[r].op = "signIn" /\ ~req[r].stale => ~account[req[r].user].deactivated

\* A deactivated account gets no session, and keeps none when it is deactivated
\* or the nightly job writes isDeactivated back, but from a request that had read
\* it before, and from the two confirmations that do not look at isDeactivated:
\* the verification link of a password that was added to it, and the restoration
\* of an account that was deactivated when it was deleted.
DeactivatedStaysOut ==
  [][\A u \in User : account'[u].deactivated /\ session'[u] # {} =>
       \/ account[u].deactivated /\ session'[u] \subseteq session[u]
       \/ \E r \in Request : /\ req[r] # Idle /\ req[r].user = u
                             /\ req[r].stale \/ req[r].op \in {"verify", "restore"}
                             /\ req'[r] = Idle]_vars

\* "One jwt link = 1 attempt to change password."
OneAttemptPerLink ==
  \A u \in User : \A v \in 0..MaxPasswords : uses[u][v] <= 1

\* A verified e-mail stays verified, however late the metadata that a password
\* reset or a confirmation has read is written back, until the account is
\* anonymised.  Only sendEmailVerification may undo it, and only if its mail is
\* not the first link to the account: when the message is handled again, or
\* after the link of another mail.
VerifiedStays ==
  [][\A u \in User : meta[u].verified /\ ~meta'[u].verified =>
       \/ account'[u].anonymised
       \/ sender[u].stage = "mailed" /\ sender[u].again]_vars

\* The nightly job anonymises users whose "deletedAt is non-null and older
\* than 30 days", and nobody else.
OnlyLongDeleted ==
  [][\A u \in User : account'[u].anonymised /\ ~account[u].anonymised
                        => account[u].deleted = "old"]_vars

\* An anonymised account that is closed - deleted, nobody signed in, its
\* authentication data gone - can only be opened again by what had read it
\* before it was closed: a request in flight that saw it open or saw its address
\* verified, or a verification mail whose transaction is still open.
Closed(u) == account[u].deleted # "no" /\ session[u] = {} /\ meta[u] = NoMeta

Overtaken(u) ==
  \/ \E r \in Request : /\ req[r] # Idle /\ req[r].user = u
                        /\ req[r].stale \/ req[r].meta.verified
  \/ sender[u].stage = "mailed" /\ sender[u].meta # NoMeta

AnonymisedIsClosed ==
  [][\A u \in User : account[u].anonymised /\ Closed(u) /\ ~Overtaken(u)
                        => Closed(u)']_vars

\* A user who comes back through an identity provider is restored.
IdpRestores ==
  [][\A r \in Request : IdpNotFound(r) => account'[req[r].user].deleted = "no"]_vars

\* A user deleted for thirty days is anonymised, unless restored before.
EventuallyAnonymised ==
  \A u \in User : (account[u].deleted # "no" /\ ~account[u].anonymised)
                     ~> (account[u].anonymised \/ account[u].deleted = "no")
=============================================================================
