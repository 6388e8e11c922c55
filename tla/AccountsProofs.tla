--------------------------- MODULE AccountsProofs ---------------------------
(***************************************************************************)
(* Proofs about Accounts, for any number of accounts, providers, requests  *)
(* in flight and processes that run the nightly job.                       *)
(***************************************************************************)
EXTENDS Accounts, TLAPS

-----------------------------------------------------------------------------
(* Types                                                                    *)

LEMMA MetaParts ==
  /\ NoMeta \in Meta
  /\ 0 \in 0..MaxPasswords
  /\ \A m \in Meta : m.verified \in BOOLEAN /\ m.password \in 0..MaxPasswords
BY AccountsAssumption, SMT DEF Meta, NoMeta

LEMMA TaskForIsTask ==
  ASSUME NEW op \in Op, NEW u \in User, NEW p \in Provider
  PROVE  TaskFor(op, u, p) \in Task
BY MetaParts, SMT DEF Task, TaskFor

LEMMA TaskParts ==
  ASSUME NEW t \in Task
  PROVE  /\ t.op \in Op
         /\ t.user \in User
         /\ t.via \in Provider
         /\ t.meta \in Meta
         /\ t.known \in SUBSET Provider
         /\ t.deactivated \in BOOLEAN
         /\ t.link \in 0..MaxPasswords
         /\ t.stmt \in 0..2
         /\ t.held \in SUBSET Provider
         /\ t.left \in SUBSET Provider
         /\ t.stale \in BOOLEAN
BY SMT DEF Task

LEMMA TaskWith ==
  ASSUME NEW t \in Task
  PROVE  /\ \A k \in SUBSET Provider, b \in BOOLEAN :
              [t EXCEPT !.known = k, !.deactivated = b] \in Task
         /\ \A m \in Meta, v \in 0..MaxPasswords :
              [t EXCEPT !.meta = m, !.link = v] \in Task
         /\ \A m \in Meta : [t EXCEPT !.meta = m] \in Task
         /\ \A k \in SUBSET Provider : [t EXCEPT !.known = k] \in Task
BY Zenon DEF Task

LEMMA TaskIsNotIdle ==
  ASSUME NEW t \in Task
  PROVE  t # Idle
BY SMT DEF Task, Idle, Op

\* Who is in one of the operations is not idle.
LEMMA RequestIsTask ==
  ASSUME Typing, NEW r \in Request, req[r].op \in Op
  PROVE  req[r] \in Task
<1>1. req[r] \in Task \cup {Idle}
  BY DEF Typing
<1>2. Idle.op = "none"
  BY DEF Idle
<1>3. "none" \notin Op
  BY SMT DEF Op
<1> QED
  BY <1>1, <1>2, <1>3

LEMMA OutdatedIsTask ==
  ASSUME NEW t \in Task \cup {Idle}, NEW us
  PROVE  Outdated(t, us) \in Task \cup {Idle}
<1>1. CASE t \in Task
  <2>1. [t EXCEPT !.stale = TRUE] \in Task
    BY <1>1, Zenon DEF Task
  <2> QED
    BY <1>1, <2>1 DEF Outdated
<1>2. CASE t = Idle
  BY <1>2 DEF Outdated
<1> QED
  BY <1>1, <1>2

LEMMA EndTyping ==
  ASSUME Typing, NEW r \in Request, End(r)
  PROVE  req' \in [Request -> Task \cup {Idle}]
BY DEF Typing, End

LEMMA SetSessionTyping ==
  ASSUME Typing, NEW r \in Request, req[r] \in Task, SetSession(r)
  PROVE  /\ session' \in [User -> SUBSET Provider]
         /\ access' \in [User -> SUBSET Provider]
         /\ late' \in [User -> BOOLEAN]
<1>1. req[r].user \in User /\ req[r].via \in Provider /\ req[r].stale \in BOOLEAN
  BY TaskParts
<1>2. session' \in [User -> SUBSET Provider]
  BY <1>1, SMT DEF SetSession, Typing
<1>3. access' \in [User -> SUBSET Provider]
  BY <1>1, SMT DEF SetSession, Typing
<1>4. late' \in [User -> BOOLEAN]
  BY <1>1, SMT DEF SetSession, Typing
<1> QED
  BY <1>2, <1>3, <1>4

LEMMA ClearSessionsTyping ==
  ASSUME Typing, NEW us \in SUBSET User, ClearSessions(us)
  PROVE  session' \in [User -> SUBSET Provider] /\ late' \in [User -> BOOLEAN]
BY SMT DEF ClearSessions, Typing

LEMMA AccountWith ==
  ASSUME NEW a \in Account
  PROVE  /\ \A b \in BOOLEAN : [a EXCEPT !.deactivated = b] \in Account
         /\ \A d \in {"no", "recent", "old"} : [a EXCEPT !.deleted = d] \in Account
BY Zenon DEF Account

LEMMA DeactivatedTyping ==
  ASSUME Typing, NEW u \in User, NEW b \in BOOLEAN,
         account' = [account EXCEPT ![u].deactivated = b]
  PROVE  account' \in [User -> Account]
<1>1. account[u] \in Account
  BY DEF Typing
<1>2. [account[u] EXCEPT !.deactivated = b] \in Account
  BY <1>1, AccountWith
<1> DEFINE a == [account[u] EXCEPT !.deactivated = b]
<1>3. account' = [account EXCEPT ![u] = a]
  OBVIOUS
<1> HIDE DEF a
<1> QED
  BY <1>2, <1>3 DEF Typing, a

LEMMA DeletedTyping ==
  ASSUME Typing, NEW u \in User, NEW d \in {"no", "recent", "old"},
         account' = [account EXCEPT ![u].deleted = d]
  PROVE  account' \in [User -> Account]
<1> DEFINE a == [account[u] EXCEPT !.deleted = d]
<1>2. a \in Account
  <2>1. account[u] \in Account
    BY DEF Typing
  <2> QED
    BY <2>1, AccountWith
<1>3. account' = [account EXCEPT ![u] = a]
  OBVIOUS
<1> HIDE DEF a
<1> QED
  BY <1>2, <1>3, Zenon DEF Typing

LEMMA UsesTyping ==
  ASSUME Typing, NEW u \in User, NEW v \in 0..MaxPasswords,
         uses' = [uses EXCEPT ![u][v] = @ + 1]
  PROVE  uses' \in [User -> [0..MaxPasswords -> Nat]]
<1> DEFINE a == [uses[u] EXCEPT ![v] = @ + 1]
<1>1. uses[u][v] + 1 \in Nat
  <2>1. uses[u] \in [0..MaxPasswords -> Nat]
    BY DEF Typing
  <2>2. uses[u][v] \in Nat
    BY <2>1, Zenon
  <2> QED
    BY <2>2
<1>2. a \in [0..MaxPasswords -> Nat]
  <2>1. uses[u] \in [0..MaxPasswords -> Nat]
    BY DEF Typing
  <2> QED
    BY <2>1, <1>1, Zenon
<1>3. uses' = [uses EXCEPT ![u] = a]
  BY Zenon
<1> HIDE DEF a
<1> QED
  BY <1>2, <1>3, Zenon DEF Typing

LEMMA InitTyping == Init => Typing
<1> SUFFICES ASSUME Init PROVE Typing
  OBVIOUS
<1>1. Untouched \in Account
  BY DEF Untouched, Account
<1>2. Idle \in Task \cup {Idle}
  OBVIOUS
<1>3. NoMail \in Mail
  BY MetaParts DEF NoMail, Mail
<1> QED
  BY <1>1, <1>2, <1>3, MetaParts, AccountsAssumption, SMT DEF Init, Typing, Kind

LEMMA BeginTyping ==
  ASSUME Typing, NEW r \in Request, NEW t \in Task, Begin(r, t)
  PROVE  Typing'
BY SMT DEF Typing, Begin, rows, tokens, job, ghosts

LEMMA BeginAnyTyping ==
  ASSUME Typing, NEW r \in Request, NEW u \in User, BeginAny(r, u)
  PROVE  Typing'
<1> DEFINE T(op, p) == TaskFor(op, u, p)
<1>l. "local" \in Provider /\ Idp \subseteq Provider
  BY DEF Provider
<1>o. /\ \A op \in Op : T(op, "local") \in Task
      /\ \A op \in Op, p \in Idp : T(op, p) \in Task
  BY <1>l, TaskForIsTask
<1>k. auths[u] \in SUBSET Provider /\ meta[u] \in Meta /\ account[u].deactivated \in BOOLEAN
  BY DEF Typing, Account
<1>1. CASE BeginSignUp(r, u)
  <2>1. [T("signUp", "local") EXCEPT !.known = IF Found(u) THEN auths[u] ELSE {}] \in Task
    <3>1. T("signUp", "local") \in Task
      BY <1>o DEF Op
    <3>2. (IF Found(u) THEN auths[u] ELSE {}) \in SUBSET Provider
      BY <1>k
    <3> HIDE DEF T
    <3> QED
      BY <3>1, <3>2, TaskWith
  <2> QED
    BY <1>1, <2>1, BeginTyping DEF BeginSignUp
<1>2. CASE BeginVerify(r, u)
  <2>1. [T("verify", "local") EXCEPT !.meta = meta[u]] \in Task
    <3>1. T("verify", "local") \in Task
      BY <1>o DEF Op
    <3> HIDE DEF T
    <3> QED
      BY <3>1, <1>k, TaskWith
  <2> QED
    BY <1>2, <2>1, BeginTyping DEF BeginVerify
<1>3. CASE BeginSignIn(r, u)
  BY <1>3, <1>o, BeginTyping DEF BeginSignIn, Op
<1>4. ASSUME NEW p \in Idp, BeginIdp(r, u, p)
      PROVE  Typing'
  <2>1. [T("idp", p) EXCEPT !.known = auths[u],
                            !.deactivated = account[u].deactivated] \in Task
    <3>1. T("idp", p) \in Task
      BY <1>o DEF Op
    <3> HIDE DEF T
    <3> QED
      BY <3>1, <1>k, TaskWith
  <2> QED
    BY <1>4, <2>1, BeginTyping DEF BeginIdp
<1>5. ASSUME NEW v \in 0..MaxPasswords, BeginReset(r, u, v)
      PROVE  Typing'
  <2>1. [T("reset", "local") EXCEPT !.meta = meta[u], !.link = v] \in Task
    <3>1. T("reset", "local") \in Task
      BY <1>o DEF Op
    <3> HIDE DEF T
    <3> QED
      BY <1>5, <3>1, <1>k, TaskWith
  <2> QED
    BY <1>5, <2>1, BeginTyping DEF BeginReset
<1>6. CASE BeginDeactivate(r, u)
  BY <1>6, <1>o, BeginTyping DEF BeginDeactivate, Op
<1>7. CASE BeginDelete(r, u)
  BY <1>7, <1>o, BeginTyping DEF BeginDelete, Op
<1>8. CASE BeginReactivate(r, u)
  BY <1>8, <1>o, BeginTyping DEF BeginReactivate, Op
<1>9. CASE BeginRestore(r, u)
  <2>1. [T("restore", "local") EXCEPT !.meta = meta[u]] \in Task
    <3>1. T("restore", "local") \in Task
      BY <1>o DEF Op
    <3> HIDE DEF T
    <3> QED
      BY <3>1, <1>k, TaskWith
  <2> QED
    BY <1>9, <2>1, BeginTyping DEF BeginRestore
<1> QED
  BY <1>1, <1>2, <1>3, <1>4, <1>5, <1>6, <1>7, <1>8, <1>9 DEF BeginAny

LEMMA CommitAnyTyping ==
  ASSUME Typing, NEW r \in Request, CommitAny(r)
  PROVE  Typing'
<1> DEFINE u == req[r].user
<1>p. ASSUME NEW op \in Op, Is(r, op)
      PROVE  req[r] \in Task
  BY <1>p, RequestIsTask DEF Is
<1>i. Idle \in Task \cup {Idle}
  OBVIOUS
<1>1. CASE CommitSignUp(r)
  <2>1. req[r] \in Task
    BY <1>1, <1>p DEF CommitSignUp, Op
  <2>2. u \in User
    BY <2>1, TaskParts
  <2>3. hashes[u] + 1 \in 0..MaxPasswords
    BY <1>1, <2>2, AccountsAssumption, SMT DEF CommitSignUp, Typing
  <2>4. [verified |-> FALSE, password |-> hashes[u] + 1] \in Meta
    BY <2>3 DEF Meta
  <2>5. "local" \in Provider /\ <<u, "created">> \in User \X Kind
    BY <2>2 DEF Provider, Kind
  <2>6. /\ hashes' \in [User -> 0..MaxPasswords]
        /\ auths' \in [User -> SUBSET Provider]
        /\ meta' \in [User -> Meta]
        /\ outbox' \subseteq User \X Kind
    BY <1>1, <2>2, <2>3, <2>4, <2>5, SMT DEF CommitSignUp, Typing
  <2>7. req' \in [Request -> Task \cup {Idle}]
    BY <1>1, EndTyping DEF CommitSignUp
  <2> QED
    BY <1>1, <2>6, <2>7 DEF CommitSignUp, Typing, tokens, job
<1>2. CASE CommitVerify(r)
  <2>1. req[r] \in Task
    BY <1>2, <1>p DEF CommitVerify, Op
  <2>2. u \in User /\ req[r].via \in Provider /\ req[r].stale \in BOOLEAN
    BY <2>1, TaskParts
  <2>3. [req[r].meta EXCEPT !.verified = TRUE] \in Meta
    BY <2>1, TaskParts, Zenon DEF Meta
  <2>4. meta' \in [User -> Meta]
    BY <1>2, <2>2, <2>3 DEF CommitVerify, Typing
  <2> QED
    BY <1>2, <2>1, <2>4, EndTyping, SetSessionTyping DEF CommitVerify, Typing, job
<1>3. CASE CommitSignIn(r)
  <2>1. req[r] \in Task
    BY <1>3, <1>p DEF CommitSignIn, Op
  <2> QED
    BY <1>3, <2>1, EndTyping, SetSessionTyping DEF CommitSignIn, Typing, job
<1>4. CASE CommitIdp(r)
  <2>1. req[r] \in Task
    BY <1>4, <1>p DEF CommitIdp, Op
  <2>2. u \in User /\ req[r].via \in Provider /\ req[r].deactivated \in BOOLEAN
    BY <2>1, TaskParts
  <2>3. /\ account' \in [User -> Account]
        /\ auths' \in [User -> SUBSET Provider]
        /\ UNCHANGED <<meta, session, tokens, sender, job, ghosts>>
    <3>1. (account[u].deactivated /\ ~req[r].deactivated) \in BOOLEAN
      OBVIOUS
    <3>2. account' \in [User -> Account]
      BY <1>4, <2>2, <3>1, DeactivatedTyping DEF CommitIdp, IdpSaved
    <3>3. auths' \in [User -> SUBSET Provider]
      BY <1>4, <2>2 DEF CommitIdp, IdpSaved, Typing
    <3> QED
      BY <1>4, <3>2, <3>3 DEF CommitIdp, IdpSaved
  <2>4. /\ outbox' \subseteq User \X Kind
        /\ req' \in [Request -> Task \cup {Idle}]
    <3>1. <<u, "reactivation">> \in User \X Kind
      BY <2>2 DEF Kind
    <3>2. TaskFor("signIn", u, req[r].via) \in Task
      BY <2>2, TaskForIsTask DEF Op
    <3> QED
      <4>1. CASE outbox' = outbox \cup {<<u, "reactivation">>} /\ End(r)
        BY <4>1, <3>1, EndTyping DEF Typing
      <4>2. CASE /\ req' = [req EXCEPT ![r] = TaskFor("signIn", u, req[r].via)]
                 /\ UNCHANGED outbox
        BY <4>2, <3>2 DEF Typing
      <4> QED
        BY <1>4, <4>1, <4>2 DEF CommitIdp
  <2> QED
    BY <2>3, <2>4, SMT DEF Typing, tokens, job, ghosts
<1>5. CASE IdpNotFound(r)
  BY <1>5, <1>i, SMT DEF IdpNotFound, Abort, End, Typing, rows, tokens, job, ghosts
<1>6. CASE CommitReset(r)
  <2>1. req[r] \in Task
    BY <1>6, <1>p DEF CommitReset, Op
  <2>2. u \in User /\ req[r].link \in 0..MaxPasswords
    BY <2>1, TaskParts
  <2>3. hashes[u] + 1 \in 0..MaxPasswords
    BY <1>6, <2>2, AccountsAssumption, SMT DEF CommitReset, Typing
  <2>4. [req[r].meta EXCEPT !.password = hashes[u] + 1] \in Meta
    BY <2>1, <2>3, TaskParts, Zenon DEF Meta
  <2>5. uses' \in [User -> [0..MaxPasswords -> Nat]]
    BY <1>6, <2>2, UsesTyping DEF CommitReset
  <2>6. hashes' \in [User -> 0..MaxPasswords] /\ meta' \in [User -> Meta]
    BY <1>6, <2>2, <2>3, <2>4 DEF CommitReset, Typing
  <2> QED
    BY <1>6, <2>5, <2>6, EndTyping DEF CommitReset, Typing, tokens, job
<1>7. CASE CommitDeactivate(r)
  <2>1. req[r] \in Task
    BY <1>7, <1>p DEF CommitDeactivate, Op
  <2>2. u \in User
    BY <2>1, TaskParts
  <2>3. account' \in [User -> Account]
    BY <1>7, <2>2, DeactivatedTyping DEF CommitDeactivate
  <2>4. {u} \in SUBSET User
    BY <2>2
  <2>5. req' \in [Request -> Task \cup {Idle}]
    <3>1. \A x \in Request : Outdated(req[x], {u}) \in Task \cup {Idle}
      BY OutdatedIsTask DEF Typing
    <3> QED
      BY <1>7, <1>i, <3>1 DEF CommitDeactivate
  <2> QED
    BY <1>7, <2>3, <2>4, <2>5, ClearSessionsTyping
    DEF CommitDeactivate, Typing, tokens, job
<1>8. CASE CommitDelete(r)
  <2>1. req[r] \in Task
    BY <1>8, <1>p DEF CommitDelete, Op
  <2>2. u \in User
    BY <2>1, TaskParts
  <2>3. account' \in [User -> Account]
    BY <1>8, <2>2, DeletedTyping DEF CommitDelete
  <2>4. {u} \in SUBSET User
    BY <2>2
  <2>5. req' \in [Request -> Task \cup {Idle}]
    <3>1. \A x \in Request : Outdated(req[x], {u}) \in Task \cup {Idle}
      BY OutdatedIsTask DEF Typing
    <3> QED
      BY <1>8, <1>i, <3>1 DEF CommitDelete
  <2> QED
    BY <1>8, <2>3, <2>4, <2>5, ClearSessionsTyping DEF CommitDelete, Typing, tokens, job
<1>9. CASE CommitReactivate(r)
  <2>1. req[r] \in Task
    BY <1>9, <1>p DEF CommitReactivate, Op
  <2>2. u \in User
    BY <2>1, TaskParts
  <2>3. account' \in [User -> Account]
    BY <1>9, <2>2, DeactivatedTyping DEF CommitReactivate
  <2> QED
    BY <1>9, <2>1, <2>3, EndTyping, SetSessionTyping DEF CommitReactivate, Typing, job
<1>10. CASE CommitRestore(r)
  <2>1. req[r] \in Task
    BY <1>10, <1>p DEF CommitRestore, Op
  <2>2. u \in User
    BY <2>1, TaskParts
  <2>3. account' \in [User -> Account]
    BY <1>10, <2>2, DeletedTyping DEF CommitRestore
  <2> QED
    BY <1>10, <2>1, <2>3, EndTyping, SetSessionTyping DEF CommitRestore, Typing, job
<1> QED
  BY <1>1, <1>2, <1>3, <1>4, <1>5, <1>6, <1>7, <1>8, <1>9, <1>10 DEF CommitAny

LEMMA UserStepTyping ==
  ASSUME Typing, NEW u \in User,
         \/ RefuseSignIn(u) \/ RequestReset(u) \/ Mailing(u)
         \/ \E p \in Provider : SignOut(u, p)
  PROVE  Typing'
<1>h. ASSUME NEW k, Handled(u, k)
      PROVE  outbox' \subseteq User \X Kind
  BY <1>h DEF Handled, Typing
<1>m. ASSUME NEW x \in Mail, sender' = [sender EXCEPT ![u] = x]
      PROVE  sender' \in [User -> Mail]
  BY <1>m DEF Typing
<1>i. NoMail \in Mail
  BY MetaParts DEF NoMail, Mail
<1>s. sender[u] \in Mail
  BY DEF Typing
<1>1. CASE RefuseSignIn(u)
  <2>1. \A k \in Kind : <<u, k>> \in User \X Kind
    OBVIOUS
  <2> QED
    BY <1>1, <2>1 DEF RefuseSignIn, Typing, Kind, rows, tokens, job, ghosts
<1>2. CASE RequestReset(u)
  BY <1>2 DEF RequestReset, Typing, Kind, rows, tokens, job, ghosts
<1>3. ASSUME NEW k \in Kind, MailLink(u, k)
      PROVE  Typing'
  BY <1>3, <1>h DEF MailLink, Typing, rows, job, ghosts
<1>4. CASE MailReset(u)
  <2>1. meta[u].password \in 0..MaxPasswords
    BY MetaParts DEF Typing
  <2>2. resetLinks' \in [User -> SUBSET (0..MaxPasswords)]
    BY <1>4, <2>1, Zenon DEF MailReset, Typing
  <2> QED
    BY <1>4, <2>2, <1>h DEF MailReset, Typing, rows, job, ghosts
<1>5. CASE ReadForMail(u)
  <2>1. [sender[u] EXCEPT !.stage = "read", !.meta = meta[u]] \in Mail
    <3>1. meta[u] \in Meta
      BY DEF Typing
    <3> QED
      BY <1>s, <3>1, Zenon DEF Mail
  <2> QED
    BY <1>5, <2>1, <1>m DEF ReadForMail, Typing, rows, tokens, job, ghosts
<1>6. CASE SendMail(u)
  <2>1. [sender[u] EXCEPT !.stage = "mailed", !.again = u \in links] \in Mail
    <3>1. (u \in links) \in BOOLEAN
      OBVIOUS
    <3> QED
      BY <1>s, <3>1, Zenon DEF Mail
  <2> QED
    BY <1>6, <2>1, <1>m DEF SendMail, Typing, rows, job, ghosts
<1>7. CASE CommitMail(u)
  <2>1. sender[u].meta \in Meta
    BY <1>s DEF Mail
  <2>2. meta' \in [User -> Meta]
    BY <1>7, <2>1 DEF CommitMail, Typing
  <2> QED
    BY <1>7, <2>2, <1>i, <1>m, <1>h DEF CommitMail, Typing, tokens, job, ghosts
<1>8. CASE MailFails(u)
  BY <1>8, <1>i, <1>m DEF MailFails, Typing, rows, tokens, job, ghosts
<1>9. ASSUME NEW p \in Provider, SignOut(u, p)
      PROVE  Typing'
  BY <1>9 DEF SignOut, Typing, tokens, job, ghosts
<1> QED
  BY <1>1, <1>2, <1>3, <1>4, <1>5, <1>6, <1>7, <1>8, <1>9 DEF Mailing

LEMMA AgeTyping ==
  ASSUME Typing, NEW u \in User, Age(u)
  PROVE  Typing'
<1>1. account' \in [User -> Account]
  BY DeletedTyping DEF Age
<1>2. sender' \in [User -> Mail]
  BY MetaParts DEF Age, Typing, NoMail, Mail
<1>3. req' \in [Request -> Task \cup {Idle}]
  BY DEF Age, Typing
<1>4. /\ links' \subseteq User
      /\ resetLinks' \in [User -> SUBSET (0..MaxPasswords)]
      /\ access' \in [User -> SUBSET Provider]
  BY Zenon DEF Age, Typing
<1> QED
  BY <1>1, <1>2, <1>3, <1>4 DEF Age, Typing, job, ghosts

LEMMA JobDoneTyping ==
  ASSUME Typing, NEW j \in Cron, JobDone(j)
  PROVE  /\ batch' \in [Cron -> SUBSET User]
         /\ entity' \in [Cron -> [User -> Account]]
         /\ saved' \in [Cron -> SUBSET User]
         /\ diff' \in [Cron -> [User -> SUBSET {"deactivated", "deleted"}]]
<1>1. [u \in User |-> Untouched] \in [User -> Account]
  BY DEF Untouched, Account
<1>2. [u \in User |-> {}] \in [User -> SUBSET {"deactivated", "deleted"}]
  OBVIOUS
<1> QED
  BY <1>1, <1>2, Zenon DEF JobDone, Typing

LEMMA WrittenTyping ==
  ASSUME Typing, NEW j \in Cron, NEW u \in User
  PROVE  [deactivated |-> Written(j, u, "deactivated"),
          deleted |-> Written(j, u, "deleted"), anonymised |-> TRUE] \in Account
<1>1. /\ entity[j][u].deactivated \in BOOLEAN
      /\ account[u].deactivated \in BOOLEAN
      /\ entity[j][u].deleted \in {"no", "recent", "old"}
      /\ account[u].deleted \in {"no", "recent", "old"}
  <2>1. entity[j][u] \in Account /\ account[u] \in Account
    BY Zenon DEF Typing
  <2> QED
    BY <2>1, Zenon DEF Account
<1>2. Written(j, u, "deactivated") \in BOOLEAN
  BY <1>1 DEF Written
<1>3. Written(j, u, "deleted") \in {"no", "recent", "old"}
  BY <1>1, Zenon DEF Written
<1> QED
  BY <1>2, <1>3, Zenon DEF Account

LEMMA JobTyping ==
  ASSUME Typing, NEW j \in Cron, Job(j)
  PROVE  Typing'
<1>1. CASE JobFind(j)
  <2> PICK us \in SUBSET Eligible :
        /\ batch' = [batch EXCEPT ![j] = us]
        /\ entity' = [entity EXCEPT ![j] =
                        [u \in User |-> IF u \in us THEN account[u] ELSE Untouched]]
    BY <1>1 DEF JobFind
  <2>1. us \in SUBSET User
    BY DEF Eligible
  <2>2. [u \in User |-> IF u \in us THEN account[u] ELSE Untouched] \in [User -> Account]
    BY DEF Typing, Untouched, Account
  <2>3. batch' \in [Cron -> SUBSET User] /\ entity' \in [Cron -> [User -> Account]]
    BY <2>1, <2>2, Zenon DEF Typing
  <2> QED
    BY <1>1, <2>3 DEF JobFind, Typing, rows, tokens, ghosts
<1>2. ASSUME NEW u \in User, JobSave(j, u)
      PROVE  Typing'
  <2> DEFINE d == {f \in {"deactivated", "deleted"} : entity[j][u][f] # account[u][f]}
  <2>1. saved' \in [Cron -> SUBSET User]
    <3>1. saved[j] \cup {u} \in SUBSET User
      BY DEF Typing
    <3> QED
      BY <1>2, <3>1, Zenon DEF JobSave, Typing
  <2>2. diff' \in [Cron -> [User -> SUBSET {"deactivated", "deleted"}]]
    <3>1. d \in SUBSET {"deactivated", "deleted"}
      OBVIOUS
    <3>2. diff' = [diff EXCEPT ![j] = [diff[j] EXCEPT ![u] = d]]
      BY <1>2, Zenon DEF JobSave
    <3> HIDE DEF d
    <3>3. [diff[j] EXCEPT ![u] = d] \in [User -> SUBSET {"deactivated", "deleted"}]
      BY <3>1, Zenon DEF Typing
    <3> QED
      BY <3>2, <3>3, Zenon DEF Typing
  <2> QED
    BY <1>2, <2>1, <2>2 DEF JobSave, Typing, rows, tokens, ghosts
<1>3. CASE JobCommit(j)
  <2>1. account' \in [User -> Account]
    BY <1>3, WrittenTyping DEF JobCommit, Typing
  <2>2. meta' \in [User -> Meta]
    BY <1>3, MetaParts DEF JobCommit, Typing
  <2>3. batch[j] \in SUBSET User
    BY DEF Typing
  <2>4. req' \in [Request -> Task \cup {Idle}]
    <3>1. \A x \in Request : Outdated(req[x], batch[j]) \in Task \cup {Idle}
      BY OutdatedIsTask DEF Typing
    <3> QED
      BY <1>3, <3>1 DEF JobCommit
  <2> QED
    BY <1>3, <2>1, <2>2, <2>3, <2>4, ClearSessionsTyping, JobDoneTyping
    DEF JobCommit, Typing, tokens
<1>4. CASE JobAborts(j)
  <2>1. aborts' \in 0..MaxAborts
    BY <1>4, AccountsAssumption, SMT DEF JobAborts, Typing
  <2> QED
    BY <1>4, <2>1, JobDoneTyping DEF JobAborts, Typing, rows, tokens
<1> QED
  BY <1>1, <1>2, <1>3, <1>4 DEF Job

\* A statement of a transaction that sets a session: it changes the request
\* alone, and only what the request holds.
SameRead(t, x) == /\ t.op = x.op /\ t.user = x.user /\ t.via = x.via /\ t.meta = x.meta
                  /\ t.stale = x.stale

Statement(r, t) ==
  LET x == req[r] IN
  \/ /\ x.stmt = 0 /\ Free(x.user, x.via)
     /\ t.stmt = 1 /\ t.held = {x.via} /\ t.left = x.left
  \/ /\ x.stmt = 1
     /\ t.stmt = 2 /\ t.held = x.held /\ t.left = auths[x.user] \ {x.via}
  \/ \E p \in x.left : /\ Free(x.user, p)
                        /\ t.stmt = x.stmt /\ t.held = x.held \cup {p}
                        /\ t.left = x.left \ {p}

First(x) == [x EXCEPT !.stmt = 1, !.held = {x.via}]
Second(x, l) == [x EXCEPT !.stmt = 2, !.left = l]
Row(x, h, l) == [x EXCEPT !.held = h, !.left = l]

LEMMA FirstTask ==
  ASSUME NEW x \in Task
  PROVE  /\ First(x) \in Task /\ SameRead(First(x), x)
         /\ First(x).stmt = 1 /\ First(x).held = {x.via} /\ First(x).left = x.left
<1>1. 1 \in 0..2 /\ {x.via} \in SUBSET Provider
  BY TaskParts
<1> QED
  BY <1>1, Zenon DEF First, Task, SameRead

LEMMA SecondTask ==
  ASSUME NEW x \in Task, NEW l \in SUBSET Provider
  PROVE  /\ Second(x, l) \in Task /\ SameRead(Second(x, l), x)
         /\ Second(x, l).stmt = 2 /\ Second(x, l).held = x.held /\ Second(x, l).left = l
<1>1. 2 \in 0..2
  OBVIOUS
<1> QED
  BY <1>1, Zenon DEF Second, Task, SameRead

LEMMA RowTask ==
  ASSUME NEW x \in Task, NEW h \in SUBSET Provider, NEW l \in SUBSET Provider
  PROVE  /\ Row(x, h, l) \in Task /\ SameRead(Row(x, h, l), x)
         /\ Row(x, h, l).stmt = x.stmt /\ Row(x, h, l).held = h /\ Row(x, h, l).left = l
BY Zenon DEF Row, Task, SameRead

LEMMA TransactionStep ==
  ASSUME Typing, NEW r \in Request, Transaction(r)
  PROVE  /\ req[r] \in Task /\ req[r].op \in SessionOp
         /\ UNCHANGED <<rows, tokens, outbox, sender, job, ghosts>>
         /\ \E t \in Task : /\ req' = [req EXCEPT ![r] = t]
                             /\ SameRead(t, req[r]) /\ Statement(r, t)
<1> DEFINE x == req[r]
<1>1. x.op \in SessionOp
  BY DEF Transaction, UpdateOwn, UpdateOthers, LockOther
<1>2. x \in Task
  BY <1>1, RequestIsTask DEF SessionOp, Op
<1>3. UNCHANGED <<rows, tokens, outbox, sender, job, ghosts>>
  BY DEF Transaction, UpdateOwn, UpdateOthers, LockOther
<1>5. x.user \in User /\ x.held \in SUBSET Provider /\ x.left \in SUBSET Provider
  BY <1>2, TaskParts
<1>6. CASE UpdateOwn(r)
  <2>1. req' = [req EXCEPT ![r] = First(x)]
    BY <1>6, Zenon DEF UpdateOwn, First
  <2>2. Statement(r, First(x))
    BY <1>2, <1>6, FirstTask DEF UpdateOwn, Statement
  <2> QED
    BY <1>1, <1>2, <1>3, <2>1, <2>2, FirstTask
<1>7. CASE UpdateOthers(r)
  <2> DEFINE l == auths[x.user] \ {x.via}
  <2>1. req' = [req EXCEPT ![r] = Second(x, l)]
    BY <1>7, Zenon DEF UpdateOthers, Second
  <2>2. l \in SUBSET Provider
    BY <1>5 DEF Typing
  <2>3. Statement(r, Second(x, l))
    BY <1>2, <1>7, <2>2, SecondTask DEF UpdateOthers, Statement
  <2> QED
    BY <1>1, <1>2, <1>3, <2>1, <2>2, <2>3, SecondTask
<1>8. ASSUME NEW p \in Provider, LockOther(r, p)
      PROVE  \E t \in Task : /\ req' = [req EXCEPT ![r] = t]
                             /\ SameRead(t, req[r]) /\ Statement(r, t)
  <2> DEFINE h == x.held \cup {p}
             l == x.left \ {p}
  <2>1. req' = [req EXCEPT ![r] = Row(x, h, l)]
    BY <1>8, Zenon DEF LockOther, Row
  <2>2. h \in SUBSET Provider /\ l \in SUBSET Provider
    BY <1>5
  <2>3. Statement(r, Row(x, h, l))
    BY <1>2, <1>8, <2>2, RowTask DEF LockOther, Statement
  <2> QED
    BY <1>2, <2>1, <2>2, <2>3, RowTask
<1> QED
  BY <1>1, <1>2, <1>3, <1>6, <1>7, <1>8 DEF Transaction

LEMMA NextTyping ==
  ASSUME Typing, [Next]_vars
  PROVE  Typing'
<1>1. ASSUME NEW r \in Request, Abort(r)
      PROVE  Typing'
  BY <1>1, EndTyping DEF Abort, Typing, rows, tokens, job, ghosts
<1>2. CASE UNCHANGED vars
  BY <1>2 DEF vars, Typing, rows, tokens, job, ghosts
<1>3. ASSUME NEW r \in Request, Transaction(r)
      PROVE  Typing'
  <2>1. req' \in [Request -> Task \cup {Idle}]
    BY <1>3, TransactionStep DEF Typing
  <2>2. UNCHANGED <<rows, tokens, outbox, sender, job, ghosts>>
    BY <1>3, TransactionStep
  <2> QED
    BY <2>1, <2>2 DEF Typing, rows, tokens, job, ghosts
<1> QED
  BY <1>1, <1>2, <1>3, BeginAnyTyping, CommitAnyTyping, UserStepTyping, AgeTyping, JobTyping
  DEF Next

-----------------------------------------------------------------------------
(* Which actions change what                                                *)

AccountWriters ==
  \/ \E r \in Request : \/ CommitIdp(r) \/ CommitDeactivate(r) \/ CommitDelete(r)
                        \/ CommitReactivate(r) \/ CommitRestore(r)
  \/ \E u \in User : Age(u)
  \/ \E j \in Cron : JobCommit(j)

MetaWriters ==
  \/ \E r \in Request : CommitSignUp(r) \/ CommitVerify(r) \/ CommitReset(r)
  \/ \E u \in User : CommitMail(u)
  \/ \E j \in Cron : JobCommit(j)

SessionWriters ==
  \/ \E r \in Request : \/ CommitVerify(r) \/ CommitSignIn(r) \/ CommitDeactivate(r)
                        \/ CommitDelete(r) \/ CommitReactivate(r) \/ CommitRestore(r)
  \/ \E u \in User, p \in Provider : SignOut(u, p)
  \/ \E j \in Cron : JobCommit(j)

OutboxWriters ==
  \/ \E r \in Request : CommitSignUp(r) \/ CommitIdp(r)
  \/ \E u \in User : \/ RefuseSignIn(u) \/ RequestReset(u) \/ MailReset(u) \/ CommitMail(u)
                     \/ \E k \in Kind : MailLink(u, k)

SenderWriters ==
  \E u \in User : ReadForMail(u) \/ SendMail(u) \/ CommitMail(u) \/ MailFails(u) \/ Age(u)

LinkWriters == \E u \in User : SendMail(u) \/ Age(u) \/ \E k \in Kind : MailLink(u, k)

BatchWriters == \E j \in Cron : JobFind(j) \/ JobCommit(j) \/ JobAborts(j)

WrittenByWriters ==
  /\ AccountWriters \/ UNCHANGED account
  /\ (\E r \in Request : CommitSignUp(r) \/ CommitIdp(r)) \/ UNCHANGED auths
  /\ MetaWriters \/ UNCHANGED meta
  /\ SessionWriters \/ UNCHANGED session
  /\ OutboxWriters \/ UNCHANGED outbox
  /\ SenderWriters \/ UNCHANGED sender
  /\ LinkWriters \/ UNCHANGED links
  /\ BatchWriters \/ UNCHANGED <<batch, entity>>

LEMMA Writers ==
  ASSUME [Next]_vars
  PROVE  WrittenByWriters
<1>1. ASSUME NEW r \in Request, CommitAny(r)
      PROVE  WrittenByWriters
  <2>1. CASE CommitSignUp(r)
    BY <2>1 DEF WrittenByWriters, CommitSignUp, MetaWriters, OutboxWriters, tokens, job
  <2>2. CASE CommitVerify(r)
    BY <2>2 DEF WrittenByWriters, CommitVerify, MetaWriters, SessionWriters, job
  <2>3. CASE CommitSignIn(r)
    BY <2>3 DEF WrittenByWriters, CommitSignIn, SessionWriters, job
  <2>4. CASE CommitIdp(r)
    BY <2>4 DEF WrittenByWriters, CommitIdp, IdpSaved, AccountWriters, OutboxWriters, tokens, job
  <2>5. CASE IdpNotFound(r)
    BY <2>5 DEF WrittenByWriters, IdpNotFound, Abort, rows, tokens, job
  <2>6. CASE CommitReset(r)
    BY <2>6 DEF WrittenByWriters, CommitReset, MetaWriters, tokens, job
  <2>7. CASE CommitDeactivate(r)
    BY <2>7 DEF WrittenByWriters, CommitDeactivate, AccountWriters, SessionWriters, tokens, job
  <2>8. CASE CommitDelete(r)
    BY <2>8 DEF WrittenByWriters, CommitDelete, AccountWriters, SessionWriters, tokens, job
  <2>9. CASE CommitReactivate(r)
    BY <2>9 DEF WrittenByWriters, CommitReactivate, AccountWriters, SessionWriters, job
  <2>10. CASE CommitRestore(r)
    BY <2>10 DEF WrittenByWriters, CommitRestore, AccountWriters, SessionWriters, job
  <2> QED
    BY <1>1, <2>1, <2>2, <2>3, <2>4, <2>5, <2>6, <2>7, <2>8, <2>9, <2>10 DEF CommitAny
<1>t. ASSUME NEW r \in Request, Transaction(r)
      PROVE  WrittenByWriters
  BY <1>t DEF Transaction, UpdateOwn, UpdateOthers, LockOther, WrittenByWriters, rows, tokens, job
<1>2. ASSUME NEW r \in Request, Abort(r) \/ \E u \in User : BeginAny(r, u)
      PROVE  WrittenByWriters
  BY <1>2 DEF WrittenByWriters, Abort, BeginAny, Begin, BeginSignUp, BeginVerify, BeginSignIn, BeginIdp,
              BeginReset, BeginDeactivate, BeginDelete, BeginReactivate, BeginRestore,
              rows, tokens, job
<1>3. ASSUME NEW u \in User,
             RefuseSignIn(u) \/ RequestReset(u) \/ MailReset(u) \/ \E k \in Kind : MailLink(u, k)
      PROVE  WrittenByWriters
  BY <1>3 DEF WrittenByWriters, RefuseSignIn, RequestReset, MailReset, MailLink, OutboxWriters, LinkWriters,
              rows, tokens, job
<1>4. ASSUME NEW u \in User, ReadForMail(u) \/ SendMail(u) \/ CommitMail(u) \/ MailFails(u)
      PROVE  WrittenByWriters
  BY <1>4 DEF WrittenByWriters, ReadForMail, SendMail, CommitMail, MailFails, MetaWriters, OutboxWriters,
              SenderWriters, LinkWriters, rows, tokens, job
<1>5. ASSUME NEW u \in User, Age(u)
      PROVE  WrittenByWriters
  BY <1>5 DEF WrittenByWriters, Age, AccountWriters, SenderWriters, LinkWriters, job
<1>6. ASSUME NEW u \in User, NEW p \in Provider, SignOut(u, p)
      PROVE  WrittenByWriters
  BY <1>6 DEF WrittenByWriters, SignOut, SessionWriters, tokens, job
<1>7. ASSUME NEW j \in Cron, Job(j)
      PROVE  WrittenByWriters
  BY <1>7 DEF WrittenByWriters, Job, JobFind, JobSave, JobCommit, JobAborts, AccountWriters, MetaWriters,
              SessionWriters, BatchWriters, rows, tokens
<1>8. CASE UNCHANGED vars
  BY <1>8 DEF WrittenByWriters, vars, rows, tokens, job
<1>9. ASSUME NEW r \in Request,
             Transaction(r) \/ CommitAny(r) \/ Abort(r) \/ \E u \in User : BeginAny(r, u)
      PROVE  WrittenByWriters
  BY <1>1, <1>t, <1>2, <1>9
<1>10. ASSUME NEW u \in User,
              \/ RefuseSignIn(u) \/ RequestReset(u) \/ Mailing(u) \/ Age(u)
              \/ \E p \in Provider : SignOut(u, p)
       PROVE  WrittenByWriters
  BY <1>3, <1>4, <1>5, <1>6, <1>10 DEF Mailing
<1> QED
  BY <1>7, <1>8, <1>9, <1>10 DEF Next

For(r, u) == req[r] \in Task /\ req[r].user = u

\* What may happen to a request.
Marked(t) == [t EXCEPT !.stale = TRUE]

SameLocks(t, x) == t.stmt = x.stmt /\ t.held = x.held /\ t.left = x.left

LEMMA MarkedTask ==
  ASSUME NEW t \in Task
  PROVE  /\ Marked(t) \in Task
         /\ Marked(t).stale /\ Marked(t).op = t.op /\ Marked(t).user = t.user
         /\ Marked(t).via = t.via /\ Marked(t).meta = t.meta
         /\ SameLocks(Marked(t), t)
BY Zenon DEF Marked, SameLocks, Task

LEMMA OutdatedTask ==
  ASSUME NEW t \in Task, NEW us
  PROVE  Outdated(t, us) = IF t.user \in us THEN Marked(t) ELSE t
BY TaskIsNotIdle DEF Outdated, Marked

\* A transaction's statement.
Moved(r) == /\ Transaction(r) /\ req[r] \in Task
            /\ SameRead(req'[r], req[r]) /\ Statement(r, req'[r])

RequestStep(r) ==
  \/ req'[r] = Idle \/ req'[r] = req[r]
  \/ req[r] \in Task /\ req'[r] = Marked(req[r])
  \/ \E u \in User : BeginAny(r, u)
  \/ CommitIdp(r) /\ req'[r] = TaskFor("signIn", req[r].user, req[r].via)
  \/ Moved(r)

LEMMA RequestSteps ==
  ASSUME Typing, [Next]_vars, NEW r \in Request
  PROVE  RequestStep(r)
<1>1. ASSUME NEW s \in Request, End(s) PROVE RequestStep(r)
  BY <1>1 DEF RequestStep, End, Typing
<1>2. ASSUME NEW us, req'[r] \in {Idle, Outdated(req[r], us)} PROVE RequestStep(r)
  BY <1>2 DEF RequestStep, Outdated, Marked, Typing
<1>3. ASSUME NEW s \in Request, CommitIdp(s) PROVE RequestStep(r)
  <2>1. CASE End(s)
    BY <1>1, <2>1
  <2>2. CASE req' = [req EXCEPT ![s] = TaskFor("signIn", req[s].user, req[s].via)]
    BY <1>3, <2>2 DEF RequestStep, Typing
  <2> QED
    BY <1>3, <2>1, <2>2 DEF CommitIdp
<1>4. ASSUME NEW s \in Request, CommitAny(s) \/ Abort(s) PROVE RequestStep(r)
  <2>1. CASE CommitDeactivate(s) \/ CommitDelete(s)
    BY <1>2, <2>1 DEF CommitDeactivate, CommitDelete
  <2>2. \/ End(s) \/ CommitIdp(s) \/ CommitDeactivate(s) \/ CommitDelete(s)
    BY <1>4 DEF CommitAny, Abort, CommitSignUp, CommitVerify, CommitSignIn, IdpNotFound,
                CommitReset, CommitReactivate, CommitRestore
  <2> QED
    BY <1>1, <1>3, <2>1, <2>2
<1>5. ASSUME NEW s \in Request, NEW u \in User, BeginAny(s, u) PROVE RequestStep(r)
  <2>1. \E t : req' = [req EXCEPT ![s] = t]
    BY <1>5 DEF BeginAny, Begin, BeginSignUp, BeginVerify, BeginSignIn, BeginIdp,
                BeginReset, BeginDeactivate, BeginDelete, BeginReactivate, BeginRestore
  <2> QED
    BY <1>5, <2>1 DEF RequestStep, Typing
<1>6. ASSUME NEW u \in User,
             \/ RefuseSignIn(u) \/ RequestReset(u) \/ Mailing(u)
             \/ \E p \in Provider : SignOut(u, p)
      PROVE  RequestStep(r)
  <2>1. UNCHANGED req
    BY <1>6 DEF RefuseSignIn, RequestReset, Mailing, SignOut, MailLink, MailReset,
                ReadForMail, SendMail, CommitMail, MailFails
  <2> QED
    BY <2>1 DEF RequestStep
<1>7. ASSUME NEW u \in User, Age(u) PROVE RequestStep(r)
  BY <1>7 DEF RequestStep, Age
<1>8. ASSUME NEW j \in Cron, Job(j) PROVE RequestStep(r)
  <2>1. CASE JobCommit(j)
    BY <1>2, <2>1 DEF JobCommit
  <2>2. UNCHANGED req \/ JobCommit(j)
    BY <1>8 DEF Job, JobFind, JobSave, JobAborts
  <2> QED
    BY <2>1, <2>2 DEF RequestStep
<1>9. CASE UNCHANGED vars
  BY <1>9 DEF RequestStep, vars
<1>12. ASSUME NEW s \in Request, Transaction(s) PROVE RequestStep(r)
  <2>1. PICK t \in Task : /\ req' = [req EXCEPT ![s] = t]
                         /\ SameRead(t, req[s]) /\ Statement(s, t)
    BY <1>12, TransactionStep
  <2>2. CASE r = s
    <3>1. req'[r] = t /\ req[r] \in Task
      BY <1>12, <2>1, <2>2, TransactionStep DEF Typing
    <3> QED
      BY <1>12, <2>1, <2>2, <3>1 DEF RequestStep, Moved
  <2>3. CASE r # s
    BY <2>1, <2>3 DEF RequestStep, Typing
  <2> QED
    BY <2>2, <2>3
<1>10. ASSUME NEW s \in Request,
              Transaction(s) \/ CommitAny(s) \/ Abort(s) \/ \E u \in User : BeginAny(s, u)
       PROVE  RequestStep(r)
  BY <1>4, <1>5, <1>10, <1>12
<1>11. ASSUME NEW u \in User,
              \/ RefuseSignIn(u) \/ RequestReset(u) \/ Mailing(u) \/ Age(u)
              \/ \E p \in Provider : SignOut(u, p)
       PROVE  RequestStep(r)
  BY <1>6, <1>7, <1>11
<1> QED
  BY <1>8, <1>9, <1>10, <1>11 DEF Next

\* Writing one column of users leaves the others alone.
LEMMA ColumnWrites ==
  ASSUME Typing, NEW u \in User
  PROVE  /\ \A b : account' = [account EXCEPT ![u].deactivated = b]
                     => /\ account'[u].deactivated = b
                        /\ \A x \in User : account'[x].deleted = account[x].deleted
                        /\ \A x \in User \ {u} :
                             account'[x].deactivated = account[x].deactivated
         /\ \A d : account' = [account EXCEPT ![u].deleted = d]
                     => /\ account'[u].deleted = d
                        /\ \A x \in User \ {u} : account'[x].deleted = account[x].deleted
                        /\ \A x \in User :
                             account'[x].deactivated = account[x].deactivated
<1>1. account[u] \in Account
  BY DEF Typing
<1>2. ASSUME NEW b, account' = [account EXCEPT ![u].deactivated = b]
      PROVE  /\ account'[u].deactivated = b
             /\ \A x \in User : account'[x].deleted = account[x].deleted
             /\ \A x \in User \ {u} : account'[x].deactivated = account[x].deactivated
  <2>1. \A x \in User : account'[x] = IF x = u THEN [account[u] EXCEPT !.deactivated = b]
                                              ELSE account[x]
    BY <1>2 DEF Typing
  <2>2. /\ [account[u] EXCEPT !.deactivated = b].deleted = account[u].deleted
        /\ [account[u] EXCEPT !.deactivated = b].deactivated = b
    BY <1>1, Zenon DEF Account
  <2> QED
    BY <2>1, <2>2
<1>3. ASSUME NEW d, account' = [account EXCEPT ![u].deleted = d]
      PROVE  /\ account'[u].deleted = d
             /\ \A x \in User \ {u} : account'[x].deleted = account[x].deleted
             /\ \A x \in User : account'[x].deactivated = account[x].deactivated
  <2>1. \A x \in User : account'[x] = IF x = u THEN [account[u] EXCEPT !.deleted = d]
                                              ELSE account[x]
    BY <1>3 DEF Typing
  <2>2. /\ [account[u] EXCEPT !.deleted = d].deleted = d
        /\ [account[u] EXCEPT !.deleted = d].deactivated = account[u].deactivated
    BY <1>1, Zenon DEF Account
  <2> QED
    BY <2>1, <2>2
<1> QED
  BY <1>2, <1>3

\* What may happen to a row of users.
LEMMA AnonymisedColumn ==
  ASSUME Typing, NEW u \in User, NEW x \in User
  PROVE  /\ \A b : account' = [account EXCEPT ![u].deactivated = b]
                     => account'[x].anonymised = account[x].anonymised
         /\ \A d : account' = [account EXCEPT ![u].deleted = d]
                     => account'[x].anonymised = account[x].anonymised
<1>1. account[u] \in Account
  BY DEF Typing
<1>2. \A b : [account[u] EXCEPT !.deactivated = b].anonymised = account[u].anonymised
  BY <1>1, Zenon DEF Account
<1>3. \A d : [account[u] EXCEPT !.deleted = d].anonymised = account[u].anonymised
  BY <1>1, Zenon DEF Account
<1>4. ASSUME NEW b, account' = [account EXCEPT ![u].deactivated = b]
      PROVE  account'[x].anonymised = account[x].anonymised
  <2>1. account'[x] = IF x = u THEN [account[u] EXCEPT !.deactivated = b] ELSE account[x]
    BY <1>4 DEF Typing
  <2> QED
    BY <1>2, <2>1
<1>5. ASSUME NEW d, account' = [account EXCEPT ![u].deleted = d]
      PROVE  account'[x].anonymised = account[x].anonymised
  <2>1. account'[x] = IF x = u THEN [account[u] EXCEPT !.deleted = d] ELSE account[x]
    BY <1>5 DEF Typing
  <2> QED
    BY <1>3, <2>1
<1> QED
  BY <1>4, <1>5

Anonymises(u) == \E j \in Cron : JobCommit(j) /\ u \in batch[j]

AccountStep(u) ==
  \/ Anonymises(u)
  \/ /\ account'[u].anonymised = account[u].anonymised
     /\ account'[u].deactivated =>
          account[u].deactivated \/ \E r \in Request : CommitDeactivate(r) /\ For(r, u)
     /\ account'[u].deleted # account[u].deleted =>
          \/ \E r \in Request : CommitDelete(r) /\ For(r, u)
          \/ \E r \in Request : CommitRestore(r) /\ For(r, u)
          \/ Age(u) /\ account'[u].deleted = "old"

LEMMA AccountSteps ==
  ASSUME Typing, [Next]_vars, NEW u \in User
  PROVE  AccountStep(u)
<1>1. ASSUME NEW r \in Request, req[r].op \in Op
      PROVE  req[r].user \in User /\ For(r, req[r].user)
  BY <1>1, RequestIsTask, TaskParts DEF For
<1>2. ASSUME NEW r \in Request, CommitIdp(r) \/ CommitReactivate(r)
      PROVE  AccountStep(u)
  <2> DEFINE x == req[r].user
             b == account'[x].deactivated
  <2>1. x \in User
    BY <1>1, <1>2 DEF CommitIdp, CommitReactivate, Is, Op
  <2>2. PICK c : account' = [account EXCEPT ![x].deactivated = c] /\ (c => account[x].deactivated)
    <3>1. CASE CommitIdp(r)
      BY <3>1 DEF CommitIdp, IdpSaved
    <3>2. CASE CommitReactivate(r)
      BY <3>2 DEF CommitReactivate
    <3> QED
      BY <1>2, <3>1, <3>2
  <2>3. account'[u].deactivated => account[u].deactivated
    BY <2>1, <2>2, ColumnWrites
  <2> QED
    BY <2>1, <2>2, <2>3, ColumnWrites, AnonymisedColumn DEF AccountStep
<1>3. ASSUME NEW r \in Request, CommitDeactivate(r)
      PROVE  AccountStep(u)
  <2> DEFINE x == req[r].user
  <2>1. x \in User /\ For(r, x)
    BY <1>1, <1>3 DEF CommitDeactivate, Is, Op
  <2>2. account' = [account EXCEPT ![x].deactivated = TRUE]
    BY <1>3 DEF CommitDeactivate
  <2>3. account'[u].deleted = account[u].deleted
    BY <2>1, <2>2, ColumnWrites
  <2>4. u # x => account'[u].deactivated = account[u].deactivated
    BY <2>1, <2>2, ColumnWrites
  <2> QED
    BY <1>3, <2>1, <2>2, <2>3, <2>4, AnonymisedColumn DEF AccountStep
<1>4. ASSUME NEW r \in Request, CommitDelete(r) \/ CommitRestore(r)
      PROVE  AccountStep(u)
  <2> DEFINE x == req[r].user
  <2>1. x \in User /\ For(r, x)
    BY <1>1, <1>4 DEF CommitDelete, CommitRestore, Is, Op
  <2>2. PICK d : account' = [account EXCEPT ![x].deleted = d]
    BY <1>4 DEF CommitDelete, CommitRestore
  <2>3. account'[u].deactivated = account[u].deactivated
    BY <2>1, <2>2, ColumnWrites
  <2>4. u # x => account'[u].deleted = account[u].deleted
    BY <2>1, <2>2, ColumnWrites
  <2> QED
    BY <1>4, <2>1, <2>2, <2>3, <2>4, AnonymisedColumn DEF AccountStep
<1>5. ASSUME NEW x \in User, Age(x)
      PROVE  AccountStep(u)
  <2>1. account' = [account EXCEPT ![x].deleted = "old"]
    BY <1>5 DEF Age
  <2>2. /\ account'[u].deactivated = account[u].deactivated
        /\ account'[x].deleted = "old"
    BY <2>1, ColumnWrites
  <2>3. u # x => account'[u].deleted = account[u].deleted
    BY <2>1, ColumnWrites
  <2> QED
    BY <1>5, <2>1, <2>2, <2>3, AnonymisedColumn DEF AccountStep
<1>6. ASSUME NEW j \in Cron, JobCommit(j)
      PROVE  AccountStep(u)
  BY <1>6 DEF JobCommit, AccountStep, Anonymises
<1>7. CASE UNCHANGED account
  BY <1>7 DEF AccountStep
<1> QED
  BY <1>2, <1>3, <1>4, <1>5, <1>6, <1>7, Writers DEF WrittenByWriters, AccountWriters

\* What may happen to the metadata of the local authentication.
MetaStep(u) ==
  \/ meta'[u] = meta[u] \/ CommitMail(u) \/ Anonymises(u)
  \/ \E r \in Request : /\ For(r, u)
                        /\ CommitSignUp(r) \/ CommitVerify(r) \/ CommitReset(r)

LEMMA MetaSteps ==
  ASSUME Typing, [Next]_vars, NEW u \in User
  PROVE  MetaStep(u)
<1>1. ASSUME NEW r \in Request, CommitSignUp(r) \/ CommitVerify(r) \/ CommitReset(r)
      PROVE  MetaStep(u)
  <2>1. req[r] \in Task
    BY <1>1, RequestIsTask DEF CommitSignUp, CommitVerify, CommitReset, Is, Op
  <2>2. \E m : meta' = [meta EXCEPT ![req[r].user] = m]
    BY <1>1 DEF CommitSignUp, CommitVerify, CommitReset
  <2>3. req[r].user # u => meta'[u] = meta[u]
    BY <2>2 DEF Typing
  <2> QED
    BY <1>1, <2>1, <2>3 DEF MetaStep, For
<1>2. ASSUME NEW x \in User, CommitMail(x)
      PROVE  MetaStep(u)
  <2>1. x # u => meta'[u] = meta[u]
    BY <1>2 DEF CommitMail, Typing
  <2> QED
    BY <1>2, <2>1 DEF MetaStep
<1>3. ASSUME NEW j \in Cron, JobCommit(j)
      PROVE  MetaStep(u)
  BY <1>3 DEF JobCommit, MetaStep, Anonymises
<1>4. CASE UNCHANGED meta
  BY <1>4 DEF MetaStep
<1> QED
  BY <1>1, <1>2, <1>3, <1>4, Writers DEF WrittenByWriters, MetaWriters

\* Only a request for the account gives it a session, and ends.
Signs(r, u) == For(r, u) /\ SetSession(r) /\ req'[r] = Idle

LEMMA SessionSteps ==
  ASSUME Typing, [Next]_vars, NEW u \in User
  PROVE  session'[u] \subseteq session[u] \/ \E r \in Request : Signs(r, u)
<1>1. ASSUME NEW r \in Request,
             \/ CommitVerify(r) \/ CommitSignIn(r) \/ CommitReactivate(r) \/ CommitRestore(r)
      PROVE  session'[u] \subseteq session[u] \/ Signs(r, u)
  <2>1. req[r] \in Task
    BY <1>1, RequestIsTask
    DEF CommitVerify, CommitSignIn, CommitReactivate, CommitRestore, Is, Op
  <2>2. SetSession(r) /\ req'[r] = Idle
    BY <1>1 DEF CommitVerify, CommitSignIn, CommitReactivate, CommitRestore, End, Typing
  <2>3. req[r].user # u => session'[u] = session[u]
    BY <2>2 DEF SetSession, Typing
  <2> QED
    BY <2>1, <2>2, <2>3 DEF For, Signs
<1>2. ASSUME NEW us, ClearSessions(us)
      PROVE  session'[u] \subseteq session[u]
  BY <1>2 DEF ClearSessions
<1>3. ASSUME NEW x \in User, NEW p \in Provider, SignOut(x, p)
      PROVE  session'[u] \subseteq session[u]
  BY <1>3 DEF SignOut, Typing
<1>4. ASSUME NEW r \in Request, CommitDeactivate(r) \/ CommitDelete(r)
      PROVE  session'[u] \subseteq session[u]
  BY <1>2, <1>4 DEF CommitDeactivate, CommitDelete
<1>5. ASSUME NEW j \in Cron, JobCommit(j)
      PROVE  session'[u] \subseteq session[u]
  BY <1>2, <1>5 DEF JobCommit
<1>6. CASE UNCHANGED session
  BY <1>6
<1> QED
  BY <1>1, <1>3, <1>4, <1>5, <1>6, Writers DEF WrittenByWriters, SessionWriters


\* What a request that starts has read.
Reads(t, u) ==
  /\ t.op \in Op /\ t.user = u
  /\ t.stmt = 0 /\ t.held = {} /\ t.left = {}
  /\ t.op = "verify" => t.via = "local" /\ "local" \in auths[u]
  /\ t.op \in {"verify", "restore"} => u \in links
  /\ t.op = "reset" => LocalVerified(u) /\ t.meta.verified /\ account[u].deleted = "no"
  /\ t.op \notin {"signUp", "idp"} => u \in links \/ account[u].deleted = "no"
  /\ account[u].anonymised /\ account[u].deleted # "no" => t.meta.verified

Started(r, u) == req'[r] \in Task /\ Reads(req'[r], u)

LEMMA BeginStarts ==
  ASSUME Typing, NEW r \in Request, NEW u \in User, NEW t, Begin(r, t), Reads(t, u), Typing'
  PROVE  Started(r, u)
<1>1. req'[r] = t
  BY DEF Begin, Typing
<1>2. t # Idle
  BY SMT DEF Idle, Op, Reads
<1> QED
  BY <1>1, <1>2 DEF Started, Typing

LEMMA BeginAnyStarts ==
  ASSUME Typing, NEW r \in Request, NEW u \in User, BeginAny(r, u)
  PROVE  Started(r, u)
<1>t. Typing'
  BY BeginAnyTyping
<1>1. CASE BeginSignUp(r, u)
  BY <1>t, <1>1, BeginStarts DEF BeginSignUp, TaskFor, Op, Reads
<1>2. CASE BeginVerify(r, u)
  BY <1>t, <1>2, BeginStarts DEF BeginVerify, TaskFor, Op, Reads
<1>3. CASE BeginSignIn(r, u)
  BY <1>t, <1>3, BeginStarts DEF BeginSignIn, TaskFor, Op, Reads
<1>4. ASSUME NEW p \in Idp, BeginIdp(r, u, p)
      PROVE  Started(r, u)
  BY <1>t, <1>4, BeginStarts DEF BeginIdp, TaskFor, Op, Reads
<1>5. ASSUME NEW v \in 0..MaxPasswords, BeginReset(r, u, v)
      PROVE  Started(r, u)
  BY <1>t, <1>5, BeginStarts DEF BeginReset, LocalVerified, Found, TaskFor, Op, Reads
<1>6. CASE BeginDeactivate(r, u)
  BY <1>t, <1>6, BeginStarts DEF BeginDeactivate, Found, TaskFor, Op, Reads
<1>7. CASE BeginDelete(r, u)
  BY <1>t, <1>7, BeginStarts DEF BeginDelete, Found, TaskFor, Op, Reads
<1>8. CASE BeginReactivate(r, u)
  BY <1>t, <1>8, BeginStarts DEF BeginReactivate, Found, TaskFor, Op, Reads
<1>9. CASE BeginRestore(r, u)
  BY <1>t, <1>9, BeginStarts DEF BeginRestore, LocalVerified, TaskFor, Op, Reads
<1> QED
  BY <1>1, <1>2, <1>3, <1>4, <1>5, <1>6, <1>7, <1>8, <1>9 DEF BeginAny

LEMMA BeginKeeps ==
  ASSUME NEW r \in Request, NEW u \in User, BeginAny(r, u)
  PROVE  UNCHANGED <<rows, tokens, outbox, sender>>
BY DEF BeginAny, Begin, BeginSignUp, BeginVerify, BeginSignIn, BeginIdp, BeginReset,
       BeginDeactivate, BeginDelete, BeginReactivate, BeginRestore

LEMMA AuthsGrow ==
  ASSUME Typing, [Next]_vars, NEW u \in User
  PROVE  auths[u] \subseteq auths'[u]
<1>1. ASSUME NEW r \in Request, CommitSignUp(r) \/ CommitIdp(r)
      PROVE  auths[u] \subseteq auths'[u]
  <2>1. \E p : auths' = [auths EXCEPT ![req[r].user] = @ \cup {p}]
    BY <1>1 DEF CommitSignUp, CommitIdp, IdpSaved
  <2> QED
    BY <2>1 DEF Typing
<1> QED
  BY <1>1, Writers DEF WrittenByWriters

-----------------------------------------------------------------------------
(* What the requests in flight rely on                                      *)

\* RequestsFounded of one request.
Founded(t) ==
  /\ t.op \in {"signIn", "verify", "reactivate", "restore"} => t.via \in auths[t.user]
  /\ t.op \in {"signIn", "verify", "reactivate"} /\ ~t.stale
       => account[t.user].deleted = "no"
  /\ t.op = "signIn" /\ ~t.stale => ~account[t.user].deactivated

LEMMA RequestsFoundedEach == RequestsFounded <=> \A r \in Request : Founded(req[r])
BY DEF RequestsFounded, Founded

LEMMA IdleIsFounded == Founded(Idle) /\ Founded(Idle)'
BY DEF Founded, Idle

\* No account is closed.
NoneClosed ==
  \A u \in User : /\ account'[u].deleted \in {"no", account[u].deleted}
                  /\ account'[u].deactivated => account[u].deactivated

\* A transaction that ends requests, adds authentications and opens accounts,
\* and does nothing else to what the requests rely on.
LEMMA FoundedKept ==
  ASSUME Typing, RequestsFounded,
         \A u \in User : auths[u] \subseteq auths'[u],
         NoneClosed,
         \A r \in Request : req'[r] \in {Idle, req[r]}
  PROVE  RequestsFounded'
<1> SUFFICES ASSUME NEW r \in Request PROVE Founded(req[r])'
  BY DEF RequestsFounded, Founded
<1>1. CASE req'[r] = Idle
  BY <1>1, IdleIsFounded DEF Founded
<1>2. CASE req'[r] = req[r] /\ req[r] # Idle
  <2>1. req[r].user \in User
    BY <1>2, TaskParts DEF Typing
  <2>2. Founded(req[r])
    BY RequestsFoundedEach
  <2> QED
    BY <1>2, <2>1, <2>2 DEF Founded, NoneClosed
<1> QED
  BY <1>1, <1>2

\* A request that starts, or goes on, with what it just read.
LEMMA FoundedStart ==
  ASSUME Typing, RequestsFounded, NEW s \in Request, NEW t,
         \A u \in User : auths[u] \subseteq auths'[u],
         NoneClosed,
         req' = [req EXCEPT ![s] = t], Founded(t)'
  PROVE  RequestsFounded'
<1> SUFFICES ASSUME NEW r \in Request PROVE Founded(req[r])'
  BY DEF RequestsFounded, Founded
<1>1. CASE r = s
  <2>1. req'[r] = t
    BY <1>1 DEF Typing
  <2> QED
    BY <2>1 DEF Founded
<1>2. CASE r # s
  <2>1. req'[r] = req[r]
    BY <1>2 DEF Typing
  <2>2. CASE req[r] = Idle
    BY <2>1, <2>2, IdleIsFounded DEF Founded
  <2>3. CASE req[r] # Idle
    <3>1. req[r].user \in User
      BY <2>3, TaskParts DEF Typing
    <3>2. Founded(req[r])
      BY RequestsFoundedEach
    <3> QED
      BY <2>1, <3>1, <3>2 DEF Founded, NoneClosed
  <2> QED
    BY <2>2, <2>3
<1> QED
  BY <1>1, <1>2

\* Accounts are closed under the requests that read them before.
LEMMA FoundedOutdated ==
  ASSUME Typing, RequestsFounded, NEW us \in SUBSET User,
         UNCHANGED auths,
         \A u \in User \ us : /\ account'[u].deleted = account[u].deleted
                               /\ account'[u].deactivated = account[u].deactivated,
         \A r \in Request : req'[r] \in {Idle, Outdated(req[r], us)}
  PROVE  RequestsFounded'
<1> SUFFICES ASSUME NEW r \in Request PROVE Founded(req[r])'
  BY DEF RequestsFounded, Founded
<1>1. CASE req'[r] = Idle
  BY <1>1, IdleIsFounded DEF Founded
<1>2. CASE req'[r] = Outdated(req[r], us) /\ req[r] = Idle
  BY <1>2, IdleIsFounded DEF Founded, Outdated
<1>3. CASE req'[r] = Outdated(req[r], us) /\ req[r] # Idle
  <2>1. req[r] \in Task
    BY <1>3 DEF Typing
  <2>2. Founded(req[r]) /\ req[r].user \in User
    BY <2>1, TaskParts, RequestsFoundedEach
  <2>3. CASE req[r].user \in us
    <3>1. req'[r] = [req[r] EXCEPT !.stale = TRUE]
      BY <1>3, <2>3 DEF Outdated
    <3>2. /\ req'[r].op = req[r].op /\ req'[r].user = req[r].user
          /\ req'[r].via = req[r].via /\ req'[r].stale
      BY <2>1, <3>1, Zenon DEF Task
    <3> QED
      BY <2>2, <3>2, Zenon DEF Founded
  <2>4. CASE req[r].user \notin us
    <3>1. req'[r] = req[r]
      BY <1>3, <2>4 DEF Outdated
    <3> QED
      BY <2>2, <2>4, <3>1 DEF Founded
  <2> QED
    BY <2>3, <2>4
<1> QED
  BY <1>1, <1>2, <1>3

LEMMA BeginFounded ==
  ASSUME Typing, RequestsFounded, NEW r \in Request, NEW t, Begin(r, t), Founded(t)
  PROVE  RequestsFounded'
<1>1. req' = [req EXCEPT ![r] = t] /\ UNCHANGED <<account, auths>>
  BY DEF Begin, rows
<1>2. Founded(t)'
  BY <1>1 DEF Founded
<1>3. NoneClosed
  BY <1>1 DEF NoneClosed
<1> QED
  BY <1>1, <1>2, <1>3, FoundedStart

LEMMA BeginAnyFounded ==
  ASSUME Typing, RequestsFounded, NEW r \in Request, NEW u \in User, BeginAny(r, u)
  PROVE  RequestsFounded'
<1>1. CASE BeginSignUp(r, u)
  BY <1>1, BeginFounded DEF BeginSignUp, TaskFor, Founded
<1>2. CASE BeginVerify(r, u)
  BY <1>2, BeginFounded DEF BeginVerify, TaskFor, Founded
<1>3. CASE BeginSignIn(r, u)
  BY <1>3, BeginFounded DEF BeginSignIn, LocalVerified, TaskFor, Founded
<1>4. ASSUME NEW p \in Idp, BeginIdp(r, u, p)
      PROVE  RequestsFounded'
  BY <1>4, BeginFounded DEF BeginIdp, TaskFor, Founded
<1>5. ASSUME NEW v \in 0..MaxPasswords, BeginReset(r, u, v)
      PROVE  RequestsFounded'
  BY <1>5, BeginFounded DEF BeginReset, TaskFor, Founded
<1>6. CASE BeginDeactivate(r, u)
  BY <1>6, BeginFounded DEF BeginDeactivate, TaskFor, Founded
<1>7. CASE BeginDelete(r, u)
  BY <1>7, BeginFounded DEF BeginDelete, TaskFor, Founded
<1>8. CASE BeginReactivate(r, u)
  BY <1>8, BeginFounded DEF BeginReactivate, LocalVerified, Found, TaskFor, Founded
<1>9. CASE BeginRestore(r, u)
  BY <1>9, BeginFounded DEF BeginRestore, LocalVerified, TaskFor, Founded
<1> QED
  BY <1>1, <1>2, <1>3, <1>4, <1>5, <1>6, <1>7, <1>8, <1>9 DEF BeginAny

LEMMA EndFounded ==
  ASSUME Typing, RequestsFounded, NEW r \in Request, End(r), UNCHANGED auths,
         NoneClosed
  PROVE  RequestsFounded'
<1>1. \A x \in Request : req'[x] \in {Idle, req[x]}
  BY DEF End, Typing
<1> QED
  BY <1>1, FoundedKept

LEMMA CommitAnyFounded ==
  ASSUME Typing, RequestsFounded, NEW r \in Request, CommitAny(r)
  PROVE  RequestsFounded'
<1> DEFINE u == req[r].user
<1>u. ASSUME NEW op \in Op, Is(r, op)
      PROVE  u \in User
  BY <1>u, RequestIsTask, TaskParts DEF Is
<1>n. UNCHANGED account => NoneClosed
  BY DEF NoneClosed
<1>1. CASE CommitSignUp(r)
  <2>1. \A x \in Request : req'[x] \in {Idle, req[x]}
    BY <1>1 DEF CommitSignUp, End, Typing
  <2>2. \A x \in User : auths[x] \subseteq auths'[x]
    BY <1>1 DEF CommitSignUp, Typing
  <2> QED
    BY <1>1, <1>n, <2>1, <2>2, FoundedKept DEF CommitSignUp
<1>2. CASE CommitVerify(r)
  BY <1>2, <1>n, EndFounded DEF CommitVerify
<1>3. CASE CommitSignIn(r)
  BY <1>3, <1>n, EndFounded DEF CommitSignIn
<1>4. CASE CommitIdp(r)
  <2>1. u \in User
    BY <1>4, <1>u DEF CommitIdp, Op
  <2>2. \A x \in User : auths[x] \subseteq auths'[x]
    BY <1>4 DEF CommitIdp, IdpSaved, Typing
  <2>3. NoneClosed
    BY <1>4, <2>1, ColumnWrites DEF CommitIdp, IdpSaved, NoneClosed
  <2>4. CASE End(r)
    <3>1. \A x \in Request : req'[x] \in {Idle, req[x]}
      BY <2>4 DEF End, Typing
    <3> QED
      BY <2>2, <2>3, <3>1, FoundedKept
  <2>5. CASE /\ ~account'[u].deactivated
             /\ req' = [req EXCEPT ![r] = TaskFor("signIn", u, req[r].via)]
    <3>1. req[r].via \in auths'[u]
      BY <1>4, <2>1 DEF CommitIdp, IdpSaved, Typing
    <3>2. account'[u].deleted = "no"
      BY <1>4, <2>1, <2>3 DEF CommitIdp, NoneClosed
    <3>3. PICK t : t = TaskFor("signIn", u, req[r].via)
      OBVIOUS
    <3>4. t.user = u /\ t.via = req[r].via
      BY <3>3 DEF TaskFor
    <3>5. Founded(t)'
      BY <2>5, <3>1, <3>2, <3>4 DEF Founded
    <3> QED
      BY <2>2, <2>3, <2>5, <3>3, <3>5, FoundedStart
  <2> QED
    BY <1>4, <2>4, <2>5 DEF CommitIdp
<1>5. CASE IdpNotFound(r)
  BY <1>5, <1>n, EndFounded DEF IdpNotFound, Abort, rows
<1>6. CASE CommitReset(r)
  BY <1>6, <1>n, EndFounded DEF CommitReset
<1>7. CASE CommitDeactivate(r)
  <2>1. u \in User
    BY <1>7, <1>u DEF CommitDeactivate, Op
  <2>2. \A x \in User \ {u} : /\ account'[x].deleted = account[x].deleted
                              /\ account'[x].deactivated = account[x].deactivated
    BY <1>7, <2>1, ColumnWrites DEF CommitDeactivate
  <2>3. \A x \in Request : req'[x] \in {Idle, Outdated(req[x], {u})}
    BY <1>7 DEF CommitDeactivate
  <2> QED
    BY <1>7, <2>1, <2>2, <2>3, FoundedOutdated DEF CommitDeactivate
<1>8. CASE CommitDelete(r)
  <2>1. u \in User
    BY <1>8, <1>u DEF CommitDelete, Op
  <2>2. \A x \in User \ {u} : /\ account'[x].deleted = account[x].deleted
                              /\ account'[x].deactivated = account[x].deactivated
    BY <1>8, <2>1, ColumnWrites DEF CommitDelete
  <2>3. \A x \in Request : req'[x] \in {Idle, Outdated(req[x], {u})}
    BY <1>8 DEF CommitDelete
  <2> QED
    BY <1>8, <2>1, <2>2, <2>3, FoundedOutdated DEF CommitDelete
<1>9. CASE CommitReactivate(r)
  <2>1. NoneClosed
    BY <1>9, <1>u, ColumnWrites DEF CommitReactivate, Op, NoneClosed
  <2> QED
    BY <1>9, <2>1, EndFounded DEF CommitReactivate
<1>10. CASE CommitRestore(r)
  <2>1. NoneClosed
    BY <1>10, <1>u, ColumnWrites DEF CommitRestore, Op, NoneClosed
  <2> QED
    BY <1>10, <2>1, EndFounded DEF CommitRestore
<1> QED
  BY <1>1, <1>2, <1>3, <1>4, <1>5, <1>6, <1>7, <1>8, <1>9, <1>10 DEF CommitAny

LEMMA NextFounded ==
  ASSUME Typing, RequestsFounded, [Next]_vars
  PROVE  RequestsFounded'
<1>1. ASSUME NEW r \in Request, Abort(r)
      PROVE  RequestsFounded'
  <2>1. NoneClosed
    BY <1>1 DEF Abort, rows, NoneClosed
  <2> QED
    BY <1>1, <2>1, EndFounded DEF Abort, rows
<1>2. ASSUME UNCHANGED <<account, auths, req>>
      PROVE  RequestsFounded'
  BY <1>2 DEF RequestsFounded
<1>3. ASSUME NEW u \in User, Age(u)
      PROVE  RequestsFounded'
  <2>1. \A x \in User \ {u} : /\ account'[x].deleted = account[x].deleted
                              /\ account'[x].deactivated = account[x].deactivated
    BY <1>3, ColumnWrites DEF Age
  <2>2. \A r \in Request : req'[r] \in {Idle, Outdated(req[r], {u})}
    BY <1>3 DEF Age, Outdated
  <2> QED
    BY <1>3, <2>1, <2>2, FoundedOutdated DEF Age
<1>4. ASSUME NEW j \in Cron, JobCommit(j)
      PROVE  RequestsFounded'
  <2>1. batch[j] \in SUBSET User
    BY DEF Typing
  <2>2. \A x \in User \ batch[j] :
          /\ account'[x].deleted = account[x].deleted
          /\ account'[x].deactivated = account[x].deactivated
    BY <1>4 DEF JobCommit
  <2>3. \A r \in Request : req'[r] \in {Idle, Outdated(req[r], batch[j])}
    BY <1>4 DEF JobCommit
  <2> QED
    BY <1>4, <2>1, <2>2, <2>3, FoundedOutdated DEF JobCommit
<1>5. ASSUME NEW u \in User,
             \/ RefuseSignIn(u) \/ RequestReset(u) \/ Mailing(u)
             \/ \E p \in Provider : SignOut(u, p)
      PROVE  UNCHANGED <<account, auths, req>>
  BY <1>5 DEF RefuseSignIn, RequestReset, Mailing, SignOut, MailLink, MailReset,
              ReadForMail, SendMail, CommitMail, MailFails, rows
<1>6. ASSUME NEW j \in Cron, JobFind(j) \/ JobAborts(j) \/ \E u \in User : JobSave(j, u)
      PROVE  UNCHANGED <<account, auths, req>>
  BY <1>6 DEF JobFind, JobAborts, JobSave, rows
<1>7. CASE UNCHANGED vars
  BY <1>7, <1>2 DEF vars, rows
<1>8. ASSUME NEW r \in Request, Transaction(r)
      PROVE  RequestsFounded'
  <2>1. PICK t \in Task : req' = [req EXCEPT ![r] = t] /\ SameRead(t, req[r])
    BY <1>8, TransactionStep
  <2>2. UNCHANGED <<account, auths>>
    BY <1>8, TransactionStep DEF rows
  <2>3. Founded(t)'
    BY <2>1, <2>2, RequestsFoundedEach DEF Founded, SameRead
  <2>4. NoneClosed
    BY <2>2 DEF NoneClosed
  <2> QED
    BY <2>1, <2>2, <2>3, <2>4, FoundedStart
<1> QED
  BY <1>1, <1>2, <1>3, <1>4, <1>5, <1>6, <1>7, <1>8, BeginAnyFounded, CommitAnyFounded
  DEF Next, Job

-----------------------------------------------------------------------------
(* Two transactions of a user that set a session                            *)

\* A transaction holds the row it gives the token, and once its second UPDATE
\* has started it holds or will update every row with a token.
HoldsWell(t) ==
  /\ t.stmt = 0 => t.held = {}
  /\ t.stmt # 2 => t.left = {}
  /\ t.stmt # 0 => t.via \in t.held /\ t.op \in SessionOp
  /\ t.stmt = 2 => session[t.user] \subseteq t.held \cup t.left

\* No row is locked twice, and of two second UPDATEs one comes to the row that
\* the other has given its token.
Apart(t, x) ==
  /\ t.held \cap x.held = {}
  /\ t.stmt = 2 /\ x.stmt = 2 => t.via \in x.held \cup x.left \/ x.via \in t.held \cup t.left

Locks ==
  /\ \A r \in Request : req[r] \in Task => HoldsWell(req[r])
  /\ \A r, s \in Request :
       r # s /\ req[r] \in Task /\ req[s] \in Task /\ req[r].user = req[s].user
         => Apart(req[r], req[s])

\* Its COMMIT leaves one token.
LEMMA SetsOne ==
  ASSUME Typing, Locks, NEW r \in Request, NEW u \in User, For(r, u), SetSession(r)
  PROVE  session'[u] = {req[r].via}
<1>1. req[r].stmt = 2 /\ req[r].left = {} /\ HoldsWell(req[r])
  BY DEF SetSession, Locks, For
<1>2. session[u] \subseteq req[r].held
  BY <1>1 DEF HoldsWell, For
<1>3. session' = [session EXCEPT ![u] = (session[u] \ req[r].held) \cup {req[r].via}]
  BY DEF SetSession, For
<1> QED
  BY <1>2, <1>3 DEF Typing

\* What a step does to the locks of a request.
LockStep(r) ==
  \/ /\ req[r] \in Task /\ SameLocks(req'[r], req[r])
     /\ req'[r].op = req[r].op /\ req'[r].user = req[r].user /\ req'[r].via = req[r].via
  \/ req'[r].stmt = 0 /\ req'[r].held = {} /\ req'[r].left = {}
  \/ Moved(r)

LEMMA LockSteps ==
  ASSUME Typing, [Next]_vars, NEW r \in Request, req'[r] \in Task
  PROVE  LockStep(r)
<1>1. CASE req'[r] = req[r]
  BY <1>1 DEF LockStep, SameLocks
<1>2. CASE req[r] \in Task /\ req'[r] = Marked(req[r])
  BY <1>2, MarkedTask DEF LockStep
<1>3. ASSUME NEW u \in User, BeginAny(r, u) PROVE LockStep(r)
  BY <1>3, BeginAnyStarts DEF Started, Reads, LockStep
<1>4. CASE req'[r] = TaskFor("signIn", req[r].user, req[r].via)
  BY <1>4 DEF TaskFor, LockStep
<1>5. CASE Moved(r)
  BY <1>5 DEF LockStep
<1> QED
  BY <1>1, <1>2, <1>3, <1>4, <1>5, TaskIsNotIdle, RequestSteps DEF RequestStep

\* A statement keeps them, whatever else the user has in flight.
LEMMA MovedHolds ==
  ASSUME Typing, RequestsFounded, SessionsHaveRows, Locks,
         NEW r \in Request, Moved(r), UNCHANGED session
  PROVE  HoldsWell(req[r])'
<1> DEFINE x == req[r]
           t == req'[r]
<1>1. /\ x \in Task /\ HoldsWell(x) /\ x.op \in SessionOp
      /\ t.op = x.op /\ t.user = x.user /\ t.via = x.via
  BY TransactionStep DEF Moved, SameRead, Locks
<1>2. session[x.user] \subseteq auths[x.user] /\ x.stmt \in 0..2
  BY <1>1, TaskParts DEF SessionsHaveRows
<1>3. Statement(r, t)
  BY DEF Moved
<1>4. session'[t.user] = session[x.user]
  BY <1>1
<1> HIDE DEF x, t
<1>5. CASE x.stmt = 0 /\ t.stmt = 1 /\ t.held = {x.via} /\ t.left = x.left
  BY <1>1, <1>5 DEF HoldsWell, t
<1>6. CASE x.stmt = 1 /\ t.stmt = 2 /\ t.held = x.held /\ t.left = auths[x.user] \ {x.via}
  BY <1>1, <1>2, <1>4, <1>6 DEF HoldsWell, t
<1>7. ASSUME NEW p \in x.left,
             t.stmt = x.stmt /\ t.held = x.held \cup {p} /\ t.left = x.left \ {p}
      PROVE  HoldsWell(req[r])'
  <2>1. x.stmt = 2
    BY <1>1, <1>7 DEF HoldsWell
  <2> QED
    BY <1>1, <1>4, <1>7, <2>1 DEF HoldsWell, t
<1> QED
  BY <1>3, <1>5, <1>6, <1>7 DEF Statement, x

LEMMA MovedApart ==
  ASSUME Typing, RequestsFounded, Locks, NEW r \in Request, NEW s \in Request, r # s,
         Moved(r), req[s] \in Task, req[s].user = req[r].user
  PROVE  Apart(req'[r], req[s])
<1> DEFINE x == req[r]
           t == req'[r]
           y == req[s]
<1>1. /\ x \in Task /\ HoldsWell(x) /\ HoldsWell(y) /\ Apart(x, y)
      /\ t.user = x.user /\ t.via = x.via
  BY DEF Moved, SameRead, Locks
<1>2. y.stmt = 2 => y.via \in auths[x.user]
  BY <1>1, RequestsFoundedEach DEF Founded, HoldsWell, SessionOp
<1>3. Statement(r, t)
  BY DEF Moved
<1>4. ASSUME NEW p, Free(x.user, p) PROVE p \notin y.held
  BY <1>4, TaskIsNotIdle DEF Free
<1> HIDE DEF x, t, y
<1>5. CASE Free(x.user, x.via) /\ t.stmt = 1 /\ t.held = {x.via}
  BY <1>1, <1>4, <1>5 DEF Apart, t, y
<1>6. CASE x.stmt = 1 /\ t.stmt = 2 /\ t.held = x.held /\ t.left = auths[x.user] \ {x.via}
  BY <1>1, <1>2, <1>6 DEF Apart, HoldsWell, t, y
<1>7. ASSUME NEW p \in x.left, Free(x.user, p),
             t.stmt = x.stmt /\ t.held = x.held \cup {p} /\ t.left = x.left \ {p}
      PROVE  Apart(req'[r], req[s])
  <2>1. p \notin y.held
    BY <1>4, <1>7
  <2>2. t.held \cap y.held = {}
    BY <1>1, <1>7, <2>1 DEF Apart
  <2>3. t.held \cup t.left = x.held \cup x.left
    BY <1>7
  <2> QED
    BY <1>1, <1>7, <2>2, <2>3 DEF Apart, t, y
<1> QED
  BY <1>3, <1>5, <1>6, <1>7 DEF Statement, x

LEMMA ApartSymmetric ==
  ASSUME NEW t, NEW x, Apart(t, x)
  PROVE  Apart(x, t)
BY DEF Apart

LEMMA LocksKept ==
  ASSUME Typing, RequestsFounded, SessionsHaveRows, Locks, [Next]_vars
  PROVE  Locks'
<1>m. ASSUME NEW r \in Request, Moved(r)
      PROVE  /\ UNCHANGED session
             /\ \A s \in Request \ {r} : req'[s] = req[s]
  BY <1>m, TransactionStep DEF Moved, rows, Typing
<1>1. ASSUME NEW r \in Request, req'[r] \in Task
      PROVE  HoldsWell(req[r])'
  <2>1. CASE Moved(r)
    BY <1>m, <2>1, MovedHolds
  <2>2. CASE req'[r].stmt = 0 /\ req'[r].held = {} /\ req'[r].left = {}
    BY <2>2 DEF HoldsWell
  <2>3. CASE /\ req[r] \in Task /\ SameLocks(req'[r], req[r])
             /\ req'[r].op = req[r].op /\ req'[r].user = req[r].user /\ req'[r].via = req[r].via
    <3> DEFINE u == req[r].user
    <3>1. u \in User /\ HoldsWell(req[r])
      BY <2>3, TaskParts DEF Locks
    <3>2. req[r].stmt = 2 => session'[u] \subseteq req[r].held \cup req[r].left
      <4>1. CASE session'[u] \subseteq session[u]
        BY <3>1, <4>1 DEF HoldsWell
      <4>2. ASSUME NEW s \in Request, Signs(s, u), req[r].stmt = 2
            PROVE  session'[u] \subseteq req[r].held \cup req[r].left
        <5>1. session'[u] = {req[s].via}
          BY <3>1, <4>2, SetsOne DEF Signs
        <5>2. s # r /\ req[s] \in Task /\ req[s].user = req[r].user
          BY <1>1, <4>2, TaskIsNotIdle DEF Signs, For
        <5>3. /\ req[s].stmt = 2 /\ req[s].left = {} /\ Apart(req[s], req[r])
          BY <2>3, <4>2, <5>2 DEF Signs, SetSession, Locks
        <5>4. req[r].via \in req[r].held
          BY <3>1, <4>2 DEF HoldsWell
        <5>5. req[s].via \in req[r].held \cup req[r].left
          BY <4>2, <5>3, <5>4 DEF Apart
        <5> QED
          BY <5>1, <5>5
      <4> QED
        BY <3>1, <4>1, <4>2, SessionSteps
    <3> QED
      BY <2>3, <3>1, <3>2 DEF HoldsWell, SameLocks
  <2> QED
    BY <1>1, <2>1, <2>2, <2>3, LockSteps DEF LockStep
<1>2. ASSUME NEW r \in Request, NEW s \in Request, r # s,
             req'[r] \in Task, req'[s] \in Task, req'[r].user = req'[s].user
      PROVE  Apart(req'[r], req'[s])
  <2>1. ASSUME NEW a \in Request, NEW b \in Request, a # b, req'[b] \in Task,
               req'[a].user = req'[b].user, Moved(a)
        PROVE  Apart(req'[a], req'[b])
    <3>1. req'[b] = req[b] /\ req'[a].user = req[a].user
      BY <1>m, <2>1 DEF Moved, SameRead
    <3> QED
      BY <2>1, <3>1, MovedApart
  <2>2. CASE Moved(r)
    BY <1>2, <2>1, <2>2
  <2>3. CASE Moved(s)
    BY <1>2, <2>1, <2>3, ApartSymmetric
  <2>4. CASE \/ req'[r].stmt = 0 /\ req'[r].held = {}
             \/ req'[s].stmt = 0 /\ req'[s].held = {}
    BY <2>4 DEF Apart
  <2>5. CASE /\ req[r] \in Task /\ SameLocks(req'[r], req[r])
             /\ req'[r].user = req[r].user /\ req'[r].via = req[r].via
             /\ req[s] \in Task /\ SameLocks(req'[s], req[s])
             /\ req'[s].user = req[s].user /\ req'[s].via = req[s].via
    <3>1. Apart(req[r], req[s])
      BY <1>2, <2>5 DEF Locks
    <3> QED
      BY <2>5, <3>1 DEF Apart, SameLocks
  <2> QED
    BY <1>2, <2>2, <2>3, <2>4, <2>5, LockSteps DEF LockStep
<1> QED
  BY <1>1, <1>2 DEF Locks, HoldsWell, Apart

-----------------------------------------------------------------------------
(* Sessions                                                                 *)

Sessions == SessionsHaveRows /\ SingleSession /\ DeletedStaysOut

\* A step that gives no session, ends some, and deletes no account that has one.
SessionsKept ==
  /\ \A u \in User : auths[u] \subseteq auths'[u]
  /\ \A u \in User : session'[u] \subseteq session[u]
  /\ \A u \in User : account'[u].deleted # "no" /\ session'[u] # {}
                       => account[u].deleted # "no" /\ late'[u] = late[u]

LEMMA KeptSessions ==
  ASSUME Sessions, SessionsKept
  PROVE  Sessions'
<1>1. SessionsHaveRows'
  BY DEF Sessions, SessionsKept, SessionsHaveRows
<1>2. SingleSession'
  BY DEF Sessions, SessionsKept, SingleSession
<1>3. DeletedStaysOut'
  BY DEF Sessions, SessionsKept, DeletedStaysOut
<1> QED
  BY <1>1, <1>2, <1>3 DEF Sessions

\* A new session: the request found its row, and the account is open or was
\* deleted under it.
LEMMA SetSessions ==
  ASSUME Typing, Locks, Sessions, NEW r \in Request, req[r] \in Task, SetSession(r),
         req[r].via \in auths[req[r].user], UNCHANGED auths,
         \A x \in User \ {req[r].user} : account'[x].deleted = account[x].deleted,
         ~req[r].stale => account'[req[r].user].deleted = "no"
  PROVE  Sessions'
<1> DEFINE u == req[r].user
<1>1. u \in User /\ req[r].stale \in BOOLEAN
  BY TaskParts
<1>2. session'[u] = {req[r].via} /\ late'[u] = req[r].stale
  <2>1. session'[u] = {req[r].via}
    BY <1>1, SetsOne DEF For
  <2> QED
    BY <1>1, <2>1 DEF SetSession, Typing
<1>3. \A x \in User \ {u} : session'[x] = session[x] /\ late'[x] = late[x]
  BY DEF SetSession, Typing
<1> HIDE DEF u
<1>4. SessionsHaveRows'
  BY <1>2, <1>3 DEF Sessions, SessionsHaveRows, u
<1>5. SingleSession'
  BY <1>2, <1>3 DEF Sessions, SingleSession
<1>6. DeletedStaysOut'
  <2> SUFFICES ASSUME NEW x \in User, account'[x].deleted # "no", session'[x] # {}
               PROVE  late'[x]
    BY DEF DeletedStaysOut
  <2>1. CASE x = u
    BY <1>2, <2>1 DEF u
  <2>2. CASE x # u
    BY <1>3, <2>2 DEF Sessions, DeletedStaysOut, u
  <2> QED
    BY <2>1, <2>2
<1> QED
  BY <1>4, <1>5, <1>6 DEF Sessions

LEMMA ClearedSessions ==
  ASSUME Typing, Sessions, NEW us \in SUBSET User, ClearSessions(us),
         UNCHANGED auths,
         \A x \in User \ us : account'[x].deleted = account[x].deleted
  PROVE  Sessions'
<1>1. \A x \in User : session'[x] = IF x \in us THEN {} ELSE session[x]
  BY DEF ClearSessions
<1>2. \A x \in User \ us : late'[x] = late[x]
  <2>1. \A x \in User : late[x] \in BOOLEAN
    BY DEF Typing
  <2> QED
    BY <2>1, Zenon DEF ClearSessions
<1>3. SessionsKept
  BY <1>1, <1>2 DEF SessionsKept
<1> QED
  BY <1>3, KeptSessions

LEMMA CommitAnySessions ==
  ASSUME Typing, RequestsFounded, Locks, Sessions, NEW r \in Request, CommitAny(r)
  PROVE  Sessions'
<1> DEFINE u == req[r].user
<1>t. ASSUME NEW op \in Op, Is(r, op)
      PROVE  req[r] \in Task /\ u \in User
  BY <1>t, RequestIsTask, TaskParts DEF Is
<1>f. Founded(req[r])
  BY RequestsFoundedEach
<1>1. CASE CommitSignUp(r)
  <2>1. SessionsKept
    BY <1>1 DEF CommitSignUp, SessionsKept, Typing
  <2> QED
    BY <2>1, KeptSessions
<1>2. CASE CommitVerify(r)
  <2>1. req[r] \in Task
    BY <1>2, <1>t DEF CommitVerify, Op
  <2>2. req[r].via \in auths[u] /\ (~req[r].stale => account[u].deleted = "no")
    BY <1>2, <1>f DEF CommitVerify, Is, Founded
  <2> QED
    BY <1>2, <2>1, <2>2, SetSessions DEF CommitVerify
<1>3. CASE CommitSignIn(r)
  <2>1. req[r] \in Task
    BY <1>3, <1>t DEF CommitSignIn, Op
  <2>2. req[r].via \in auths[u] /\ (~req[r].stale => account[u].deleted = "no")
    BY <1>3, <1>f DEF CommitSignIn, Is, Founded
  <2> QED
    BY <1>3, <2>1, <2>2, SetSessions DEF CommitSignIn
<1>4. CASE CommitIdp(r)
  <2>1. u \in User
    BY <1>4, <1>t DEF CommitIdp, Op
  <2>2. \A x \in User : account'[x].deleted = account[x].deleted
    BY <1>4, <2>1, ColumnWrites DEF CommitIdp, IdpSaved
  <2>3. \A x \in User : auths[x] \subseteq auths'[x]
    BY <1>4 DEF CommitIdp, IdpSaved, Typing
  <2>4. UNCHANGED <<session, late>>
    BY <1>4 DEF CommitIdp, IdpSaved, ghosts
  <2>5. SessionsKept
    BY <2>2, <2>3, <2>4 DEF SessionsKept
  <2> QED
    BY <2>5, KeptSessions
<1>5. CASE IdpNotFound(r)
  <2>1. SessionsKept
    BY <1>5 DEF IdpNotFound, Abort, SessionsKept, rows, ghosts
  <2> QED
    BY <2>1, KeptSessions
<1>6. CASE CommitReset(r)
  <2>1. SessionsKept
    BY <1>6 DEF CommitReset, SessionsKept
  <2> QED
    BY <2>1, KeptSessions
<1>7. CASE CommitDeactivate(r)
  <2>1. u \in User
    BY <1>7, <1>t DEF CommitDeactivate, Op
  <2>2. \A x \in User : account'[x].deleted = account[x].deleted
    BY <1>7, <2>1, ColumnWrites DEF CommitDeactivate
  <2> QED
    BY <1>7, <2>1, <2>2, ClearedSessions DEF CommitDeactivate
<1>8. CASE CommitDelete(r)
  <2>1. u \in User
    BY <1>8, <1>t DEF CommitDelete, Op
  <2>2. \A x \in User \ {u} : account'[x].deleted = account[x].deleted
    BY <1>8, <2>1, ColumnWrites DEF CommitDelete
  <2> QED
    BY <1>8, <2>1, <2>2, ClearedSessions DEF CommitDelete
<1>9. CASE CommitReactivate(r)
  <2>1. req[r] \in Task /\ u \in User
    BY <1>9, <1>t DEF CommitReactivate, Op
  <2>2. \A x \in User : account'[x].deleted = account[x].deleted
    BY <1>9, <2>1, ColumnWrites DEF CommitReactivate
  <2>3. req[r].via \in auths[u] /\ (~req[r].stale => account[u].deleted = "no")
    BY <1>9, <1>f DEF CommitReactivate, Is, Founded
  <2> QED
    BY <1>9, <2>1, <2>2, <2>3, SetSessions DEF CommitReactivate
<1>10. CASE CommitRestore(r)
  <2>1. req[r] \in Task /\ u \in User
    BY <1>10, <1>t DEF CommitRestore, Op
  <2>2. /\ account'[u].deleted = "no"
        /\ \A x \in User \ {u} : account'[x].deleted = account[x].deleted
    BY <1>10, <2>1, ColumnWrites DEF CommitRestore
  <2>3. req[r].via \in auths[u]
    BY <1>10, <1>f DEF CommitRestore, Is, Founded
  <2> QED
    BY <1>10, <2>1, <2>2, <2>3, SetSessions DEF CommitRestore
<1> QED
  BY <1>1, <1>2, <1>3, <1>4, <1>5, <1>6, <1>7, <1>8, <1>9, <1>10 DEF CommitAny

LEMMA NextSessions ==
  ASSUME Typing, RequestsFounded, Locks, Sessions, [Next]_vars
  PROVE  Sessions'
<1>1. ASSUME UNCHANGED <<rows, late>>
      PROVE  Sessions'
  <2>1. SessionsKept
    BY <1>1 DEF SessionsKept, rows
  <2> QED
    BY <2>1, KeptSessions
<1>2. ASSUME NEW r \in Request,
             Abort(r) \/ \E u \in User : BeginAny(r, u)
      PROVE  UNCHANGED <<rows, late>>
  BY <1>2 DEF Abort, BeginAny, Begin, BeginSignUp, BeginVerify, BeginSignIn, BeginIdp,
              BeginReset, BeginDeactivate, BeginDelete, BeginReactivate, BeginRestore,
              ghosts
<1>3. ASSUME NEW u \in User, RefuseSignIn(u) \/ RequestReset(u)
      PROVE  UNCHANGED <<rows, late>>
  BY <1>3 DEF RefuseSignIn, RequestReset, ghosts
<1>4. ASSUME NEW u \in User, Mailing(u)
      PROVE  Sessions'
  <2>1. UNCHANGED <<account, auths, session, late>>
    BY <1>4 DEF Mailing, MailLink, MailReset, ReadForMail, SendMail, CommitMail,
                MailFails, rows, ghosts
  <2>2. SessionsKept
    BY <2>1 DEF SessionsKept
  <2> QED
    BY <2>2, KeptSessions
<1>5. ASSUME NEW u \in User, NEW p \in Provider, SignOut(u, p)
      PROVE  Sessions'
  <2>1. SessionsKept
    BY <1>5 DEF SignOut, SessionsKept, Typing, ghosts
  <2> QED
    BY <2>1, KeptSessions
<1>6. ASSUME NEW u \in User, Age(u)
      PROVE  Sessions'
  <2>1. \A x \in User : account'[x].deleted # "no" => account[x].deleted # "no"
    BY <1>6, ColumnWrites DEF Age
  <2>2. SessionsKept
    BY <1>6, <2>1 DEF Age, SessionsKept, ghosts
  <2> QED
    BY <2>2, KeptSessions
<1>7. ASSUME NEW j \in Cron, JobFind(j) \/ JobAborts(j) \/ \E u \in User : JobSave(j, u)
      PROVE  UNCHANGED <<rows, late>>
  BY <1>7 DEF JobFind, JobAborts, JobSave, ghosts
<1>8. ASSUME NEW j \in Cron, JobCommit(j)
      PROVE  Sessions'
  <2>1. batch[j] \in SUBSET User
    BY DEF Typing
  <2>2. \A x \in User \ batch[j] : account'[x].deleted = account[x].deleted
    BY <1>8 DEF JobCommit
  <2> QED
    BY <1>8, <2>1, <2>2, ClearedSessions DEF JobCommit
<1>9. CASE UNCHANGED vars
  BY <1>1, <1>9 DEF vars, ghosts
<1>10. ASSUME NEW r \in Request, Transaction(r)
       PROVE  UNCHANGED <<rows, late>>
  BY <1>10, TransactionStep DEF ghosts
<1> QED
  BY <1>10, <1>1, <1>2, <1>3, <1>4, <1>5, <1>6, <1>7, <1>8, <1>9, CommitAnySessions DEF Next, Job

-----------------------------------------------------------------------------
(* Who gets into a deactivated account                                      *)

\* A step gives a session to a deactivated user, or deactivates one who has one.
LetIn(u) == /\ account'[u].deactivated /\ session'[u] # {}
            /\ ~(account[u].deactivated /\ session'[u] \subseteq session[u])

\* A request that may do so ends.
Excused(u) == \E r \in Request : /\ req[r] # Idle /\ req[r].user = u
                                 /\ req[r].stale \/ req[r].op \in {"verify", "restore"}
                                 /\ req'[r] = Idle

LEMMA NobodyLetIn ==
  ASSUME NoneClosed, \A u \in User : session'[u] \subseteq session[u]
  PROVE  \A u \in User : ~LetIn(u)
BY DEF NoneClosed, LetIn

LEMMA ClearedLetsNobodyIn ==
  ASSUME NEW us \in SUBSET User, ClearSessions(us),
         \A u \in User \ us : account'[u].deactivated = account[u].deactivated
  PROVE  \A u \in User : ~LetIn(u)
BY DEF ClearSessions, LetIn

\* A request that sets a session.
LEMMA SetLetsIn ==
  ASSUME Typing, NEW r \in Request, req[r] \in Task, SetSession(r), End(r),
         NoneClosed,
         \/ req[r].stale \/ req[r].op \in {"verify", "restore"}
         \/ ~account'[req[r].user].deactivated
  PROVE  \A u \in User : LetIn(u) => Excused(u)
<1> SUFFICES ASSUME NEW u \in User, LetIn(u) PROVE Excused(u)
  OBVIOUS
<1>1. CASE u # req[r].user
  <2>1. session'[u] = session[u]
    BY <1>1 DEF SetSession, Typing
  <2> QED
    BY <2>1 DEF LetIn, NoneClosed
<1>2. CASE u = req[r].user
  <2>1. req'[r] = Idle
    BY DEF End, Typing
  <2>2. req[r] # Idle
    BY TaskIsNotIdle
  <2> QED
    BY <1>2, <2>1, <2>2 DEF LetIn, Excused
<1> QED
  BY <1>1, <1>2

LEMMA CommitAnyLetsIn ==
  ASSUME Typing, RequestsFounded, NEW r \in Request, CommitAny(r)
  PROVE  \A u \in User : LetIn(u) => Excused(u)
<1> DEFINE v == req[r].user
<1>t. ASSUME NEW op \in Op, Is(r, op)
      PROVE  req[r] \in Task /\ v \in User
  BY <1>t, RequestIsTask, TaskParts DEF Is
<1>n. UNCHANGED account => NoneClosed
  BY DEF NoneClosed
<1>1. CASE CommitSignUp(r) \/ CommitReset(r) \/ IdpNotFound(r)
  <2>1. UNCHANGED <<account, session>>
    BY <1>1 DEF CommitSignUp, CommitReset, IdpNotFound, Abort, rows
  <2> QED
    BY <2>1, <1>n, NobodyLetIn
<1>2. CASE CommitVerify(r)
  <2>1. req[r] \in Task
    BY <1>2, <1>t DEF CommitVerify, Op
  <2> QED
    BY <1>2, <1>n, <2>1, SetLetsIn DEF CommitVerify, Is
<1>3. CASE CommitSignIn(r)
  <2>1. req[r] \in Task
    BY <1>3, <1>t DEF CommitSignIn, Op
  <2>2. req[r].stale \/ ~account[v].deactivated
    BY <1>3, RequestsFoundedEach DEF CommitSignIn, Is, Founded
  <2> QED
    BY <1>3, <1>n, <2>1, <2>2, SetLetsIn DEF CommitSignIn
<1>4. CASE CommitIdp(r)
  <2>1. v \in User
    BY <1>4, <1>t DEF CommitIdp, Op
  <2>2. NoneClosed
    BY <1>4, <2>1, ColumnWrites DEF CommitIdp, IdpSaved, NoneClosed
  <2>3. UNCHANGED session
    BY <1>4 DEF CommitIdp, IdpSaved
  <2> QED
    BY <2>2, <2>3, NobodyLetIn
<1>5. CASE CommitDeactivate(r)
  <2>1. v \in User
    BY <1>5, <1>t DEF CommitDeactivate, Op
  <2>2. \A x \in User \ {v} : account'[x].deactivated = account[x].deactivated
    BY <1>5, <2>1, ColumnWrites DEF CommitDeactivate
  <2>3. \A u \in User : ~LetIn(u)
    BY <1>5, <2>1, <2>2, ClearedLetsNobodyIn DEF CommitDeactivate
  <2> QED
    BY <2>3
<1>6. CASE CommitDelete(r)
  <2>1. v \in User
    BY <1>6, <1>t DEF CommitDelete, Op
  <2>2. \A x \in User : account'[x].deactivated = account[x].deactivated
    BY <1>6, <2>1, ColumnWrites DEF CommitDelete
  <2>3. \A u \in User : ~LetIn(u)
    BY <1>6, <2>1, <2>2, ClearedLetsNobodyIn DEF CommitDelete
  <2> QED
    BY <2>3
<1>7. CASE CommitReactivate(r)
  <2>1. req[r] \in Task /\ v \in User
    BY <1>7, <1>t DEF CommitReactivate, Op
  <2>2. NoneClosed /\ ~account'[v].deactivated
    BY <1>7, <2>1, ColumnWrites DEF CommitReactivate, NoneClosed
  <2> QED
    BY <1>7, <2>1, <2>2, SetLetsIn DEF CommitReactivate
<1>8. CASE CommitRestore(r)
  <2>1. req[r] \in Task /\ v \in User
    BY <1>8, <1>t DEF CommitRestore, Op
  <2>2. NoneClosed
    BY <1>8, <2>1, ColumnWrites DEF CommitRestore, NoneClosed
  <2> QED
    BY <1>8, <2>1, <2>2, SetLetsIn DEF CommitRestore, Is
<1> QED
  BY <1>1, <1>2, <1>3, <1>4, <1>5, <1>6, <1>7, <1>8 DEF CommitAny

LEMMA NextLetsIn ==
  ASSUME Typing, RequestsFounded, [Next]_vars
  PROVE  \A u \in User : LetIn(u) => Excused(u)
<1>1. ASSUME UNCHANGED <<account, session>>
      PROVE  \A u \in User : ~LetIn(u)
  BY <1>1 DEF LetIn
<1>2. ASSUME NEW r \in Request, Abort(r) \/ \E u \in User : BeginAny(r, u)
      PROVE  UNCHANGED <<account, session>>
  BY <1>2 DEF Abort, BeginAny, Begin, BeginSignUp, BeginVerify, BeginSignIn, BeginIdp,
              BeginReset, BeginDeactivate, BeginDelete, BeginReactivate, BeginRestore,
              rows
<1>3. ASSUME NEW u \in User, RefuseSignIn(u) \/ RequestReset(u) \/ Mailing(u)
      PROVE  UNCHANGED <<account, session>>
  BY <1>3 DEF RefuseSignIn, RequestReset, Mailing, MailLink, MailReset, ReadForMail,
              SendMail, CommitMail, MailFails, rows
<1>4. ASSUME NEW u \in User, NEW p \in Provider, SignOut(u, p)
      PROVE  \A x \in User : ~LetIn(x)
  <2>1. NoneClosed
    BY <1>4 DEF SignOut, NoneClosed
  <2>2. \A x \in User : session'[x] \subseteq session[x]
    BY <1>4 DEF SignOut, Typing
  <2> QED
    BY <2>1, <2>2, NobodyLetIn
<1>5. ASSUME NEW u \in User, Age(u)
      PROVE  \A x \in User : ~LetIn(x)
  <2>1. \A x \in User : account'[x].deactivated = account[x].deactivated
    BY <1>5, ColumnWrites DEF Age
  <2> QED
    BY <1>5, <2>1 DEF Age, LetIn
<1>6. ASSUME NEW j \in Cron, JobFind(j) \/ JobAborts(j) \/ \E u \in User : JobSave(j, u)
      PROVE  UNCHANGED <<account, session>>
  BY <1>6 DEF JobFind, JobAborts, JobSave, rows
<1>7. ASSUME NEW j \in Cron, JobCommit(j)
      PROVE  \A x \in User : ~LetIn(x)
  <2>1. batch[j] \in SUBSET User
    BY DEF Typing
  <2>2. \A x \in User \ batch[j] : account'[x].deactivated = account[x].deactivated
    BY <1>7 DEF JobCommit
  <2> QED
    BY <1>7, <2>1, <2>2, ClearedLetsNobodyIn DEF JobCommit
<1>8. CASE UNCHANGED vars
  BY <1>1, <1>8 DEF vars, rows
<1>9. ASSUME NEW r \in Request, Transaction(r)
      PROVE  UNCHANGED <<account, session>>
  BY <1>9, TransactionStep DEF rows
<1> QED
  BY <1>9, <1>1, <1>2, <1>3, <1>4, <1>5, <1>6, <1>7, <1>8, CommitAnyLetsIn DEF Next, Job

-----------------------------------------------------------------------------
(* The theorems                                                             *)

Invariant == Typing /\ RequestsFounded /\ Locks /\ Sessions

LEMMA InvariantHolds == Spec => []Invariant
<1>1. Init => RequestsFounded /\ Locks /\ Sessions
  <2> SUFFICES ASSUME Init PROVE RequestsFounded /\ Locks /\ Sessions
    OBVIOUS
  <2>1. \A r \in Request : req[r] = Idle
    BY DEF Init
  <2>2. RequestsFounded
    BY <2>1, IdleIsFounded, RequestsFoundedEach
  <2>3. Locks
    BY <2>1, TaskIsNotIdle DEF Locks
  <2>4. Sessions
    BY DEF Init, Sessions, SessionsHaveRows, SingleSession, DeletedStaysOut
  <2> QED
    BY <2>2, <2>3, <2>4
<1>2. Invariant /\ [Next]_vars => Invariant'
  BY NextTyping, NextFounded, LocksKept, NextSessions DEF Invariant, Sessions
<1> QED
  BY <1>1, <1>2, InitTyping, PTL DEF Spec, Invariant

\* Every variable keeps its type, and a refresh token is only ever put in a
\* row of authentications that exists.
THEOREM AccountsTypeCorrect == Spec => []TypeOK
<1>1. Invariant => TypeOK
  BY DEF Invariant, TypeOK, Sessions
<1> QED
  BY <1>1, InvariantHolds, PTL

\* However sign-ins, confirmations, sign-outs, closings and the nightly job
\* interleave, one authentication of a user at most holds a refresh token.  A
\* transaction writes its token with one UPDATE and null on the others with a
\* second one, and two providers take the rows in opposite orders; but a row
\* that got a token is locked until COMMIT, and of two second UPDATEs one has to
\* wait for it.
THEOREM OneSession == Spec => []SingleSession
<1>1. Invariant => SingleSession
  BY DEF Invariant, Sessions
<1> QED
  BY <1>1, InvariantHolds, PTL

\* A deleted account has no session, unless the request that made it had read
\* the account before it was deleted.
THEOREM DeletedStayOut == Spec => []DeletedStaysOut
<1>1. Invariant => DeletedStaysOut
  BY DEF Invariant, Sessions
<1> QED
  BY <1>1, InvariantHolds, PTL

\* A deactivated account gets no session but from a request that had read it
\* before, a verification or a restoration; and who is deactivated, by himself
\* or by the nightly job that writes a stale row back, loses his.
THEOREM DeactivatedStayOut == Spec => DeactivatedStaysOut
<1>1. ASSUME Invariant, [Next]_vars
      PROVE  [\A u \in User : account'[u].deactivated /\ session'[u] # {} =>
                \/ account[u].deactivated /\ session'[u] \subseteq session[u]
                \/ Excused(u)]_vars
  BY <1>1, NextLetsIn DEF LetIn, Invariant
<1>2. Invariant /\ [Next]_vars
        => [\A u \in User : account'[u].deactivated /\ session'[u] # {} =>
              \/ account[u].deactivated /\ session'[u] \subseteq session[u]
              \/ \E r \in Request : /\ req[r] # Idle /\ req[r].user = u
                                    /\ req[r].stale \/ req[r].op \in {"verify", "restore"}
                                    /\ req'[r] = Idle]_vars
  BY <1>1 DEF Excused
<1> QED
  BY <1>2, InvariantHolds, PTL DEF Spec, DeactivatedStaysOut

\* What a request relies on between its read and its write stays true.
THEOREM WhatWasReadHolds == Spec => []RequestsFounded
<1>1. Invariant => RequestsFounded
  BY DEF Invariant
<1> QED
  BY <1>1, InvariantHolds, PTL

-----------------------------------------------------------------------------
(* Links and verification mails                                             *)

Created(u) == <<u, "created">> \in outbox

\* What may happen to the messages of sign-ups.
LEMMA CreatedSteps ==
  ASSUME Typing, [Next]_vars, NEW u \in User, Created(u)'
  PROVE  Created(u) \/ \E r \in Request : CommitSignUp(r) /\ For(r, u)
<1>1. ASSUME NEW r \in Request, CommitSignUp(r)
      PROVE  Created(u) \/ For(r, u)
  <2>1. req[r] \in Task
    BY <1>1, RequestIsTask DEF CommitSignUp, Is, Op
  <2>2. outbox' = outbox \cup {<<req[r].user, "created">>}
    BY <1>1 DEF CommitSignUp
  <2> QED
    BY <2>1, <2>2 DEF Created, For
<1>2. ASSUME NEW r \in Request, CommitIdp(r)
      PROVE  Created(u)
  BY <1>2 DEF CommitIdp, Created
<1>3. ASSUME NEW x \in User, RefuseSignIn(x) \/ RequestReset(x)
      PROVE  Created(u)
  BY <1>3 DEF RefuseSignIn, RequestReset, Created
<1>4. ASSUME NEW x \in User, MailReset(x) \/ CommitMail(x) \/ \E k \in Kind : MailLink(x, k)
      PROVE  Created(u)
  BY <1>4 DEF MailReset, CommitMail, MailLink, Handled, Created
<1>5. CASE UNCHANGED outbox
  BY <1>5 DEF Created
<1> QED
  BY <1>1, <1>2, <1>3, <1>4, <1>5, Writers DEF WrittenByWriters, OutboxWriters

LEMMA SenderSteps ==
  ASSUME Typing, [Next]_vars, NEW u \in User
  PROVE  \/ sender'[u] = sender[u]
         \/ ReadForMail(u) \/ SendMail(u) \/ CommitMail(u) \/ MailFails(u) \/ Age(u)
<1>1. ASSUME NEW x \in User,
             ReadForMail(x) \/ SendMail(x) \/ CommitMail(x) \/ MailFails(x) \/ Age(x)
      PROVE  x = u \/ sender'[u] = sender[u]
  <2>1. \E s : sender' = [sender EXCEPT ![x] = s]
    BY <1>1 DEF ReadForMail, SendMail, CommitMail, MailFails, Age
  <2> QED
    BY <2>1 DEF Typing
<1> QED
  BY <1>1, Writers DEF WrittenByWriters, SenderWriters

\* What the transaction of the verification mail does to its row of the model.
LEMMA MailParts ==
  ASSUME Typing, NEW u \in User
  PROVE  /\ ReadForMail(u) => /\ sender'[u].stage = "read" /\ sender'[u].meta = meta[u]
                              /\ sender[u].stage = "idle" /\ Created(u)
         /\ SendMail(u) => /\ sender'[u].stage = "mailed" /\ sender'[u].meta = sender[u].meta
                           /\ sender'[u].again = (u \in links) /\ u \in links'
                           /\ sender[u].stage = "read" /\ Free(u, "local")
         /\ CommitMail(u) \/ MailFails(u) \/ Age(u) => sender'[u].stage = "idle"
<1>s. sender[u] \in Mail /\ meta[u] \in Meta
  BY DEF Typing
<1>1. ASSUME ReadForMail(u)
      PROVE  /\ sender'[u].stage = "read" /\ sender'[u].meta = meta[u]
             /\ sender[u].stage = "idle" /\ Created(u)
  <2>1. sender'[u] = [sender[u] EXCEPT !.stage = "read", !.meta = meta[u]]
    BY <1>1 DEF ReadForMail, Typing
  <2> QED
    BY <1>s, <1>1, <2>1, Zenon DEF ReadForMail, Mail, Created
<1>2. ASSUME SendMail(u)
      PROVE  /\ sender'[u].stage = "mailed" /\ sender'[u].meta = sender[u].meta
             /\ sender'[u].again = (u \in links)
  <2>1. PICK b : b = (u \in links)
    OBVIOUS
  <2>2. sender'[u] = [sender[u] EXCEPT !.stage = "mailed", !.again = b]
    BY <1>2, <2>1 DEF SendMail, Typing
  <2> QED
    BY <1>s, <2>1, <2>2, Zenon DEF Mail
<1>3. SendMail(u) => u \in links' /\ sender[u].stage = "read" /\ Free(u, "local")
  BY DEF SendMail
<1>4. CommitMail(u) \/ MailFails(u) \/ Age(u) => sender'[u].stage = "idle"
  BY DEF CommitMail, MailFails, Age, NoMail, Typing
<1> QED
  BY <1>1, <1>2, <1>3, <1>4

\* The mailed links are forgotten only on the day they have expired, and with
\* them what was in flight.
LEMMA LinkSteps ==
  ASSUME [Next]_vars, NEW u \in User, u \in links
  PROVE  u \in links' \/ Age(u)
<1>1. ASSUME NEW x \in User, Age(x), x # u
      PROVE  u \in links'
  BY <1>1 DEF Age
<1>2. ASSUME NEW x \in User, SendMail(x) \/ \E k \in Kind : MailLink(x, k)
      PROVE  u \in links'
  BY <1>2 DEF SendMail, MailLink
<1> QED
  BY <1>1, <1>2, Writers DEF WrittenByWriters, LinkWriters

LEMMA AgeParts ==
  ASSUME Typing, NEW u \in User, Age(u)
  PROVE  /\ \A r \in Request : ~For(r, u)'
         /\ account'[u].deleted = "old" /\ sender'[u].stage = "idle"
<1>1. account'[u].deleted = "old"
  BY ColumnWrites DEF Age
<1>2. ASSUME NEW r \in Request, For(r, u)'
      PROVE  FALSE
  <2>1. req'[r] = IF req[r] # Idle /\ req[r].user = u THEN Idle ELSE req[r]
    BY DEF Age
  <2>2. req'[r] # Idle
    BY <1>2, TaskIsNotIdle DEF For
  <2> QED
    BY <1>2, <2>1, <2>2 DEF For
<1> QED
  BY <1>1, <1>2, MailParts

\* The nightly job has read what it anonymises as long deleted.
BatchOld == \A j \in Cron : \A u \in batch[j] : entity[j][u].deleted = "old"

\* What the commit of the nightly job does to an account of its batch.
LEMMA AnonymiseParts ==
  ASSUME Typing, NEW u \in User, Anonymises(u)
  PROVE  /\ account'[u].anonymised
         /\ BatchOld /\ account[u].deleted # "no" => account'[u].deleted # "no"
         /\ meta'[u] = NoMeta /\ session'[u] = {}
         /\ \A r \in Request : For(r, u) => req'[r] = Marked(req[r])
         /\ UNCHANGED <<auths, links, outbox, sender>>
<1>1. PICK j \in Cron : JobCommit(j) /\ u \in batch[j]
  BY DEF Anonymises
<1>2. account'[u].anonymised /\ account'[u].deleted = Written(j, u, "deleted")
  BY <1>1 DEF JobCommit
<1>3. BatchOld /\ account[u].deleted # "no" => account'[u].deleted # "no"
  BY <1>1, <1>2 DEF BatchOld, Written
<1>4. meta'[u] = NoMeta
  BY <1>1 DEF JobCommit
<1>5. session'[u] = {}
  BY <1>1 DEF JobCommit, ClearSessions
<1>6. ASSUME NEW r \in Request, For(r, u)
      PROVE  req'[r] = Marked(req[r])
  <2>1. req'[r] = Outdated(req[r], batch[j])
    BY <1>1 DEF JobCommit
  <2> QED
    BY <1>1, <1>6, <2>1, OutdatedTask DEF For
<1>7. UNCHANGED <<auths, links, outbox, sender>>
  BY <1>1 DEF JobCommit, tokens
<1> QED
  BY <1>2, <1>3, <1>4, <1>5, <1>6, <1>7

\* A transaction commits the request that its handler read.
LEMMA CommitOps ==
  ASSUME NEW r \in Request
  PROVE  /\ CommitSignUp(r) => req[r].op = "signUp"
         /\ CommitVerify(r) => req[r].op = "verify"
         /\ CommitReset(r) => req[r].op = "reset"
         /\ CommitIdp(r) => req[r].op = "idp"
         /\ CommitDeactivate(r) => req[r].op = "deactivate"
         /\ CommitDelete(r) => req[r].op = "delete"
         /\ CommitRestore(r) => req[r].op = "restore"
BY DEF CommitSignUp, CommitVerify, CommitReset, CommitIdp, CommitDeactivate, CommitDelete,
       CommitRestore, Is

\* Without the local authentication there is nothing to verify, and no mail.
NoRow(u) ==
  "local" \notin auths[u] =>
    /\ ~meta[u].verified /\ ~Created(u) /\ sender[u].stage = "idle"
    /\ \A r \in Request : For(r, u) => req[r].op \notin {"verify", "reset"}

\* Whoever is verified got a link.  When it has expired he has been deleted for
\* thirty days, and can only sign up or come through an identity provider.
Linked(u) ==
  meta[u].verified /\ u \notin links =>
    /\ account[u].deleted = "old"
    /\ \A r \in Request : For(r, u) => req[r].op \in {"signUp", "idp"}

ForLink(t) ==
  /\ t.op \in {"verify", "reset", "restore"} => t.user \in links
  /\ t.op = "reset" => t.meta.verified
  /\ t.op = "verify" => t.via = "local"

\* An address verified since the mail's read was verified through an earlier
\* link, and not while the mail's transaction holds the row.
MailBehind(u) ==
  LET m == sender[u] IN
  /\ m.stage = "mailed" => u \in links
  /\ m.stage = "read" /\ ~m.meta.verified /\ meta[u].verified => u \in links
  /\ m.stage = "mailed" /\ ~m.meta.verified /\ meta[u].verified => m.again
  /\ m.stage = "mailed" => \A r \in Request : For(r, u) => "local" \notin req[r].held

AllForLink == \A r \in Request : req[r] \in Task => ForLink(req[r])
LinkInv == AllForLink /\ \A u \in User : NoRow(u) /\ Linked(u) /\ MailBehind(u)

\* What a request in flight is after the step.
LEMMA InFlight ==
  ASSUME Typing, [Next]_vars, NEW r \in Request, NEW u \in User, For(r, u)'
  PROVE  \/ /\ For(r, u) /\ req'[r].op = req[r].op /\ req'[r].via = req[r].via
            /\ req'[r].meta = req[r].meta
         \/ Started(r, u) /\ UNCHANGED <<rows, tokens, outbox, sender>>
         \/ CommitIdp(r) /\ For(r, u) /\ req'[r].op = "signIn"
<1>1. CASE req'[r] = req[r]
  BY <1>1 DEF For
<1>2. CASE req[r] \in Task /\ req'[r] = Marked(req[r])
  BY <1>2, MarkedTask DEF For
<1>3. ASSUME NEW x \in User, BeginAny(r, x)
      PROVE  Started(r, u) /\ UNCHANGED <<rows, tokens, outbox, sender>>
  <2>1. Started(r, x)
    BY <1>3, BeginAnyStarts
  <2>2. x = u
    BY <2>1 DEF For, Started, Reads
  <2> QED
    BY <1>3, <2>1, <2>2, BeginKeeps
<1>4. CASE CommitIdp(r) /\ req'[r] = TaskFor("signIn", req[r].user, req[r].via)
  <2>1. req[r] \in Task
    BY <1>4, RequestIsTask DEF CommitIdp, Is, Op
  <2>2. req'[r].op = "signIn" /\ req'[r].user = req[r].user
    BY <1>4 DEF TaskFor
  <2> QED
    BY <1>4, <2>1, <2>2 DEF For
<1>5. CASE Moved(r)
  BY <1>5 DEF Moved, SameRead, For
<1> QED
  BY <1>1, <1>2, <1>3, <1>4, <1>5, TaskIsNotIdle, RequestSteps DEF RequestStep, For

\* Who has been let in through a provider was found without withDeleted.
LEMMA IdpFinds ==
  ASSUME NEW r \in Request, NEW u \in User, CommitIdp(r), For(r, u)
  PROVE  account'[u].deleted = "no" /\ ~account[u].anonymised
BY DEF CommitIdp, IdpSaved, For

\* What the transactions of the requests make of the metadata.
LEMMA MetaWrites ==
  ASSUME Typing, Locks, LinkInv, NEW r \in Request, NEW u \in User, For(r, u)
  PROVE  /\ CommitSignUp(r) => "local" \notin auths[u] /\ "local" \in auths'[u]
                               /\ ~meta'[u].verified
         /\ CommitVerify(r) \/ CommitReset(r) =>
              meta'[u].verified /\ u \in links /\ sender[u].stage # "mailed"
<1>1. req[r].meta \in Meta /\ ForLink(req[r]) /\ HoldsWell(req[r]) /\ MailBehind(u)
  BY TaskParts DEF For, LinkInv, AllForLink, Locks
<1>2. CommitSignUp(r) => "local" \notin auths[u] /\ "local" \in auths'[u] /\ ~meta'[u].verified
  BY DEF CommitSignUp, For, Typing
<1>3. ASSUME CommitVerify(r)
      PROVE  meta'[u].verified /\ u \in links /\ sender[u].stage # "mailed"
  <2>1. meta'[u] = [req[r].meta EXCEPT !.verified = TRUE]
    BY <1>3 DEF CommitVerify, For, Typing
  <2>2. [req[r].meta EXCEPT !.verified = TRUE].verified = TRUE
    BY <1>1, Zenon DEF Meta
  <2>3. req[r].op = "verify" /\ req[r].stmt = 2
    BY <1>3, CommitOps DEF CommitVerify, SetSession
  <2>4. u \in links /\ "local" \in req[r].held
    BY <1>1, <2>3 DEF ForLink, HoldsWell, For
  <2> QED
    BY <1>1, <2>1, <2>2, <2>4 DEF MailBehind
<1>4. ASSUME CommitReset(r)
      PROVE  meta'[u].verified /\ u \in links /\ sender[u].stage # "mailed"
  <2>1. PICK h : meta'[u] = [req[r].meta EXCEPT !.password = h]
    BY <1>4 DEF CommitReset, For, Typing
  <2>2. [req[r].meta EXCEPT !.password = h].verified = req[r].meta.verified
    BY <1>1, Zenon DEF Meta
  <2>3. req[r].meta.verified /\ u \in links
    BY <1>1, <1>4, CommitOps DEF ForLink, For
  <2> QED
    BY <1>4, <2>1, <2>2, <2>3 DEF CommitReset, Free, For
<1> QED
  BY <1>2, <1>3, <1>4

\* How an address gets verified.
LEMMA Verifies ==
  ASSUME Typing, Locks, LinkInv, [Next]_vars, NEW u \in User, meta'[u].verified
  PROVE  \/ meta'[u] = meta[u]
         \/ u \in links /\ sender'[u] = sender[u] /\ sender[u].stage # "mailed"
              /\ \E r \in Request : For(r, u) /\ (CommitVerify(r) \/ CommitReset(r))
         \/ CommitMail(u)
<1>1. ASSUME NEW r \in Request, For(r, u), CommitVerify(r) \/ CommitReset(r)
      PROVE  u \in links /\ sender'[u] = sender[u] /\ sender[u].stage # "mailed"
  BY <1>1, MetaWrites DEF CommitVerify, CommitReset
<1>2. ~Anonymises(u)
  BY AnonymiseParts DEF NoMeta
<1>3. ~\E r \in Request : For(r, u) /\ CommitSignUp(r)
  BY MetaWrites
<1> QED
  BY <1>1, <1>2, <1>3, MetaSteps DEF MetaStep

\* The commit of a mail's transaction.
LEMMA MailCommits ==
  ASSUME Typing, NEW u \in User, CommitMail(u)
  PROVE  /\ sender[u].stage = "mailed" /\ meta'[u] = sender[u].meta
         /\ UNCHANGED <<account, auths, session, links, req>>
BY DEF CommitMail, Typing, tokens

LEMMA NoRowKept ==
  ASSUME Typing, Locks, LinkInv, [Next]_vars, NEW u \in User
  PROVE  NoRow(u)'
<1> SUFFICES ASSUME "local" \notin auths'[u]
             PROVE  /\ ~meta'[u].verified /\ ~Created(u)' /\ sender'[u].stage = "idle"
                    /\ \A r \in Request : For(r, u)' => req'[r].op \notin {"verify", "reset"}
  BY DEF NoRow
<1>1. "local" \notin auths[u]
  BY AuthsGrow
<1>2. /\ ~meta[u].verified /\ ~Created(u) /\ sender[u].stage = "idle"
      /\ \A r \in Request : For(r, u) => req[r].op \notin {"verify", "reset"}
  BY <1>1 DEF LinkInv, NoRow
<1>3. ~meta'[u].verified
  BY <1>2, Verifies, CommitOps, MailCommits
<1>4. ~Created(u)'
  BY <1>2, CreatedSteps, MetaWrites
<1>5. sender'[u].stage = "idle"
  BY <1>2, SenderSteps, MailParts
<1>6. ASSUME NEW r \in Request, For(r, u)'
      PROVE  req'[r].op \notin {"verify", "reset"}
  <2>1. Started(r, u) => req'[r].op \notin {"verify", "reset"}
    BY <1>1 DEF Started, Reads, LocalVerified
  <2> QED
    BY <1>2, <1>6, <2>1, InFlight
<1> QED
  BY <1>3, <1>4, <1>5, <1>6

LEMMA LinkedKept ==
  ASSUME Typing, Locks, LinkInv, [Next]_vars, NEW u \in User
  PROVE  Linked(u)'
<1> SUFFICES ASSUME meta'[u].verified, u \notin links'
             PROVE  /\ account'[u].deleted = "old"
                    /\ \A r \in Request : For(r, u)' => req'[r].op \in {"signUp", "idp"}
  BY DEF Linked
<1>1. CASE Age(u)
  BY <1>1, AgeParts
<1>2. CASE ~Age(u)
  <2>1. u \notin links
    BY <1>2, LinkSteps
  <2>2. meta[u].verified /\ ~CommitMail(u)
    BY <2>1, Verifies, MailCommits DEF LinkInv, MailBehind
  <2>3. /\ account[u].deleted = "old"
        /\ \A r \in Request : For(r, u) => req[r].op \in {"signUp", "idp"}
    BY <2>1, <2>2 DEF LinkInv, Linked
  <2>4. ~Anonymises(u)
    BY AnonymiseParts DEF NoMeta
  <2>5. account'[u].deleted = "old"
    BY <1>2, <2>3, <2>4, CommitOps, AccountSteps DEF AccountStep
  <2>6. ASSUME NEW r \in Request, For(r, u)'
        PROVE  req'[r].op \in {"signUp", "idp"}
    <3>1. CASE Started(r, u)
      BY <2>1, <2>3, <3>1 DEF Started, Reads
    <3>2. ASSUME CommitIdp(r), For(r, u), req'[r].op = "signIn"
          PROVE  FALSE
      BY <2>5, <3>2, IdpFinds
    <3> QED
      BY <2>3, <2>6, <3>1, <3>2, InFlight
  <2> QED
    BY <2>5, <2>6
<1> QED
  BY <1>1, <1>2

LEMMA ForLinkKept ==
  ASSUME Typing, Locks, LinkInv, [Next]_vars
  PROVE  AllForLink'
<1> SUFFICES ASSUME NEW r \in Request, req'[r] \in Task
             PROVE  ForLink(req[r])'
  BY DEF AllForLink
<1>0. PICK u \in User : u = req'[r].user
  BY TaskParts
<1>1. u \in User /\ For(r, u)'
  BY <1>0 DEF For
<1>2. ~Age(u)
  BY <1>1, AgeParts
<1>3. u \in links => u \in links'
  BY <1>1, <1>2, LinkSteps
<1>4. CASE /\ For(r, u) /\ req'[r].op = req[r].op /\ req'[r].via = req[r].via
           /\ req'[r].meta = req[r].meta
  BY <1>1, <1>3, <1>4 DEF LinkInv, AllForLink, ForLink, For
<1>5. CASE Started(r, u) /\ UNCHANGED <<rows, tokens, outbox, sender>>
  <2>1. req'[r].op = "reset" => u \in links
    BY <1>1, <1>5 DEF Started, Reads, LocalVerified, LinkInv, Linked
  <2> QED
    BY <1>1, <1>3, <1>5, <2>1 DEF Started, Reads, ForLink, For
<1>6. CASE req'[r].op = "signIn"
  BY <1>6 DEF ForLink
<1> QED
  BY <1>1, <1>4, <1>5, <1>6, InFlight

LEMMA MailKept ==
  ASSUME Typing, Locks, LinkInv, [Next]_vars, NEW u \in User
  PROVE  MailBehind(u)'
<1>1. CASE sender'[u].stage = "idle"
  BY <1>1 DEF MailBehind
<1>2. CASE ReadForMail(u)
  <2>1. /\ sender'[u].stage = "read" /\ sender'[u].meta = meta[u] /\ meta'[u] = meta[u]
    BY <1>2, MailParts DEF ReadForMail, rows
  <2> QED
    BY <2>1 DEF MailBehind
<1>3. CASE SendMail(u)
  <2>1. /\ sender'[u].stage = "mailed" /\ sender'[u].meta = sender[u].meta
        /\ sender'[u].again = (u \in links) /\ u \in links'
        /\ sender[u].stage = "read" /\ Free(u, "local")
    BY <1>3, MailParts
  <2>2. UNCHANGED <<meta, req>>
    BY <1>3 DEF SendMail, rows
  <2>3. ~sender[u].meta.verified /\ meta[u].verified => u \in links
    BY <2>1 DEF LinkInv, MailBehind
  <2>4. ASSUME NEW r \in Request, For(r, u) PROVE "local" \notin req[r].held
    BY <2>1, <2>4, TaskIsNotIdle DEF Free, For
  <2> QED
    BY <2>1, <2>2, <2>3, <2>4 DEF MailBehind, For
<1>4. CASE sender'[u] = sender[u] /\ ~CommitMail(u) /\ ~Age(u)
  <2> DEFINE m == sender[u]
  <2>1. MailBehind(u)
    BY DEF LinkInv
  <2>2. u \in links => u \in links'
    BY <1>4, LinkSteps
  <2>3. meta'[u].verified /\ m.stage = "mailed" => meta[u].verified
    BY <1>4, Verifies
  <2>4. meta'[u].verified /\ m.stage = "read" => meta[u].verified \/ u \in links
    BY <1>4, Verifies
  <2>5. ASSUME NEW r \in Request, For(r, u)', m.stage = "mailed"
        PROVE  "local" \notin req'[r].held
    <3>1. ~Free(u, "local")
      BY <2>5 DEF Free
    <3>2. CASE req[r] \in Task /\ SameLocks(req'[r], req[r]) /\ req'[r].user = req[r].user
      BY <2>1, <2>5, <3>2 DEF MailBehind, SameLocks, For
    <3>3. CASE req'[r].held = {}
      BY <3>3
    <3>4. CASE Moved(r)
      <4>1. For(r, u) /\ Statement(r, req'[r])
        BY <2>5, <3>4 DEF Moved, SameRead, For
      <4>2. "local" \notin req[r].held
        BY <2>1, <2>5, <4>1 DEF MailBehind
      <4> QED
        BY <3>1, <4>1, <4>2 DEF Statement, For
    <3> QED
      BY <2>5, <3>2, <3>3, <3>4, LockSteps DEF LockStep, For
  <2> QED
    BY <1>4, <2>1, <2>2, <2>3, <2>4, <2>5 DEF MailBehind
<1> QED
  BY <1>1, <1>2, <1>3, <1>4, SenderSteps, MailParts

-----------------------------------------------------------------------------
(* Anonymised accounts                                                      *)

\* Whoever is in flight on a closed anonymised account read it before it was
\* closed, or saw its address verified.
OpenTo(t) ==
  account[t.user].anonymised /\ account[t.user].deleted # "no" => t.stale \/ t.meta.verified

AllOpen == \A r \in Request : req[r] \in Task => OpenTo(req[r])

LEMMA OpenKept ==
  ASSUME Typing, AllOpen, [Next]_vars
  PROVE  AllOpen'
<1> SUFFICES ASSUME NEW r \in Request, req'[r] \in Task,
                    account'[req'[r].user].anonymised,
                    account'[req'[r].user].deleted # "no"
             PROVE  req'[r].stale \/ req'[r].meta.verified
  BY DEF AllOpen, OpenTo
<1>1. ASSUME req[r] \in Task, req'[r].user = req[r].user, req'[r].meta = req[r].meta,
             req'[r].stale = req[r].stale \/ req'[r] = Marked(req[r])
      PROVE  req'[r].stale \/ req'[r].meta.verified
  <2> DEFINE u == req[r].user
  <2>1. u \in User /\ For(r, u)
    BY <1>1, TaskParts DEF For
  <2>2. CASE Anonymises(u)
    BY <1>1, <2>1, <2>2, AnonymiseParts, MarkedTask
  <2>3. ASSUME NEW s \in Request, CommitDelete(s), For(s, u)
        PROVE  req'[r].stale
    <3>1. req'[r] = IF r = s THEN Idle ELSE Outdated(req[r], {u})
      BY <2>3 DEF CommitDelete, For
    <3>2. req'[r] # Idle
      BY TaskIsNotIdle
    <3> QED
      BY <1>1, <3>1, <3>2, OutdatedTask, MarkedTask
  <2>4. ASSUME NEW s \in Request, CommitRestore(s), For(s, u)
        PROVE  FALSE
    <3>1. account' = [account EXCEPT ![u].deleted = "no"]
      BY <2>4 DEF CommitRestore, For
    <3>2. account'[u].deleted = "no"
      BY <2>1, <3>1, ColumnWrites
    <3> QED
      BY <1>1, <3>2
  <2>5. ~Age(u)
    BY <1>1, <2>1, AgeParts DEF For
  <2>6. CASE /\ account'[u].anonymised = account[u].anonymised
             /\ account'[u].deleted = account[u].deleted
    <3>1. req[r].stale \/ req[r].meta.verified
      BY <1>1, <2>6 DEF AllOpen, OpenTo
    <3> QED
      BY <1>1, <3>1, MarkedTask
  <2> QED
    BY <2>1, <2>2, <2>3, <2>4, <2>5, <2>6, AccountSteps DEF AccountStep
<1>2. CASE req'[r] = req[r]
  BY <1>1, <1>2
<1>3. CASE req[r] \in Task /\ req'[r] = Marked(req[r])
  BY <1>1, <1>3, MarkedTask
<1>4. ASSUME NEW u \in User, BeginAny(r, u)
      PROVE  req'[r].meta.verified
  <2>1. Started(r, u) /\ UNCHANGED account
    BY <1>4, BeginAnyStarts, BeginKeeps DEF rows
  <2> QED
    BY <2>1 DEF Started, Reads
<1>5. ASSUME CommitIdp(r), req'[r] = TaskFor("signIn", req[r].user, req[r].via)
      PROVE  FALSE
  <2> DEFINE u == req[r].user
  <2>1. u \in User /\ req'[r].user = u
    BY <1>5, TaskParts, RequestIsTask DEF TaskFor, CommitIdp, Is, Op
  <2>2. /\ account' = [account EXCEPT ![u].deactivated = @ /\ ~req[r].deactivated]
        /\ ~account[u].anonymised
    BY <1>5 DEF CommitIdp, IdpSaved
  <2>3. ~account'[u].anonymised
    BY <2>1, <2>2, AnonymisedColumn
  <2> QED
    BY <2>1, <2>3
<1>6. CASE Moved(r)
  BY <1>1, <1>6 DEF Moved, SameRead
<1>7. req'[r] # Idle
  BY TaskIsNotIdle
<1> QED
  BY <1>2, <1>3, <1>4, <1>5, <1>6, <1>7, RequestSteps DEF RequestStep

\* What the job has read does not change, and it reads long deleted accounts.
LEMMA BatchKept ==
  ASSUME Typing, BatchOld, [Next]_vars
  PROVE  BatchOld'
<1>1. ASSUME NEW j \in Cron, JobFind(j)
      PROVE  BatchOld'
  <2>1. PICK us \in SUBSET Eligible :
          /\ batch' = [batch EXCEPT ![j] = us]
          /\ entity' = [entity EXCEPT ![j] =
                          [u \in User |-> IF u \in us THEN account[u] ELSE Untouched]]
    BY <1>1 DEF JobFind
  <2>2. us \subseteq User /\ \A u \in us : account[u].deleted = "old"
    BY DEF Eligible
  <2>3. /\ batch'[j] = us
        /\ \A u \in us : entity'[j][u] = account[u]
        /\ \A x \in Cron \ {j} : batch'[x] = batch[x] /\ entity'[x] = entity[x]
    BY <2>1, <2>2 DEF Typing
  <2> QED
    BY <2>2, <2>3 DEF BatchOld
<1>2. ASSUME NEW j \in Cron, JobDone(j)
      PROVE  BatchOld'
  <2>1. /\ batch'[j] = {}
        /\ \A x \in Cron \ {j} : batch'[x] = batch[x] /\ entity'[x] = entity[x]
    BY <1>2 DEF JobDone, Typing
  <2> QED
    BY <2>1 DEF BatchOld
<1>3. CASE UNCHANGED <<batch, entity>>
  BY <1>3 DEF BatchOld
<1> QED
  BY <1>1, <1>2, <1>3, Writers DEF WrittenByWriters, BatchWriters, JobCommit, JobAborts

\* An account that is closed, with nothing in flight that read it before, stays
\* closed.
LEMMA ClosedKept ==
  ASSUME Typing, AllOpen, BatchOld, [Next]_vars, NEW u \in User,
         account[u].anonymised, Closed(u), ~Overtaken(u)
  PROVE  Closed(u)'
<1>1. ~\E r \in Request : For(r, u)
  <2> SUFFICES ASSUME NEW r \in Request, For(r, u) PROVE FALSE
    OBVIOUS
  <2>1. req[r].stale \/ req[r].meta.verified
    BY DEF For, AllOpen, OpenTo, Closed
  <2> QED
    BY <2>1, TaskIsNotIdle DEF Overtaken, For
<1>2. account'[u].deleted # "no"
  BY <1>1, AccountSteps, AnonymiseParts DEF AccountStep, Closed
<1>3. session'[u] = {}
  BY <1>1, SessionSteps DEF Closed, Signs
<1>4. meta'[u] = NoMeta
  <2>1. CommitMail(u) => meta'[u] = NoMeta
    BY MailCommits DEF Overtaken
  <2> QED
    BY <1>1, <2>1, MetaSteps, AnonymiseParts DEF MetaStep, Closed
<1> QED
  BY <1>2, <1>3, <1>4 DEF Closed

-----------------------------------------------------------------------------
(* Their theorems                                                           *)

LaterInv == LinkInv /\ AllOpen /\ BatchOld

LEMMA LaterInvHolds == Spec => [](Invariant /\ LaterInv)
<1>1. Init => LaterInv
  <2> SUFFICES ASSUME Init PROVE LaterInv
    OBVIOUS
  <2>1. \A r \in Request : req[r] \notin Task
    BY TaskIsNotIdle DEF Init
  <2>2. LinkInv
    BY <2>1 DEF Init, LinkInv, AllForLink, NoRow, Linked, MailBehind, Created, NoMail, NoMeta, For
  <2>3. BatchOld
    BY DEF Init, BatchOld
  <2> QED
    BY <2>1, <2>2, <2>3 DEF LaterInv, AllOpen
<1>2. Invariant /\ LaterInv /\ [Next]_vars => LaterInv'
  BY ForLinkKept, NoRowKept, LinkedKept, MailKept, OpenKept, BatchKept
  DEF Invariant, LaterInv, LinkInv
<1> QED
  BY <1>1, <1>2, InvariantHolds, PTL DEF Spec

\* A verified address stays verified until the account is anonymised, whatever
\* requests, mails and jobs interleave, and however often a message is handled:
\* only sendEmailVerification can write unverified metadata over it, and only
\* with a mail that is not the first link to the account.
THEOREM VerifiedStaysVerified == Spec => VerifiedStays
<1>1. ASSUME Invariant, LaterInv, [Next]_vars, NEW u \in User,
             meta[u].verified, ~meta'[u].verified
      PROVE  account'[u].anonymised \/ (sender[u].stage = "mailed" /\ sender[u].again)
  <2>1. Typing /\ Locks /\ LinkInv
    BY <1>1 DEF Invariant, LaterInv
  <2>2. CASE CommitMail(u)
    BY <1>1, <2>1, <2>2, MailCommits DEF LinkInv, MailBehind
  <2>3. ASSUME NEW r \in Request, For(r, u),
               CommitSignUp(r) \/ CommitVerify(r) \/ CommitReset(r)
        PROVE  FALSE
    BY <1>1, <2>1, <2>3, MetaWrites DEF LinkInv, NoRow
  <2>4. CASE Anonymises(u)
    BY <2>1, <2>4, AnonymiseParts
  <2> QED
    BY <1>1, <2>1, <2>2, <2>3, <2>4, MetaSteps DEF MetaStep
<1>2. Invariant /\ LaterInv /\ [Next]_vars
        => [\A u \in User : meta[u].verified /\ ~meta'[u].verified =>
              \/ account'[u].anonymised
              \/ sender[u].stage = "mailed" /\ sender[u].again]_vars
  BY <1>1
<1> QED
  BY <1>2, LaterInvHolds, PTL DEF Spec, VerifiedStays

\* An anonymised account that is closed is not opened again but by what had read
\* it before: with any number of job processes that write stale rows back, and
\* however often a message is handled.
THEOREM AnonymisedStaysClosed == Spec => AnonymisedIsClosed
<1>1. ASSUME Invariant, LaterInv, [Next]_vars
      PROVE  \A u \in User : account[u].anonymised /\ Closed(u) /\ ~Overtaken(u) => Closed(u)'
  BY <1>1, ClosedKept DEF Invariant, LaterInv
<1>2. Invariant /\ LaterInv /\ [Next]_vars
        => [\A u \in User : account[u].anonymised /\ Closed(u) /\ ~Overtaken(u)
                               => Closed(u)']_vars
  BY <1>1
<1> QED
  BY <1>2, LaterInvHolds, PTL DEF Spec, AnonymisedIsClosed
=============================================================================
