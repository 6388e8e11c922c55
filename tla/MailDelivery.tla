---------------------------- MODULE MailDelivery ----------------------------
(***************************************************************************)
(* What the e-mail queue promises to the services that emit into it: a     *)
(* message is owed until it has been mailed at least once or given up      *)
(* visibly (dead-lettered or rejected), and then it is closed for good.    *)
(* How often it is mailed is not promised.                                 *)
(***************************************************************************)
EXTENDS Naturals

CONSTANT Msg

VARIABLES
  phase,    \* "new", "owed" or "closed", per message
  mails,    \* mails sent, per message
  givenUp   \* the messages that were dead-lettered or rejected

deliveryVars == <<phase, mails, givenUp>>

Init ==
  /\ phase = [m \in Msg |-> "new"]
  /\ mails = [m \in Msg |-> 0]
  /\ givenUp = {}

\* The services emit a message.
Accept(m) ==
  /\ phase[m] = "new"
  /\ phase' = [phase EXCEPT ![m] = "owed"]
  /\ UNCHANGED <<mails, givenUp>>

\* A mail goes out.  A handler that lost its channel may be late.
Mail(m) ==
  /\ phase[m] # "new"
  /\ mails' = [mails EXCEPT ![m] = @ + 1]
  /\ UNCHANGED <<phase, givenUp>>

\* The message is dead-lettered, or rejected: then it may close at once.
GiveUp(m) ==
  /\ phase[m] = "owed"
  /\ givenUp' = givenUp \cup {m}
  /\ phase' \in {phase, [phase EXCEPT ![m] = "closed"]}
  /\ UNCHANGED mails

\* The broker forgets a message only when something came of it.
Close(m) ==
  /\ phase[m] = "owed"
  /\ mails[m] > 0 \/ m \in givenUp
  /\ phase' = [phase EXCEPT ![m] = "closed"]
  /\ UNCHANGED <<mails, givenUp>>

Next == \E m \in Msg : Accept(m) \/ Mail(m) \/ GiveUp(m) \/ Close(m)

SafeSpec == Init /\ [][Next]_deliveryVars

\* What is owed is closed in the end.
EveryDebtSettled == \A m \in Msg : phase[m] = "owed" ~> phase[m] = "closed"

Spec == SafeSpec /\ EveryDebtSettled
=============================================================================
