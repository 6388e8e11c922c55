------------------------------- MODULE Tokens -------------------------------
(***************************************************************************)
(* Access tokens, the refresh token in the authentication row and the      *)
(* blacklist in Redis, against time: JwtStrategy, TokensService,           *)
(* RedisService, AuthService.refreshAccessToken and signOut, and the       *)
(* closing of a profile, for one authentication of one user.               *)
(*                                                                         *)
(* A JWT counts in seconds and Redis in milliseconds, so time is counted   *)
(* in ticks, several to a second.                                          *)
(***************************************************************************)
EXTENDS Integers, FiniteSets

CONSTANTS
  Jwt,         \* jwti of the access tokens
  Request,     \* slots: requests in flight
  AccessTtl,   \* accessTokenExpiresIn, in seconds
  RefreshTtl,  \* refreshTokenExpiresIn, in seconds
  Ticks,       \* ticks per second
  Lag,         \* ticks between reading the clock and acting on it, at most
  MaxTime      \* bound: the last tick

ASSUME TokensAssumption ==
  /\ IsFiniteSet(Request)
  /\ AccessTtl \in Nat \ {0}
  /\ RefreshTtl \in Nat \ {0}
  /\ Ticks \in Nat \ {0}
  /\ Lag \in 0..(Ticks - 1)      \* less than a second
  /\ MaxTime \in Nat

Never == -1
Time == 0..MaxTime
LastSecond == MaxTime + AccessTtl + RefreshTtl

VARIABLES
  now,      \* in ticks
  exp,      \* per access token: the second it expires in, or Never
  refresh,  \* the second the stored refresh token expires in; Never: null
  redis,    \* per key: the tick at which its entry expires, or Never
  req,      \* the requests in flight
  since,    \* ghost, per access token: the second of its sign-in
  started,  \* ghost: the second of the last sign-in
  ended,    \* ghost: the access tokens that were signed out
  orphans   \* ghost: access tokens made since the session ended

vars == <<now, exp, refresh, redis, req, since, started, ended, orphans>>

\* The two forms of a key: what isBlacklisted asks for, what addToBlacklist
\* stores.
Key == {"jwti", "blacklist:jwti"} \X Jwt

Idle == [op |-> "none"]
Refreshing == [op : {"refresh"}, found : 0..LastSecond, since : 0..LastSecond]
Leaving == [op : {"signOut", "clear"}, jwt : Jwt]

Init ==
  /\ now = 0
  /\ exp = [j \in Jwt |-> Never]
  /\ refresh = Never
  /\ redis = [k \in Key |-> Never]
  /\ req = [r \in Request |-> Idle]
  /\ since = [j \in Jwt |-> 0]
  /\ started = 0
  /\ ended = {}
  /\ orphans = 0

-----------------------------------------------------------------------------
(* State functions                                                          *)

Second == now \div Ticks

Exists(k) == redis[k] > now

isBlacklisted(j) == Exists(<<"jwti", j>>)

\* JwtStrategy: the signature, the expiry and the blacklist.
Accepted(j) == exp[j] > Second /\ ~isBlacklisted(j)

\* When the clock was read by what is done now.
Recent == {v \in Time : v <= now /\ now <= v + Lag}

\* Mutant of Ttl: rounded up.
TtlRoundedUp(j, v) == (exp[j] * Ticks - v + Ticks - 1) \div Ticks

\* Whole seconds until the token expires, rounded down.
Ttl(j, v) == (exp[j] * Ticks - v) \div Ticks

\* addToBlacklist: the time to live, computed at v, and SETEX, which counts it
\* from now and refuses zero.
Stored(j) ==
  \E v \in Recent :
    /\ Ttl(j, v) > 0
    /\ redis' = [redis EXCEPT ![<<"blacklist:jwti", j>>] = now + Ttl(j, v) * Ticks]

Issue(j, start) ==
  /\ exp[j] = Never
  /\ exp' = [exp EXCEPT ![j] = Second + AccessTtl]
  /\ since' = [since EXCEPT ![j] = start]

\* refreshToken: null.
EndSession ==
  /\ refresh' = Never
  /\ orphans' = IF refresh = Never THEN orphans ELSE 0

End(r) == req' = [req EXCEPT ![r] = Idle]

-----------------------------------------------------------------------------
(* Requests                                                                 *)

\* signIn and the confirmations: both tokens are signed, and the refresh
\* token is stored.  One step here: Accounts has its read and its commit.
SignIn(j) ==
  /\ Issue(j, Second)
  /\ refresh' = Second + RefreshTtl
  /\ started' = Second
  /\ orphans' = 0
  /\ UNCHANGED <<now, redis, req, ended>>

\* A sign-in with another authentication of the user.
SignInElsewhere ==
  /\ refresh # Never
  /\ EndSession
  /\ UNCHANGED <<now, exp, redis, req, since, started, ended>>

\* Mutants of BeginRefresh: a row without a refresh token is found as well;
\* the refresh token comes with the request, and the row is not looked at.
BeginRefreshAnyRow(r, j) ==
  /\ req[r] = Idle
  /\ exp[j] # Never
  /\ ~isBlacklisted(j)
  /\ req' = [req EXCEPT ![r] = [op |-> "refresh", found |-> refresh, since |-> started]]
  /\ UNCHANGED <<now, exp, refresh, redis, since, started, ended, orphans>>

BeginRefreshSignedOut(r, j) ==
  /\ req[r] = Idle
  /\ exp[j] # Never
  /\ ~isBlacklisted(j)
  /\ req' = [req EXCEPT ![r] = [op |-> "refresh", found |-> started + RefreshTtl,
                                since |-> started]]
  /\ UNCHANGED <<now, exp, refresh, redis, since, started, ended, orphans>>

\* refreshAccessToken ignores the expiry of the access token, and looks for a
\* row with a refresh token.
BeginRefresh(r, j) ==
  /\ req[r] = Idle
  /\ exp[j] # Never
  /\ ~isBlacklisted(j)
  /\ refresh # Never
  /\ req' = [req EXCEPT ![r] = [op |-> "refresh", found |-> refresh, since |-> started]]
  /\ UNCHANGED <<now, exp, refresh, redis, since, started, ended, orphans>>

\* Mutant of FinishRefresh: the refresh token is verified like the access
\* token, its expiry ignored.
FinishRefreshAnyTime(r, j) ==
  /\ req[r].op = "refresh"
  /\ Issue(j, req[r].since)
  /\ End(r)
  /\ orphans' = IF refresh = Never THEN orphans + 1 ELSE 0
  /\ UNCHANGED <<now, refresh, redis, started, ended>>

\* The refresh token it read had not expired when it was verified: a new
\* access token.
FinishRefresh(r, j) ==
  /\ req[r].op = "refresh"
  /\ \E v \in Recent : v \div Ticks < req[r].found
  /\ Issue(j, req[r].since)
  /\ End(r)
  /\ orphans' = IF refresh = Never THEN orphans + 1 ELSE 0
  /\ UNCHANGED <<now, refresh, redis, started, ended>>

RefuseRefresh(r) ==
  /\ req[r].op = "refresh"
  /\ Second >= req[r].found
  /\ End(r)
  /\ UNCHANGED <<now, exp, refresh, redis, since, started, ended, orphans>>

\* signOut, past the guard,
BeginSignOut(r, j) ==
  /\ req[r] = Idle
  /\ Accepted(j)
  /\ req' = [req EXCEPT ![r] = [op |-> "signOut", jwt |-> j]]
  /\ UNCHANGED <<now, exp, refresh, redis, since, started, ended, orphans>>

\* stores the token's id,
Blacklist(r) ==
  /\ req[r].op = "signOut"
  /\ Stored(req[r].jwt)
  /\ ended' = ended \cup {req[r].jwt}
  /\ req' = [req EXCEPT ![r].op = "clear"]
  /\ UNCHANGED <<now, exp, refresh, since, started, orphans>>

\* or throws and clears nothing,
SignOutThrows(r) ==
  /\ req[r].op = "signOut"
  /\ \E v \in Recent : Ttl(req[r].jwt, v) <= 0
  /\ End(r)
  /\ UNCHANGED <<now, exp, refresh, redis, since, started, ended, orphans>>

\* and sets refreshToken to null.
ClearRefresh(r) ==
  /\ req[r].op = "clear"
  /\ EndSession
  /\ End(r)
  /\ UNCHANGED <<now, exp, redis, since, started, ended>>

\* Deactivation and deletion: both writes in one transaction.
CloseProfile(j) ==
  /\ Accepted(j)
  /\ Stored(j)
  /\ EndSession
  /\ ended' = ended \cup {j}
  /\ UNCHANGED <<now, exp, req, since, started>>

\* Its COMMIT fails; Redis takes no part in the transaction.
CloseProfileFails(j) ==
  /\ Accepted(j)
  /\ Stored(j)
  /\ UNCHANGED <<now, exp, refresh, req, since, started, ended, orphans>>

Tick ==
  /\ now < MaxTime
  /\ now' = now + 1
  /\ UNCHANGED <<exp, refresh, redis, req, since, started, ended, orphans>>

Next ==
  \/ \E j \in Jwt : SignIn(j) \/ CloseProfile(j) \/ CloseProfileFails(j)
  \/ \E r \in Request :
       \/ RefuseRefresh(r) \/ Blacklist(r) \/ SignOutThrows(r) \/ ClearRefresh(r)
       \/ \E j \in Jwt : BeginRefresh(r, j) \/ FinishRefresh(r, j) \/ BeginSignOut(r, j)
  \/ SignInElsewhere \/ Tick

Spec == Init /\ [][Next]_vars

-----------------------------------------------------------------------------
(* Correctness                                                              *)

\* Every variable has its type.
TypeOK ==
  /\ now \in Time
  /\ exp \in [Jwt -> 0..LastSecond \cup {Never}]
  /\ refresh \in 0..LastSecond \cup {Never}
  /\ redis \in [Key -> Nat \cup {Never}]
  /\ req \in [Request -> {Idle} \cup Refreshing \cup Leaving]
  /\ since \in [Jwt -> 0..LastSecond]
  /\ started \in 0..LastSecond
  /\ ended \subseteq Jwt
  /\ orphans \in Nat

\* "Calculate time to live (TTL) in milliseconds for the token in Redis": it is
\* in seconds, and an entry of the blacklist ends less than a second before its
\* token does, and outlives it by no more than SETEX comes late.
EntryFits ==
  \A j \in Jwt : redis[<<"blacklist:jwti", j>>] # Never =>
    /\ redis[<<"blacklist:jwti", j>>] <= exp[j] * Ticks + Lag
    /\ exp[j] * Ticks < redis[<<"blacklist:jwti", j>>] + Ticks

\* No chain of refreshes outlives its sign-in: every access token of a session
\* expires before the refresh token's life and one access token's life are
\* over, counted from the sign-in.
SessionHorizon ==
  \A j \in Jwt : exp[j] # Never => exp[j] <= since[j] + RefreshTtl + AccessTtl

\* A refresh in flight was founded on a refresh token of the sign-in it counts
\* its tokens to.
RefreshFounded ==
  /\ refresh # Never => refresh = started + RefreshTtl
  /\ \A r \in Request : req[r].op = "refresh" => req[r].found = req[r].since + RefreshTtl

\* Signing out stops the refreshes: once the refresh token is gone, a refresh
\* that had read it makes one more access token at most, and no new one starts.
RefreshStops ==
  refresh = Never =>
    orphans + Cardinality({r \in Request : req[r].op = "refresh"})
      <= Cardinality(Request)

\* "should throw UnauthorizedException when jwt(jwti) is blacklisted": the
\* guard refuses a token whose sign-out is recorded.
SignedOutIsRefused == \A j \in ended : ~Accepted(j)
=============================================================================
