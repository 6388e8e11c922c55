---------------------------- MODULE TokensProofs ----------------------------
(***************************************************************************)
(* Proofs about Tokens, for any lifetimes, any number of tokens and        *)
(* requests, and any length of a second.                                   *)
(***************************************************************************)
EXTENDS Tokens, FiniteSetTheorems, TLAPS

-----------------------------------------------------------------------------
(* Seconds and ticks                                                        *)

\* Division rounds down.
LEMMA Floor ==
  ASSUME NEW x \in Int, NEW t \in Nat \ {0}
  PROVE  /\ x \div t \in Int
         /\ (x \div t) * t <= x
         /\ x < (x \div t) * t + t
BY SMT

LEMMA FloorOfNat ==
  ASSUME NEW x \in Nat, NEW t \in Nat \ {0}
  PROVE  x \div t \in Nat /\ x \div t <= x
BY SMT

\* A second after v it is the next second at most.
LEMMA NextSecond ==
  ASSUME NEW x \in Nat, NEW v \in Nat, NEW t \in Nat \ {0}, x <= v + t
  PROVE  x \div t \in Int /\ v \div t \in Int /\ x \div t <= (v \div t) + 1
<1>1. /\ x \div t \in Int /\ v \div t \in Int
      /\ (x \div t) * t <= x
      /\ v < (v \div t) * t + t
  BY Floor, SMT
<1> DEFINE a == x \div t
           b == v \div t
<1>2. a \in Int /\ b \in Int /\ a * t <= x /\ v < b * t + t
  BY <1>1
<1> HIDE DEF a, b
<1>3. SUFFICES ASSUME a > b + 1 PROVE FALSE
  BY <1>2 DEF a, b
<1>4. a * t >= (b + 2) * t
  BY <1>2, <1>3, SMT
<1>5. (b + 2) * t = b * t + t + t /\ b * t \in Int
  BY <1>2, SMT
<1> QED
  BY <1>2, <1>4, <1>5, SMT

LEMMA SecondIsSmall ==
  ASSUME TypeOK
  PROVE  /\ Second \in Nat
         /\ Second <= MaxTime
<1>1. now \in Nat /\ now <= MaxTime
  BY TokensAssumption, SMT DEF TypeOK, Time
<1>2. Second \in Nat /\ Second <= now
  BY <1>1, FloorOfNat, TokensAssumption DEF Second
<1> QED
  BY <1>1, <1>2, TokensAssumption, SMT

LEMMA ExpIsInt ==
  ASSUME TypeOK, NEW j \in Jwt
  PROVE  /\ exp[j] \in Int
         /\ exp[j] * Ticks \in Int
         /\ now \in Int
BY TokensAssumption, SMT DEF TypeOK, Time, Never, LastSecond

LEMMA RecentTicks ==
  ASSUME TypeOK, NEW v \in Recent
  PROVE  v \in Nat /\ v <= now /\ now <= v + Lag /\ now \in Nat /\ Lag \in Nat /\ Lag <= Ticks
BY TokensAssumption, SMT DEF TypeOK, Time, Recent

\* What addToBlacklist stores is at most a second short of the token's life,
\* and as much longer as it is late.
LEMMA StoredFits ==
  ASSUME TypeOK, NEW j \in Jwt, NEW v \in Recent
  PROVE  /\ Ttl(j, v) \in Int
         /\ now + Ttl(j, v) * Ticks \in Int
         /\ now + Ttl(j, v) * Ticks <= exp[j] * Ticks + Lag
         /\ exp[j] * Ticks < now + Ttl(j, v) * Ticks + Ticks
<1> DEFINE x == exp[j] * Ticks - v
<1>1. x \in Int /\ now \in Int /\ exp[j] * Ticks \in Int /\ exp[j] * Ticks = x + v
  BY ExpIsInt, RecentTicks, TokensAssumption, SMT
<1>2. Ttl(j, v) = x \div Ticks
  BY DEF Ttl
<1> HIDE DEF x
<1>3. /\ x \div Ticks \in Int
      /\ (x \div Ticks) * Ticks <= x
      /\ x < (x \div Ticks) * Ticks + Ticks
  BY <1>1, Floor, TokensAssumption
<1> DEFINE y == (x \div Ticks) * Ticks
<1>4. y \in Int
  BY <1>3, TokensAssumption, SMT
<1> HIDE DEF y
<1>5. /\ now + y \in Int
      /\ now + y <= exp[j] * Ticks + Lag
      /\ exp[j] * Ticks < now + y + Ticks
  BY <1>1, <1>3, <1>4, RecentTicks, TokensAssumption, SMT DEF y
<1> QED
  BY <1>2, <1>3, <1>5 DEF y

-----------------------------------------------------------------------------
(* The invariant                                                            *)

Inv == TypeOK /\ RefreshFounded /\ EntryFits /\ SessionHorizon

LEMMA InitInv == Init => Inv
<1> SUFFICES ASSUME Init PROVE Inv
  OBVIOUS
<1>1. 0 \in 0..LastSecond /\ 0 \in Time
  BY TokensAssumption, SMT DEF LastSecond, Time
<1>2. TypeOK
  BY <1>1, SMT DEF Init, TypeOK, Never
<1>3. RefreshFounded
  BY DEF Init, RefreshFounded, Idle
<1>4. EntryFits
  BY DEF Init, EntryFits, Key
<1>5. SessionHorizon
  BY DEF Init, SessionHorizon
<1> QED
  BY <1>2, <1>3, <1>4, <1>5 DEF Inv

LEMMA RequestParts ==
  ASSUME TypeOK, NEW r \in Request
  PROVE  /\ req[r].op = "refresh" => req[r] \in Refreshing
         /\ req[r].op \in {"signOut", "clear"} => req[r] \in Leaving
<1>1. req[r] \in {Idle} \cup Refreshing \cup Leaving
  BY DEF TypeOK
<1>2. Idle.op = "none"
  BY DEF Idle
<1>3. \A x \in Refreshing : x.op = "refresh"
  BY DEF Refreshing
<1>4. \A x \in Leaving : x.op \in {"signOut", "clear"}
  BY DEF Leaving
<1> QED
  BY <1>1, <1>2, <1>3, <1>4, SMT

LEMMA EndTyping ==
  ASSUME TypeOK, NEW r \in Request, End(r)
  PROVE  req' \in [Request -> {Idle} \cup Refreshing \cup Leaving]
BY DEF TypeOK, End

\* Ending a request, or leaving the requests alone, founds the others still.
LEMMA EndFounded ==
  ASSUME TypeOK, RefreshFounded, NEW r \in Request, End(r)
  PROVE  \A x \in Request : req'[x].op = "refresh"
                              => req'[x].found = req'[x].since + RefreshTtl
<1> TAKE x \in Request
<1>1. CASE x = r
  BY <1>1 DEF End, TypeOK, Idle
<1>2. CASE x # r
  BY <1>2 DEF End, TypeOK, RefreshFounded
<1> QED
  BY <1>1, <1>2

\* A new token: it has no entry in the blacklist, and its session lives.
LEMMA IssueInv ==
  ASSUME TypeOK, EntryFits, SessionHorizon, NEW j \in Jwt, NEW s \in 0..LastSecond,
         Issue(j, s), Second <= s + RefreshTtl, UNCHANGED redis
  PROVE  /\ exp' \in [Jwt -> 0..LastSecond \cup {Never}]
         /\ since' \in [Jwt -> 0..LastSecond]
         /\ EntryFits'
         /\ SessionHorizon'
<1>1. /\ Second \in Nat /\ Second <= MaxTime
      /\ s \in Nat
  BY SecondIsSmall, TokensAssumption, SMT DEF LastSecond
<1>2. Second + AccessTtl \in 0..LastSecond
  BY <1>1, TokensAssumption, SMT DEF LastSecond
<1>3. exp' \in [Jwt -> 0..LastSecond \cup {Never}] /\ since' \in [Jwt -> 0..LastSecond]
  BY <1>2 DEF Issue, TypeOK
<1>4. /\ exp'[j] = Second + AccessTtl /\ since'[j] = s
      /\ \A x \in Jwt \ {j} : exp'[x] = exp[x] /\ since'[x] = since[x]
  BY DEF Issue, TypeOK
<1>5. redis[<<"blacklist:jwti", j>>] = Never
  <2>1. redis[<<"blacklist:jwti", j>>] \in Nat \cup {Never}
    BY DEF TypeOK, Key
  <2>2. exp[j] = -1
    BY DEF Issue, Never
  <2> DEFINE e == redis[<<"blacklist:jwti", j>>]
  <2>3. e # Never => exp[j] * Ticks < e + Ticks /\ e <= exp[j] * Ticks + Lag
    BY DEF EntryFits
  <2> HIDE DEF e
  <2>4. e \in Nat \cup {Never}
    BY <2>1 DEF e
  <2>5. e = Never
    BY <2>2, <2>3, <2>4, TokensAssumption, SMT
  <2> QED
    BY <2>5 DEF e
<1>6. EntryFits'
  BY <1>4, <1>5 DEF EntryFits
<1>7. SessionHorizon'
  <2> SUFFICES ASSUME NEW x \in Jwt, exp'[x] # Never
               PROVE  exp'[x] <= since'[x] + RefreshTtl + AccessTtl
    BY DEF SessionHorizon
  <2>1. CASE x = j
    BY <1>1, <1>4, <2>1, TokensAssumption, SMT
  <2>2. CASE x # j
    BY <1>4, <2>2 DEF SessionHorizon
  <2> QED
    BY <2>1, <2>2
<1> QED
  BY <1>3, <1>6, <1>7

\* A new entry in the blacklist.
LEMMA StoredInv ==
  ASSUME TypeOK, EntryFits, NEW j \in Jwt, Stored(j), UNCHANGED exp
  PROVE  redis' \in [Key -> Nat \cup {Never}] /\ EntryFits'
<1>v. PICK v \in Recent :
        /\ Ttl(j, v) > 0
        /\ redis' = [redis EXCEPT ![<<"blacklist:jwti", j>>] = now + Ttl(j, v) * Ticks]
  BY DEF Stored
<1> DEFINE e == now + Ttl(j, v) * Ticks
<1>1. /\ Ttl(j, v) \in Int /\ e \in Int
      /\ e <= exp[j] * Ticks + Lag
      /\ exp[j] * Ticks < e + Ticks
  BY StoredFits
<1>2. e \in Nat
  <2>1. now \in Nat
    BY TokensAssumption, SMT DEF TypeOK, Time
  <2>2. Ttl(j, v) \in Nat
    BY <1>1, <1>v, SMT
  <2> QED
    BY <2>1, <2>2, TokensAssumption, SMT
<1>3. redis' = [redis EXCEPT ![<<"blacklist:jwti", j>>] = e]
  BY <1>v
<1> HIDE DEF e
<1>4. redis' \in [Key -> Nat \cup {Never}]
  BY <1>2, <1>3 DEF TypeOK
<1>5. EntryFits'
  <2> SUFFICES ASSUME NEW x \in Jwt, redis'[<<"blacklist:jwti", x>>] # Never
               PROVE  /\ redis'[<<"blacklist:jwti", x>>] <= exp[x] * Ticks + Lag
                      /\ exp[x] * Ticks < redis'[<<"blacklist:jwti", x>>] + Ticks
    BY DEF EntryFits
  <2>1. <<"blacklist:jwti", x>> \in Key /\ <<"blacklist:jwti", j>> \in Key
    BY DEF Key
  <2>2. CASE x = j
    <3>1. redis'[<<"blacklist:jwti", x>>] = e
      BY <1>3, <2>1, <2>2 DEF TypeOK
    <3> QED
      BY <1>1, <2>2, <3>1
  <2>3. CASE x # j
    <3>1. redis'[<<"blacklist:jwti", x>>] = redis[<<"blacklist:jwti", x>>]
      BY <1>3, <2>1, <2>3 DEF TypeOK
    <3> QED
      BY <3>1 DEF EntryFits
  <2> QED
    BY <2>2, <2>3
<1> QED
  BY <1>4, <1>5

\* Steps that leave tokens and entries alone.
LEMMA ClockInv ==
  ASSUME EntryFits, SessionHorizon, UNCHANGED <<exp, since, redis>>
  PROVE  EntryFits' /\ SessionHorizon'
BY DEF EntryFits, SessionHorizon

LEMMA EndSessionTyping ==
  ASSUME TypeOK, EndSession
  PROVE  /\ refresh' \in 0..LastSecond \cup {Never}
         /\ orphans' \in Nat
         /\ refresh' = Never
BY DEF TypeOK, EndSession

LEMMA SignInInv ==
  ASSUME Inv, NEW j \in Jwt, SignIn(j)
  PROVE  Inv'
<1>1. TypeOK /\ RefreshFounded /\ EntryFits /\ SessionHorizon
  BY DEF Inv
<1>2. Second \in Nat /\ Second <= MaxTime
  BY <1>1, SecondIsSmall
<1>3. /\ Second \in 0..LastSecond
      /\ Second + RefreshTtl \in 0..LastSecond
      /\ Second <= Second + RefreshTtl
  BY <1>2, TokensAssumption, SMT DEF LastSecond
<1>4. PICK s \in 0..LastSecond : s = Second
  BY <1>3
<1>5. /\ exp' \in [Jwt -> 0..LastSecond \cup {Never}]
      /\ since' \in [Jwt -> 0..LastSecond]
      /\ EntryFits' /\ SessionHorizon'
  BY <1>1, <1>3, <1>4, IssueInv DEF SignIn
<1>6. TypeOK'
  BY <1>1, <1>3, <1>5 DEF TypeOK, SignIn
<1>7. RefreshFounded'
  BY <1>1 DEF RefreshFounded, SignIn
<1> QED
  BY <1>5, <1>6, <1>7 DEF Inv

LEMMA RequestInv ==
  ASSUME Inv, NEW r \in Request,
         \/ RefuseRefresh(r) \/ Blacklist(r) \/ SignOutThrows(r) \/ ClearRefresh(r)
         \/ \E j \in Jwt : BeginRefresh(r, j) \/ FinishRefresh(r, j) \/ BeginSignOut(r, j)
  PROVE  Inv'
<1>i. TypeOK /\ RefreshFounded /\ EntryFits /\ SessionHorizon
  BY DEF Inv
<1>1. CASE RefuseRefresh(r)
  <2>1. TypeOK'
    BY <1>i, <1>1, EndTyping DEF RefuseRefresh, TypeOK
  <2>2. RefreshFounded'
    BY <1>i, <1>1, EndFounded DEF RefuseRefresh, RefreshFounded
  <2> QED
    BY <1>i, <1>1, <2>1, <2>2, ClockInv DEF RefuseRefresh, Inv
<1>2. CASE Blacklist(r)
  <2>1. req[r] \in Leaving /\ req[r].jwt \in Jwt
    BY <1>i, <1>2, RequestParts DEF Blacklist, Leaving
  <2>2. redis' \in [Key -> Nat \cup {Never}] /\ EntryFits'
    BY <1>i, <1>2, <2>1, StoredInv DEF Blacklist
  <2>3. [req[r] EXCEPT !.op = "clear"] \in Leaving
    BY <2>1 DEF Leaving
  <2>4. TypeOK'
    BY <1>i, <1>2, <2>1, <2>2, <2>3 DEF Blacklist, TypeOK
  <2>5. RefreshFounded'
    <3>1. req'[r] = [req[r] EXCEPT !.op = "clear"]
      BY <1>i, <1>2 DEF Blacklist, TypeOK
    <3>2. req'[r].op # "refresh"
      BY <2>3, <3>1 DEF Leaving
    <3>3. \A x \in Request \ {r} : req'[x] = req[x]
      BY <1>i, <1>2 DEF Blacklist, TypeOK
    <3> QED
      BY <1>i, <1>2, <3>2, <3>3 DEF Blacklist, RefreshFounded
  <2>6. SessionHorizon'
    BY <1>i, <1>2 DEF Blacklist, SessionHorizon
  <2> QED
    BY <2>2, <2>4, <2>5, <2>6 DEF Inv
<1>3. CASE SignOutThrows(r)
  <2>1. TypeOK'
    BY <1>i, <1>3, EndTyping DEF SignOutThrows, TypeOK
  <2>2. RefreshFounded'
    BY <1>i, <1>3, EndFounded DEF SignOutThrows, RefreshFounded
  <2> QED
    BY <1>i, <1>3, <2>1, <2>2, ClockInv DEF SignOutThrows, Inv
<1>4. CASE ClearRefresh(r)
  <2>1. TypeOK'
    BY <1>i, <1>4, EndTyping, EndSessionTyping DEF ClearRefresh, TypeOK
  <2>2. RefreshFounded'
    BY <1>i, <1>4, EndFounded, EndSessionTyping DEF ClearRefresh, RefreshFounded
  <2> QED
    BY <1>i, <1>4, <2>1, <2>2, ClockInv DEF ClearRefresh, Inv
<1>5. ASSUME NEW j \in Jwt, BeginRefresh(r, j)
      PROVE  Inv'
  <2> DEFINE t == [op |-> "refresh", found |-> refresh, since |-> started]
  <2>1. t \in Refreshing
    BY <1>i, <1>5 DEF BeginRefresh, TypeOK, Refreshing
  <2>2. TypeOK'
    BY <1>i, <1>5, <2>1 DEF BeginRefresh, TypeOK
  <2>3. RefreshFounded'
    <3>1. t.found = t.since + RefreshTtl
      BY <1>i, <1>5 DEF BeginRefresh, RefreshFounded
    <3>2. req'[r] = t
      BY <1>i, <1>5 DEF BeginRefresh, TypeOK
    <3>3. \A x \in Request \ {r} : req'[x] = req[x]
      BY <1>i, <1>5 DEF BeginRefresh, TypeOK
    <3> HIDE DEF t
    <3> QED
      BY <1>i, <1>5, <3>1, <3>2, <3>3 DEF BeginRefresh, RefreshFounded
  <2> QED
    BY <1>i, <1>5, <2>2, <2>3, ClockInv DEF BeginRefresh, Inv
<1>6. ASSUME NEW j \in Jwt, FinishRefresh(r, j)
      PROVE  Inv'
  <2>1. req[r] \in Refreshing
    BY <1>i, <1>6, RequestParts DEF FinishRefresh
  <2>2. PICK s \in 0..LastSecond : s = req[r].since
    BY <2>1 DEF Refreshing
  <2>3. req[r].found \in Int /\ req[r].found = s + RefreshTtl
    BY <1>i, <1>6, <2>1, <2>2, TokensAssumption DEF FinishRefresh, RefreshFounded, Refreshing, LastSecond
  <2>4. Second <= s + RefreshTtl
    <3>1. PICK v \in Recent : v \div Ticks < req[r].found
      BY <1>6 DEF FinishRefresh
    <3>2. Second <= (v \div Ticks) + 1 /\ Second \in Int /\ v \div Ticks \in Int
      BY <1>i, <3>1, RecentTicks, NextSecond, TokensAssumption DEF Second
    <3> QED
      BY <2>3, <3>1, <3>2, SMT
  <2>5. /\ exp' \in [Jwt -> 0..LastSecond \cup {Never}]
        /\ since' \in [Jwt -> 0..LastSecond]
        /\ EntryFits' /\ SessionHorizon'
    BY <1>i, <1>6, <2>2, <2>4, IssueInv DEF FinishRefresh
  <2>6. TypeOK'
    BY <1>i, <1>6, <2>5, EndTyping DEF FinishRefresh, TypeOK
  <2>7. RefreshFounded'
    BY <1>i, <1>6, EndFounded DEF FinishRefresh, RefreshFounded
  <2> QED
    BY <2>5, <2>6, <2>7 DEF Inv
<1>7. ASSUME NEW j \in Jwt, BeginSignOut(r, j)
      PROVE  Inv'
  <2> DEFINE t == [op |-> "signOut", jwt |-> j]
  <2>1. t \in Leaving /\ t.op # "refresh"
    BY DEF Leaving
  <2>2. TypeOK'
    BY <1>i, <1>7, <2>1 DEF BeginSignOut, TypeOK
  <2>3. RefreshFounded'
    <3>1. req'[r] = t
      BY <1>i, <1>7 DEF BeginSignOut, TypeOK
    <3>2. \A x \in Request \ {r} : req'[x] = req[x]
      BY <1>i, <1>7 DEF BeginSignOut, TypeOK
    <3> HIDE DEF t
    <3> QED
      BY <1>i, <1>7, <2>1, <3>1, <3>2 DEF BeginSignOut, RefreshFounded
  <2> QED
    BY <1>i, <1>7, <2>2, <2>3, ClockInv DEF BeginSignOut, Inv
<1> QED
  BY <1>1, <1>2, <1>3, <1>4, <1>5, <1>6, <1>7

LEMMA NextInv ==
  ASSUME Inv, [Next]_vars
  PROVE  Inv'
<1>i. TypeOK /\ RefreshFounded /\ EntryFits /\ SessionHorizon
  BY DEF Inv
<1>1. ASSUME NEW j \in Jwt, CloseProfile(j) \/ CloseProfileFails(j)
      PROVE  Inv'
  <2>1. redis' \in [Key -> Nat \cup {Never}] /\ EntryFits'
    BY <1>i, <1>1, StoredInv DEF CloseProfile, CloseProfileFails
  <2>2. TypeOK'
    BY <1>i, <1>1, <2>1, EndSessionTyping DEF CloseProfile, CloseProfileFails, TypeOK
  <2>3. RefreshFounded'
    BY <1>i, <1>1, EndSessionTyping DEF CloseProfile, CloseProfileFails, RefreshFounded
  <2>4. SessionHorizon'
    BY <1>i, <1>1 DEF CloseProfile, CloseProfileFails, SessionHorizon
  <2> QED
    BY <2>1, <2>2, <2>3, <2>4 DEF Inv
<1>2. CASE SignInElsewhere
  <2>1. TypeOK'
    BY <1>i, <1>2, EndSessionTyping DEF SignInElsewhere, TypeOK
  <2>2. RefreshFounded'
    BY <1>i, <1>2, EndSessionTyping DEF SignInElsewhere, RefreshFounded
  <2> QED
    BY <1>i, <1>2, <2>1, <2>2, ClockInv DEF SignInElsewhere, Inv
<1>3. CASE Tick
  <2>1. now' \in Time
    BY <1>i, <1>3, TokensAssumption, SMT DEF Tick, TypeOK, Time
  <2>2. TypeOK'
    BY <1>i, <1>3, <2>1 DEF Tick, TypeOK
  <2>3. RefreshFounded'
    BY <1>i, <1>3 DEF Tick, RefreshFounded
  <2> QED
    BY <1>i, <1>3, <2>2, <2>3, ClockInv DEF Tick, Inv
<1>4. CASE UNCHANGED vars
  BY <1>i, <1>4, ClockInv DEF vars, Inv, TypeOK, RefreshFounded
<1> QED
  BY <1>1, <1>2, <1>3, <1>4, SignInInv, RequestInv DEF Next

-----------------------------------------------------------------------------
(* Refreshes in flight after the session has ended                          *)

Refreshers == {r \in Request : req[r].op = "refresh"}

LEMMA RefreshersCounted ==
  /\ IsFiniteSet(Refreshers) /\ Cardinality(Refreshers) \in Nat
  /\ Cardinality(Request) \in Nat
  /\ \A S \in SUBSET Refreshers : /\ Cardinality(S) \in Nat
                                  /\ Cardinality(S) <= Cardinality(Refreshers)
  /\ \A S \in SUBSET Request : /\ Cardinality(S) \in Nat
                               /\ Cardinality(S) <= Cardinality(Request)
  /\ \A r \in Refreshers : Cardinality(Refreshers \ {r}) = Cardinality(Refreshers) - 1
<1>1. IsFiniteSet(Request)
  BY TokensAssumption
<1>2. Refreshers \in SUBSET Request
  BY DEF Refreshers
<1>3. IsFiniteSet(Refreshers)
  BY <1>1, <1>2, FS_Subset
<1>4. \A S \in SUBSET Request : /\ Cardinality(S) \in Nat
                               /\ Cardinality(S) <= Cardinality(Request)
  BY <1>1, FS_Subset, FS_CardinalityType
<1>5. \A S \in SUBSET Refreshers : /\ Cardinality(S) \in Nat
                                  /\ Cardinality(S) <= Cardinality(Refreshers)
  BY <1>3, FS_Subset, FS_CardinalityType
<1>6. \A r \in Refreshers : Cardinality(Refreshers \ {r}) = Cardinality(Refreshers) - 1
  BY <1>3, FS_RemoveElement
<1> QED
  BY <1>1, <1>3, <1>4, <1>5, <1>6, FS_CardinalityType

LEMMA StopsParts == RefreshStops <=> (refresh = Never =>
                      orphans + Cardinality(Refreshers) <= Cardinality(Request))
BY DEF RefreshStops, Refreshers

\* The session ends, or has ended, and no refresh begins.
LEMMA NoneBegins ==
  ASSUME TypeOK, RefreshStops, Refreshers' \subseteq Refreshers,
         EndSession \/ UNCHANGED <<refresh, orphans>>
  PROVE  RefreshStops'
<1> SUFFICES ASSUME refresh' = Never
             PROVE  orphans' + Cardinality(Refreshers') <= Cardinality(Request)
  BY DEF RefreshStops, Refreshers
<1>1. orphans \in Nat
  BY DEF TypeOK
<1>2. Refreshers' \in SUBSET Refreshers /\ Refreshers' \in SUBSET Request
  BY DEF Refreshers
<1>3. CASE refresh # Never
  <2>1. orphans' = 0
    BY <1>3 DEF EndSession
  <2> QED
    BY <1>2, <2>1, RefreshersCounted
<1>4. CASE refresh = Never
  <2>1. orphans' = orphans
    BY <1>4 DEF EndSession
  <2>2. orphans + Cardinality(Refreshers) <= Cardinality(Request)
    BY <1>4, StopsParts
  <2>3. /\ Cardinality(Refreshers') \in Nat /\ Cardinality(Refreshers) \in Nat
        /\ Cardinality(Request) \in Nat
        /\ Cardinality(Refreshers') <= Cardinality(Refreshers)
    BY <1>2, RefreshersCounted
  <2> QED
    BY <1>1, <2>1, <2>2, <2>3
<1> QED
  BY <1>3, <1>4

\* A refresh in flight becomes an access token.
LEMMA OneLessInFlight ==
  ASSUME TypeOK, RefreshStops, NEW r \in Request, NEW j \in Jwt, FinishRefresh(r, j)
  PROVE  RefreshStops'
<1> SUFFICES ASSUME refresh' = Never
             PROVE  orphans' + Cardinality(Refreshers') <= Cardinality(Request)
  BY DEF RefreshStops, Refreshers
<1>1. refresh = Never /\ orphans' = orphans + 1 /\ orphans \in Nat
  BY DEF FinishRefresh, TypeOK
<1>2. r \in Refreshers
  BY DEF FinishRefresh, Refreshers
<1>3. Refreshers' = Refreshers \ {r}
  BY DEF FinishRefresh, End, Refreshers, Idle, TypeOK
<1>4. Cardinality(Refreshers') = Cardinality(Refreshers) - 1
  BY <1>2, <1>3, RefreshersCounted
<1>5. orphans + Cardinality(Refreshers) <= Cardinality(Request)
  BY <1>1, StopsParts
<1>6. Cardinality(Refreshers) \in Nat /\ Cardinality(Request) \in Nat
  BY RefreshersCounted
<1> QED
  BY <1>1, <1>4, <1>5, <1>6

LEMMA NextStops ==
  ASSUME Inv, RefreshStops, [Next]_vars
  PROVE  RefreshStops'
<1>i. TypeOK
  BY DEF Inv
<1>1. ASSUME NEW j \in Jwt, SignIn(j)
      PROVE  RefreshStops'
  <2>1. refresh' # Never
    <3>1. Second \in Nat
      BY <1>i, SecondIsSmall
    <3> QED
      BY <1>1, <3>1, TokensAssumption DEF SignIn, Never
  <2> QED
    BY <2>1 DEF RefreshStops
<1>2. ASSUME \/ SignInElsewhere
             \/ Tick
             \/ \E j \in Jwt : CloseProfile(j) \/ CloseProfileFails(j)
             \/ UNCHANGED vars
      PROVE  RefreshStops'
  <2>1. UNCHANGED req
    BY <1>2 DEF SignInElsewhere, Tick, CloseProfile, CloseProfileFails, vars
  <2>2. EndSession \/ UNCHANGED <<refresh, orphans>>
    BY <1>2 DEF SignInElsewhere, Tick, CloseProfile, CloseProfileFails, vars
  <2>3. Refreshers' = Refreshers
    BY <2>1 DEF Refreshers
  <2> QED
    BY <1>i, <2>2, <2>3, NoneBegins
<1>3. ASSUME NEW r \in Request,
             RefuseRefresh(r) \/ SignOutThrows(r) \/ ClearRefresh(r)
      PROVE  RefreshStops'
  <2>1. End(r) /\ (EndSession \/ UNCHANGED <<refresh, orphans>>)
    BY <1>3 DEF RefuseRefresh, SignOutThrows, ClearRefresh
  <2>2. Refreshers' \subseteq Refreshers
    BY <1>i, <2>1 DEF End, Refreshers, Idle, TypeOK
  <2> QED
    BY <1>i, <2>1, <2>2, NoneBegins
<1>4. ASSUME NEW r \in Request, Blacklist(r)
      PROVE  RefreshStops'
  <2>1. req[r] \in Leaving
    BY <1>i, <1>4, RequestParts DEF Blacklist
  <2>2. [req[r] EXCEPT !.op = "clear"].op = "clear"
    BY <2>1 DEF Leaving
  <2>3. Refreshers' \subseteq Refreshers
    BY <1>i, <1>4, <2>2 DEF Blacklist, Refreshers, TypeOK
  <2> QED
    BY <1>i, <1>4, <2>3, NoneBegins DEF Blacklist
<1>5. ASSUME NEW r \in Request, NEW j \in Jwt, BeginSignOut(r, j)
      PROVE  RefreshStops'
  <2>1. Refreshers' \subseteq Refreshers
    BY <1>i, <1>5 DEF BeginSignOut, Refreshers, TypeOK
  <2> QED
    BY <1>i, <1>5, <2>1, NoneBegins DEF BeginSignOut
<1>6. ASSUME NEW r \in Request, NEW j \in Jwt, BeginRefresh(r, j)
      PROVE  RefreshStops'
  BY <1>6 DEF BeginRefresh, RefreshStops
<1> QED
  BY <1>i, <1>1, <1>2, <1>3, <1>4, <1>5, <1>6, OneLessInFlight DEF Next

-----------------------------------------------------------------------------
(* The theorems                                                             *)

LEMMA TokensInvariant == Spec => []Inv
<1>1. Inv /\ [Next]_vars => Inv'
  BY NextInv
<1> QED
  BY <1>1, InitInv, PTL DEF Spec

\* Every variable keeps its type: a refresh in flight carries the second of a
\* refresh token that was there.
THEOREM TokensTypeCorrect == Spec => []TypeOK
<1>1. Inv => TypeOK
  BY DEF Inv
<1> QED
  BY <1>1, TokensInvariant, PTL

\* No chain of refreshes outlives its sign-in by more than one access token.
THEOREM SessionsEnd == Spec => []SessionHorizon
<1>1. Inv => SessionHorizon
  BY DEF Inv
<1> QED
  BY <1>1, TokensInvariant, PTL

\* Whatever the tick at which a token is blacklisted, its entry covers it but
\* for less than a second, and outlives it by no more than SETEX comes late.
THEOREM EntriesFit == Spec => []EntryFits
<1>1. Inv => EntryFits
  BY DEF Inv
<1> QED
  BY <1>1, TokensInvariant, PTL

\* After the end of a session, every refresh in flight makes one more access
\* token at most, whatever the number of requests.
THEOREM SigningOutStopsRefreshes == Spec => []RefreshStops
<1>1. Init => RefreshStops
  <2> SUFFICES ASSUME Init PROVE RefreshStops
    OBVIOUS
  <2>1. Refreshers \in SUBSET Request
    BY DEF Refreshers
  <2>2. Cardinality(Refreshers) <= Cardinality(Request) /\ Cardinality(Refreshers) \in Nat
    BY <2>1, RefreshersCounted
  <2> QED
    BY <2>2, StopsParts DEF Init
<1>2. Inv /\ RefreshStops /\ [Next]_vars => RefreshStops'
  BY NextStops
<1> QED
  BY <1>1, <1>2, TokensInvariant, PTL DEF Spec
=============================================================================
