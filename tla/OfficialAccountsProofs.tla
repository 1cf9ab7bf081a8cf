------------------------ MODULE OfficialAccountsProofs ------------------------
(***************************************************************************)
(* Theorems about OfficialAccounts, for any number of accounts, browsers   *)
(* and any lifetimes of tokens.                                            *)
(***************************************************************************)
EXTENDS OfficialAccounts, TLAPS

LEMMA NoCallType ==
    /\ NoCall \in CallStates /\ NoCall.kind = "idle"
    /\ NoCall.sets.role = Same /\ NoCall.sets.active = Same /\ NoCall.sets.mustReset = Same
<1>1. (CHOOSE u \in Usernames : TRUE) \in Usernames
  BY AccountAssumption
<1> QED BY <1>1 DEF NoCall, CallStates, Kinds, AsIs, Columns

LEMMA LateType ==
    ASSUME NEW c \in CallStates PROVE [c EXCEPT !.late = TRUE] \in CallStates
BY DEF CallStates

LEMMA SeededType ==
    ASSUME NEW row \in Accounts, NEW p \in Passwords, NEW n \in Nat
    PROVE  [row EXCEPT !.password = p, !.attempts = 0, !.lockedUntil = n] \in Accounts
BY DEF Accounts

LEMMA AsIsType == 
    AsIs \in Columns /\ AsIs.role = Same /\ AsIs.active = Same /\ AsIs.mustReset = Same
BY DEF AsIs, Columns

(* What a transaction leaves of a row that is there is a row; and so is    *)
(* what it inserts, which sends every column.                              *)
Whole(sets) ==
    /\ sets.role \in Roles /\ sets.active \in BOOLEAN /\ sets.mustReset \in BOOLEAN
    /\ sets.password \in Passwords /\ sets.attempts \in Nat /\ sets.lockedUntil \in Nat

LEMMA LaidType ==
    ASSUME NEW c \in CallStates, NEW row,
           c.kind = "create" => Whole(c.sets),
           c.kind # "create" => row \in Accounts
    PROVE  Laid(c, row) \in Accounts
<1>1. c.sets \in Columns
  BY DEF CallStates
<1>2. CASE c.kind = "create"
  BY <1>1, <1>2 DEF Laid, Sent, Accounts, Columns, Whole
<1>3. CASE c.kind # "create"
  BY <1>1, <1>3 DEF Laid, Sent, Accounts, Columns
<1> QED BY <1>2, <1>3

-----------------------------------------------------------------------------
(* A request that is to change a row was decided on one that exists, and   *)
(* rows are never deleted; one that inserts sends every column.            *)
CallSound(b) ==
    /\ call[b].kind = "create" => Whole(call[b].sets)
    /\ ~Idle(b) /\ call[b].kind # "create" => Exists(call[b].on)
    /\ call[b].kind \in {"login", "refresh"} => call[b].seen \in Accounts
    /\ call[b].kind \notin {"create", "update"} =>
          call[b].sets.role = Same /\ call[b].sets.active = Same
    /\ call[b].kind # "create" => call[b].sets.mustReset \in {FALSE, Same}

CallsSound == \A b \in Browsers : CallSound(b)

IInv == TypeOK /\ CallsSound

LEMMA InitInv == Init => IInv
<1> SUFFICES ASSUME Init PROVE IInv
  OBVIOUS
<1>1. now \in 0 .. MaxTime
  BY TimeAssumption DEF Init
<1>2. account \in [Usernames -> Accounts \cup {NoAccount}]
  BY AccountAssumption DEF Init
<1>3. stood \in [Usernames -> [Roles -> Nat]]
  BY DEF Init
<1>4. call \in [Browsers -> CallStates]
  BY NoCallType DEF Init
<1>5. session \in [Browsers -> [access : BearerTokens \cup {NoToken},
                                refresh : BearerTokens \cup {NoToken}]]
  BY DEF Init, NoSession
<1>6. CallsSound
  BY NoCallType DEF Init, CallsSound, CallSound, Idle
<1> QED BY <1>1, <1>2, <1>3, <1>4, <1>5, <1>6 DEF IInv, TypeOK

(* A request that has been decided on.                                     *)
LEMMA DecideInv ==
    ASSUME IInv, NEW b \in Browsers, NEW kind \in Kinds, NEW u \in Usernames,
           NEW sets \in Columns, Decide(b, kind, u, sets),
           kind = "create" => Whole(sets),
           kind # "create" => Exists(u),
           kind \notin {"create", "update"} => sets.role = Same /\ sets.active = Same,
           kind # "create" => sets.mustReset \in {FALSE, Same}
    PROVE  IInv'
<1> DEFINE new == [kind |-> kind, on |-> u, sets |-> sets, late |-> FALSE,
                   seen |-> IF kind \in {"login", "failed", "refresh"} THEN account[u]
                            ELSE NoAccount]
<1>1. new \in CallStates
  BY DEF CallStates, IInv, TypeOK
<1>2. call' = [call EXCEPT ![b] = new] /\ UNCHANGED <<now, account, session, stood>>
  BY DEF Decide
<1>3. TypeOK'
  BY <1>1, <1>2 DEF IInv, TypeOK
<1>4. CallsSound'
  <2> SUFFICES ASSUME NEW o \in Browsers PROVE CallSound(o)'
    BY DEF CallsSound
  <2>1. CASE o = b
    <3>1. call'[o] = new
      BY <1>2, <2>1 DEF IInv, TypeOK
    <3>2. kind # "create" => account[u] \in Accounts
      BY DEF Exists, IInv, TypeOK
    <3>3. /\ call'[b].kind = kind /\ call'[b].on = u /\ call'[b].sets = sets
          /\ kind \in {"login", "refresh"} => call'[b].seen = account[u]
      BY <2>1, <3>1
    <3>4. account'[u] = account[u] /\ (Exists(u) => account[u] # NoAccount)
      BY <1>2 DEF Exists
    <3> HIDE DEF new
    <3>5. kind \in {"login", "refresh"} => call'[b].seen \in Accounts
      BY <3>2, <3>3
    <3>6. ~(call'[b].kind = "idle") /\ kind # "create" => account'[call'[b].on] # NoAccount
      BY <3>3, <3>4
    <3> QED BY <2>1, <3>3, <3>5, <3>6 DEF CallSound, Exists, Idle
  <2>2. CASE o # b
    <3>1. call'[o] = call[o]
      BY <1>2, <2>2 DEF IInv, TypeOK
    <3> QED BY <1>2, <3>1 DEF CallSound, Exists, IInv, CallsSound, Idle, Whole
  <2> QED BY <2>1, <2>2
<1> QED BY <1>3, <1>4 DEF IInv

(* A step after which the browsers' requests are the same, over, or only   *)
(* late, and no account is gone.                                           *)
LEMMA SettleInv ==
    ASSUME IInv,
           (now \in 0 .. MaxTime)',
           (account \in [Usernames -> Accounts \cup {NoAccount}])',
           (session \in [Browsers -> [access : BearerTokens \cup {NoToken},
                                      refresh : BearerTokens \cup {NoToken}]])',
           (stood \in [Usernames -> [Roles -> Nat]])',
           \A u \in Usernames : Exists(u) => Exists(u)',
           call' \in [Browsers -> CallStates],
           \A b \in Browsers : \/ call'[b] = call[b]
                               \/ call'[b] = NoCall
                               \/ call'[b] = [call[b] EXCEPT !.late = TRUE]
    PROVE  IInv'
<1>1. TypeOK'
  BY DEF TypeOK
<1>2. CallsSound'
  <2> SUFFICES ASSUME NEW b \in Browsers PROVE CallSound(b)'
    BY DEF CallsSound
  <2>1. call[b] \in CallStates
    BY DEF IInv, TypeOK
  <2>2. \/ call'[b] = NoCall
        \/ /\ call'[b].kind = call[b].kind /\ call'[b].sets = call[b].sets
           /\ call'[b].on = call[b].on /\ call'[b].seen = call[b].seen
    BY <2>1 DEF CallStates
  <2>3. call[b].on \in Usernames
    BY <2>1 DEF CallStates
  <2>4. Exists(call[b].on) => account'[call[b].on] # NoAccount
    BY <2>3 DEF Exists
  <2>5. CallSound(b)
    BY DEF IInv, CallsSound
  <2> QED BY <2>2, <2>4, <2>5, NoCallType DEF CallSound, Idle, Whole, Exists
<1> QED BY <1>1, <1>2 DEF IInv

(* The end of a transaction that writes.                                   *)
LEMMA CommitType ==
    ASSUME IInv, NEW b \in Browsers, ~Idle(b), Commit(b)
    PROVE  /\ account' \in [Usernames -> Accounts \cup {NoAccount}]
           /\ stood' \in [Usernames -> [Roles -> Nat]]
           /\ \A u \in Usernames : Exists(u) => Exists(u)'
           /\ call' \in [Browsers -> CallStates]
           /\ \A o \in Browsers : \/ call'[o] = call[o]
                                  \/ call'[o] = NoCall
                                  \/ call'[o] = [call[o] EXCEPT !.late = TRUE]
<1> DEFINE c == call[b]
<1>1. c \in CallStates /\ c.on \in Usernames
  BY DEF IInv, TypeOK, CallStates
<1>2. account \in [Usernames -> Accounts \cup {NoAccount}] /\ now \in Nat
      /\ stood \in [Usernames -> [Roles -> Nat]] /\ call \in [Browsers -> CallStates]
  BY DEF IInv, TypeOK
<1>3. CallSound(b)
  BY DEF IInv, CallsSound
<1>4. c.kind # "create" => account[c.on] \in Accounts
  BY <1>1, <1>2, <1>3 DEF CallSound, Exists
<1>5. Laid(c, account[c.on]) \in Accounts
  BY <1>1, <1>3, <1>4, LaidType DEF CallSound
<1>6. account' = [account EXCEPT ![c.on] = Laid(c, account[c.on])]
  BY DEF Commit
<1>7. account' \in [Usernames -> Accounts \cup {NoAccount}]
  BY <1>1, <1>2, <1>5, <1>6
<1>8. \A u \in Usernames : Exists(u) => Exists(u)'
  BY <1>1, <1>2, <1>5, <1>6, AccountAssumption DEF Exists
<1>9. stood' \in [Usernames -> [Roles -> Nat]]
  BY <1>2 DEF Commit, Stands
<1>10. \A o \in Browsers : \/ call'[o] = call[o]
                           \/ call'[o] = NoCall
                           \/ call'[o] = [call[o] EXCEPT !.late = TRUE]
  BY DEF Commit, Overtaken
<1>11. \A o \in Browsers : call'[o] \in CallStates
  BY <1>2, <1>10, NoCallType, LateType
<1>12. call' \in [Browsers -> CallStates]
  BY <1>11 DEF Commit, Overtaken
<1> QED BY <1>7, <1>8, <1>9, <1>10, <1>12

(* The tokens of an account that was read.                                 *)
LEMMA PairType ==
    ASSUME NEW c \in CallStates, c.seen \in Accounts, now \in Nat
    PROVE  PairOf(c) \in [access : BearerTokens \cup {NoToken},
                          refresh : BearerTokens \cup {NoToken}]
BY TimeAssumption DEF PairOf, TokenFor, CallStates, Accounts, BearerTokens

LEMMA StepInv == IInv /\ [Next]_accountVars => IInv'
<1> SUFFICES ASSUME IInv, [Next]_accountVars PROVE IInv'
  OBVIOUS
<1> DEFINE Sessions == [access : BearerTokens \cup {NoToken}, refresh : BearerTokens \cup {NoToken}]
<1>a. /\ now \in 0 .. MaxTime /\ now \in Nat
      /\ account \in [Usernames -> Accounts \cup {NoAccount}]
      /\ call \in [Browsers -> CallStates]
      /\ session \in [Browsers -> Sessions]
      /\ stood \in [Usernames -> [Roles -> Nat]]
  BY DEF IInv, TypeOK
<1>b. \A b \in Browsers : [call EXCEPT ![b] = NoCall] \in [Browsers -> CallStates]
  BY <1>a, NoCallType
<1>c. NoSession \in Sessions
  BY DEF NoSession
<1>1. CASE Tick
  <2>1. now' \in 0 .. MaxTime
    BY <1>a, <1>1, TimeAssumption DEF Tick
  <2>2. stood' \in [Usernames -> [Roles -> Nat]]
    BY <1>a, <1>1 DEF Tick
  <2> QED BY <1>a, <1>1, <2>1, <2>2, SettleInv DEF Tick, Exists
<1>2. CASE SeedOfficials
  <2>1. \A u \in Seeded : account'[u] \in Accounts
    <3> SUFFICES ASSUME NEW u \in Seeded PROVE account'[u] \in Accounts
      OBVIOUS
    <3>1. u \in Usernames
      BY AccountAssumption
    <3>2. account[u] \in Accounts \cup {NoAccount} /\ Never \in Nat
      BY <1>a, <3>1, TimeAssumption DEF Never
    <3>3. CASE account[u] = NoAccount
      <4>1. account'[u] = [role |-> "ADMIN", active |-> TRUE, mustReset |-> FALSE,
                           password |-> SeedPassword, attempts |-> 0, lockedUntil |-> Never]
        BY <1>2, <3>1, <3>3 DEF SeedOfficials
      <4> QED BY <3>2, <4>1, AccountAssumption DEF Accounts, Roles
    <3>4. CASE account[u] # NoAccount
      <4>1. account'[u] = [account[u] EXCEPT !.password = SeedPassword, !.attempts = 0,
                                             !.lockedUntil = Never]
        BY <1>2, <3>1, <3>4 DEF SeedOfficials
      <4>2. account[u] \in Accounts /\ SeedPassword \in Passwords
        BY <3>2, <3>4, AccountAssumption
      <4>3. [account[u] EXCEPT !.password = SeedPassword, !.attempts = 0,
                               !.lockedUntil = Never] \in Accounts
        BY <3>2, <4>2, SeededType
      <4> QED BY <4>1, <4>3
    <3> QED BY <3>3, <3>4
  <2>2. \A u \in Usernames \ Seeded : account'[u] = account[u]
    BY <1>2 DEF SeedOfficials
  <2>3. account' \in [Usernames -> Accounts \cup {NoAccount}]
    <3>1. \A u \in Usernames : account'[u] \in Accounts \cup {NoAccount}
      BY <1>a, <2>1, <2>2
    <3>2. account' = [u \in Usernames |-> account'[u]]
      BY <1>2 DEF SeedOfficials
    <3> QED BY <3>1, <3>2
  <2>4. \A u \in Usernames : Exists(u) => Exists(u)'
    BY <2>1, <2>2, AccountAssumption DEF Exists
  <2>5. stood' \in [Usernames -> [Roles -> Nat]]
    BY <1>a, <1>2 DEF SeedOfficials, Stands
  <2>6. \A b \in Browsers : \/ call'[b] = call[b]
                            \/ call'[b] = [call[b] EXCEPT !.late = TRUE]
    BY <1>2, AccountAssumption DEF SeedOfficials, Overtaken
  <2>7. \A b \in Browsers : call'[b] \in CallStates
    BY <1>a, <2>6, LateType
  <2>8. call' \in [Browsers -> CallStates]
    BY <1>2, <2>7 DEF SeedOfficials, Overtaken
  <2>9. now' = now /\ session' = session
    BY <1>2 DEF SeedOfficials
  <2> QED BY <1>a, <2>3, <2>4, <2>5, <2>6, <2>8, <2>9, SettleInv
<1>3. ASSUME NEW b \in Browsers, BrowserStep(b)
      PROVE  IInv'
  <2>1. CASE \E u \in Usernames, p \in Passwords : Login(b, u, p)
    <3> PICK u \in Usernames, p \in Passwords : Login(b, u, p)
      BY <2>1
    <3> DEFINE sets == [AsIs EXCEPT !.attempts = 0]
    <3>1. sets \in Columns /\ sets.role = Same /\ sets.active = Same
          /\ sets.mustReset \in {FALSE, Same}
      BY DEF AsIs, Columns
    <3>2. Decide(b, "login", u, sets) /\ Exists(u)
      BY DEF Login
    <3> HIDE DEF sets
    <3> QED BY <3>1, <3>2, DecideInv DEF Kinds
  <2>2. CASE \E u \in Usernames, p \in Passwords : LoginFails(b, u, p)
    <3> PICK u \in Usernames, p \in Passwords : LoginFails(b, u, p)
      BY <2>2
    <3> DEFINE n == account[u].attempts + 1
               sets == [AsIs EXCEPT !.attempts = n,
                          !.lockedUntil = IF n >= MaxAttempts THEN now + LockFor ELSE @]
    <3>1. account[u] \in Accounts
      BY <1>a DEF LoginFails, Exists
    <3>2. n \in Nat /\ now + LockFor \in Nat
      BY <1>a, <3>1, TimeAssumption DEF Accounts
    <3>3. sets \in Columns /\ sets.role = Same /\ sets.active = Same
          /\ sets.mustReset \in {FALSE, Same}
      BY <3>2 DEF AsIs, Columns
    <3>4. Decide(b, "failed", u, sets) /\ Exists(u)
      BY DEF LoginFails
    <3> HIDE DEF sets
    <3> QED BY <3>3, <3>4, DecideInv DEF Kinds
  <2>3. CASE \E u \in Usernames, r \in NewRoles : CreateOfficial(b, u, r)
    <3> PICK u \in Usernames, r \in NewRoles : CreateOfficial(b, u, r)
      BY <2>3
    <3> DEFINE sets == [role |-> r, active |-> TRUE, mustReset |-> TRUE,
                        password |-> TemporaryPassword, attempts |-> 0, lockedUntil |-> Never]
    <3>1. sets \in Columns /\ Whole(sets)
      BY AccountAssumption, TimeAssumption DEF Columns, Whole, Never
    <3>2. Decide(b, "create", u, sets)
      BY DEF CreateOfficial
    <3> HIDE DEF sets
    <3> QED BY <3>1, <3>2, DecideInv DEF Kinds
  <2>4. CASE \E u \in Usernames, c \in Changes : UpdateOfficial(b, u, c)
    BY <2>4, DecideInv, AccountAssumption DEF UpdateOfficial, Kinds
  <2>5. CASE \E u \in Usernames, active \in BOOLEAN : SetActive(b, u, active)
    <3> PICK u \in Usernames, active \in BOOLEAN : SetActive(b, u, active)
      BY <2>5
    <3> DEFINE sets == [AsIs EXCEPT !.active = active]
    <3>1. sets \in Columns /\ sets.mustReset = Same
      BY DEF AsIs, Columns
    <3>2. Decide(b, "update", u, sets) /\ Exists(u)
      BY DEF SetActive
    <3> HIDE DEF sets
    <3> QED BY <3>1, <3>2, DecideInv DEF Kinds
  <2>6. CASE \E p, q \in Passwords : ChangePassword(b, p, q)
    <3> PICK p \in Passwords, q \in Passwords : ChangePassword(b, p, q)
      BY <2>6
    <3> PICK token \in Bearer(b) :
              Exists(token.sub) /\ Decide(b, "password", token.sub,
                                         [AsIs EXCEPT !.password = q, !.mustReset = FALSE])
      BY DEF ChangePassword
    <3> DEFINE sets == [AsIs EXCEPT !.password = q, !.mustReset = FALSE]
               u == token.sub
    <3>1. sets \in Columns /\ sets.role = Same /\ sets.active = Same
          /\ sets.mustReset \in {FALSE, Same}
      BY DEF AsIs, Columns
    <3>2. u \in Usernames
      BY <1>a DEF Bearer, Decodes, BearerTokens
    <3>3. Decide(b, "password", u, sets) /\ Exists(u)
      OBVIOUS
    <3> HIDE DEF sets, u
    <3> QED BY <3>1, <3>2, <3>3, DecideInv DEF Kinds
  <2>7. CASE Refresh(b)
    <3>1. session[b].refresh.sub \in Usernames
      BY <1>a, <2>7 DEF Refresh, Decodes, BearerTokens
    <3> QED BY <2>7, <3>1, AsIsType, DecideInv DEF Refresh, Kinds
  <2>8. CASE AnswerLogin(b)
    <3>1. ~Idle(b) /\ Commit(b) /\ now' = now
      BY <2>8 DEF AnswerLogin, Idle
    <3>2. call[b] \in CallStates /\ call[b].seen \in Accounts
      BY <1>a, <2>8 DEF AnswerLogin, IInv, CallsSound, CallSound
    <3>3. session' \in [Browsers -> Sessions]
      BY <1>a, <2>8, <3>2, PairType DEF AnswerLogin
    <3> QED BY <1>a, <3>1, <3>3, CommitType, SettleInv
  <2>9. CASE AnswerRefresh(b)
    <3>1. call[b] \in CallStates /\ call[b].seen \in Accounts
      BY <1>a, <2>9 DEF AnswerRefresh, IInv, CallsSound, CallSound
    <3>2. session' \in [Browsers -> Sessions]
      BY <1>a, <2>9, <3>1, PairType DEF AnswerRefresh
    <3> QED BY <1>a, <1>b, <2>9, <3>2, SettleInv DEF AnswerRefresh, Exists
  <2>10. CASE AnswerWrite(b)
    <3>1. ~Idle(b) /\ Commit(b) /\ now' = now /\ session' = session
      BY <2>10 DEF AnswerWrite, Idle
    <3> QED BY <1>a, <3>1, CommitType, SettleInv
  <2>11. CASE AnswerFailed(b) \/ Fail(b)
    BY <1>a, <1>b, <2>11, SettleInv DEF AnswerFailed, Fail, Exists
  <2>12. CASE Guard(b) \/ Logout(b)
    <3>1. session' \in [Browsers -> Sessions]
      BY <1>a, <1>c, <2>12 DEF Guard, Logout, EndSession
    <3> QED BY <1>a, <2>12, <3>1, SettleInv DEF Guard, Logout, EndSession, Exists
  <2> QED BY <1>3, <2>1, <2>2, <2>3, <2>4, <2>5, <2>6, <2>7, <2>8, <2>9, <2>10, <2>11, <2>12
          DEF BrowserStep
<1>4. CASE UNCHANGED accountVars
  BY <1>a, <1>4, SettleInv DEF accountVars, Exists
<1> QED BY <1>1, <1>2, <1>3, <1>4 DEF Next

(* Every behaviour of the accounts is well typed.                          *)
THEOREM TypeCorrect == Spec => []TypeOK
<1>1. IInv => TypeOK
  BY DEF IInv
<1> QED BY InitInv, StepInv, <1>1, PTL DEF Spec

-----------------------------------------------------------------------------
(* An account only changes by an administrator's decision, a login, a new  *)
(* password or the seeding, and the latter three leave role and activity.  *)
THEOREM OfficialDecisionsStand == Spec => DecisionsStand
<1> DEFINE A == \A u \in Usernames :
         Exists(u) /\ account'[u] # account[u] =>
           \/ account'[u].active = account[u].active /\ account'[u].role = account[u].role
           \/ \E b \in Browsers : call[b].kind = "update" /\ call[b].on = u
                                /\ call'[b].kind = "idle"
                                /\ \/ call[b].sets.active # Same
                                   \/ call[b].sets.role # Same
<1>1. ASSUME IInv, Next PROVE A
  <2> SUFFICES ASSUME NEW u \in Usernames, Exists(u), account'[u] # account[u]
               PROVE  \/ account'[u].active = account[u].active /\ account'[u].role = account[u].role
                      \/ \E b \in Browsers : call[b].kind = "update" /\ call[b].on = u
                                /\ call'[b].kind = "idle"
                                /\ \/ call[b].sets.active # Same
                                   \/ call[b].sets.role # Same
    OBVIOUS
  <2>a. account \in [Usernames -> Accounts \cup {NoAccount}] /\ account[u] \in Accounts
        /\ call \in [Browsers -> CallStates]
    BY <1>1 DEF IInv, TypeOK, Exists
  <2>1. CASE SeedOfficials
    <3>1. account'[u] = [account[u] EXCEPT !.password = SeedPassword, !.attempts = 0,
                                           !.lockedUntil = Never]
      BY <2>1 DEF SeedOfficials, Exists
    <3> QED BY <2>a, <3>1 DEF Accounts
  <2>2. ASSUME NEW b \in Browsers, ~Idle(b), Commit(b)
        PROVE  \/ account'[u].active = account[u].active /\ account'[u].role = account[u].role
               \/ /\ call[b].kind = "update" /\ call[b].on = u /\ call'[b].kind = "idle"
                  /\ call[b].sets.active # Same \/ call[b].sets.role # Same
    <3>1. call[b].on = u /\ account'[u] = Laid(call[b], account[u]) /\ call'[b] = NoCall
      BY <2>a, <2>2 DEF Commit, Overtaken
    <3>2. call[b].kind # "create"
      BY <2>2, <3>1 DEF Commit, NameFree
    <3>3. CASE call[b].kind = "update"
      BY <3>1, <3>2, <3>3, NoCallType DEF Laid, Sent
    <3>4. CASE call[b].kind # "update"
      <4>1. call[b].sets.active = Same /\ call[b].sets.role = Same
        BY <1>1, <2>2, <3>2, <3>4 DEF IInv, CallsSound, CallSound
      <4> QED BY <3>1, <3>2, <4>1 DEF Laid, Sent
    <3> QED BY <3>3, <3>4
  <2>3. ASSUME NEW b \in Browsers, BrowserStep(b)
        PROVE  ~Idle(b) /\ Commit(b)
    <3>1. AnswerLogin(b) \/ AnswerWrite(b)
      BY <2>3 DEF BrowserStep, Login, LoginFails, CreateOfficial, UpdateOfficial, SetActive,
                  ChangePassword, Refresh, Decide, AnswerRefresh, AnswerFailed, Fail, Guard,
                  Logout, EndSession
    <3> QED BY <3>1 DEF AnswerLogin, AnswerWrite, Idle
  <2>4. ~Tick
    BY DEF Tick
  <2> QED BY <1>1, <2>1, <2>2, <2>3, <2>4 DEF Next
<1>2. IInv /\ [Next]_accountVars => [A]_accountVars
  BY <1>1
<1> QED BY <1>2, InitInv, StepInv, PTL DEF Spec, DecisionsStand

(* A password that was chosen is not replaced by a temporary one: the      *)
(* unique index refuses the second account of a name.                      *)
THEOREM OfficialPasswordStays == Spec => ChosenPasswordStays
<1> DEFINE A == \A u \in Usernames :
                  Exists(u) /\ ~account[u].mustReset => Exists(u)' /\ ~account'[u].mustReset
<1>1. ASSUME IInv, Next PROVE A
  <2> SUFFICES ASSUME NEW u \in Usernames, Exists(u), ~account[u].mustReset
               PROVE  Exists(u)' /\ ~account'[u].mustReset
    OBVIOUS
  <2>a. account \in [Usernames -> Accounts \cup {NoAccount}] /\ account[u] \in Accounts
        /\ call \in [Browsers -> CallStates]
    BY <1>1 DEF IInv, TypeOK, Exists
  <2>0. ~account[u].mustReset
    OBVIOUS
  <2>1. CASE account'[u] = account[u]
    BY <2>1 DEF Exists
  <2>2. CASE SeedOfficials
    <3>1. account'[u] \in {account[u], [account[u] EXCEPT !.password = SeedPassword,
                                          !.attempts = 0, !.lockedUntil = Never]}
      BY <2>2 DEF SeedOfficials, Exists
    <3>2. [account[u] EXCEPT !.password = SeedPassword, !.attempts = 0, !.lockedUntil = Never]
             \in Accounts
      <4>1. SeedPassword \in Passwords /\ Never \in Nat
        BY AccountAssumption, TimeAssumption DEF Never
      <4> QED BY <2>a, <4>1, SeededType
    <3>3. [account[u] EXCEPT !.password = SeedPassword, !.attempts = 0,
                             !.lockedUntil = Never].mustReset = account[u].mustReset
      BY <2>a DEF Accounts
    <3>4. NoAccount \notin Accounts
      BY AccountAssumption
    <3>5. CASE account'[u] = account[u]
      BY <3>5 DEF Exists
    <3>6. CASE account'[u] # account[u]
      BY <3>1, <3>2, <3>3, <3>4, <3>6 DEF Exists
    <3> QED BY <3>5, <3>6
  <2>3. ASSUME NEW b \in Browsers, ~Idle(b), Commit(b), call[b].on = u
        PROVE  Exists(u)' /\ ~account'[u].mustReset
    <3>1. account'[u] = Laid(call[b], account[u]) /\ call[b].kind # "create"
      BY <2>a, <2>3 DEF Commit, NameFree
    <3>2. call[b].sets.mustReset \in {FALSE, Same} /\ call[b] \in CallStates
      BY <1>1, <2>a, <3>1 DEF IInv, CallsSound, CallSound
    <3>3. account'[u] \in Accounts
      BY <2>a, <3>1, <3>2, LaidType
    <3>4. account'[u].mustReset = FALSE \/ account'[u].mustReset = account[u].mustReset
      <4>1. account'[u].mustReset = Sent(call[b].sets.mustReset, account[u].mustReset)
        BY <3>1 DEF Laid
      <4> QED BY <3>2, <4>1 DEF Sent
    <3>5. ~account'[u].mustReset
      BY <2>0, <3>4
    <3>6. NoAccount \notin Accounts
      BY AccountAssumption
    <3> QED BY <3>3, <3>5, <3>6 DEF Exists
  <2>4. ASSUME NEW b \in Browsers, BrowserStep(b), account'[u] # account[u]
        PROVE  ~Idle(b) /\ Commit(b) /\ call[b].on = u
    <3>1. AnswerLogin(b) \/ AnswerWrite(b)
      BY <2>4 DEF BrowserStep, Login, LoginFails, CreateOfficial, UpdateOfficial, SetActive,
                  ChangePassword, Refresh, Decide, AnswerRefresh, AnswerFailed, Fail, Guard,
                  Logout, EndSession
    <3> QED BY <2>a, <2>4, <3>1 DEF AnswerLogin, AnswerWrite, Idle, Commit
  <2>5. CASE Tick
    BY <2>5 DEF Tick, Exists
  <2> QED BY <1>1, <2>1, <2>2, <2>3, <2>4, <2>5 DEF Next
<1>2. IInv /\ [Next]_accountVars => [A]_accountVars
  BY <1>1
<1> QED BY <1>2, InitInv, StepInv, PTL DEF Spec, ChosenPasswordStays

-----------------------------------------------------------------------------
(* Authority.  What makes its bound inductive: an account that is active   *)
(* in a role now has stood in it until now; a request for a token that is  *)
(* not late holds the account as it is; and a token expires no later than  *)
(* its lifetime after its account last stood.                              *)
StandsNow ==
    \A u \in Usernames, r \in Roles :
        stood[u][r] <= now /\ (ActiveAs(account[u], r) => stood[u][r] = now)

ReadsHold ==
    \A b \in Browsers :
        call[b].kind \in {"login", "refresh"} /\ ~call[b].late =>
            account[call[b].on] = call[b].seen /\ call[b].seen.active

Held(token, life) ==
    token # NoToken /\ ~token.late => stood[token.sub][token.role] + life >= token.exp

TokenHolds(b) == Held(session[b].access, AccessLife) /\ Held(session[b].refresh, RefreshLife)

AInv == StandsNow /\ ReadsHold /\ \A b \in Browsers : TokenHolds(b)

LEMMA InitAuthority == Init => AInv
<1> SUFFICES ASSUME Init PROVE AInv
  OBVIOUS
<1>1. StandsNow
  BY DEF Init, StandsNow
<1>2. ReadsHold
  BY NoCallType DEF Init, ReadsHold
<1>3. \A b \in Browsers : TokenHolds(b)
  BY DEF Init, TokenHolds, Held, NoSession
<1> QED BY <1>1, <1>2, <1>3 DEF AInv

(* Nobody has stood longer ago than before.                                *)
LEMMA StoodGrows ==
    ASSUME IInv, StandsNow, now' \in Nat, now' >= now,
           \A u \in Usernames, r \in Roles : stood'[u][r] \in {stood[u][r], now'}
    PROVE  \A u \in Usernames, r \in Roles :
             stood[u][r] \in Nat /\ stood'[u][r] \in Nat /\ stood'[u][r] >= stood[u][r]
<1>1. now \in Nat /\ stood \in [Usernames -> [Roles -> Nat]]
  BY DEF IInv, TypeOK
<1> QED BY <1>1 DEF StandsNow

(* A token that a browser has had holds as long as nobody stands less.     *)
LEMMA KeptToken ==
    ASSUME IInv, NEW b \in Browsers, TokenHolds(b), session'[b] = session[b],
           \A u \in Usernames, r \in Roles :
             stood[u][r] \in Nat /\ stood'[u][r] \in Nat /\ stood'[u][r] >= stood[u][r]
    PROVE  TokenHolds(b)'
<1>1. ASSUME NEW token \in BearerTokens \cup {NoToken}, NEW life \in Nat, Held(token, life)
      PROVE  token # NoToken /\ ~token.late => stood'[token.sub][token.role] + life >= token.exp
  <2> SUFFICES ASSUME token # NoToken, ~token.late
               PROVE  stood'[token.sub][token.role] + life >= token.exp
    OBVIOUS
  <2>1. token.sub \in Usernames /\ token.role \in Roles /\ token.exp \in Nat
    BY DEF BearerTokens
  <2> QED BY <1>1, <2>1 DEF Held
<1>2. session[b].access \in BearerTokens \cup {NoToken} /\ session[b].refresh \in BearerTokens \cup {NoToken}
  BY DEF IInv, TypeOK
<1> QED BY <1>1, <1>2, TimeAssumption DEF TokenHolds, Held

LEMMA SeedingHolds ==
    ASSUME IInv, AInv, SeedOfficials PROVE AInv'
<1>4. now' = now /\ session' = session /\ stood' = Stands(Seeded)
  BY DEF SeedOfficials
<1>6. now \in Nat
  BY TimeAssumption DEF IInv, TypeOK
<1>1. \A u \in Usernames, r \in Roles : stood'[u][r] \in {stood[u][r], now'}
  BY <1>4 DEF Stands
<1>2. StandsNow'
  <2>1. \A u \in Usernames \ Seeded : account'[u] = account[u]
    BY DEF SeedOfficials
  <2>2. now' = now /\ stood' = Stands(Seeded) /\ now \in Nat
    BY <1>4, <1>6
  <2> QED BY <2>1, <2>2 DEF Stands, StandsNow, AInv
<1>3. ReadsHold'
  <2> SUFFICES ASSUME NEW b \in Browsers, call'[b].kind \in {"login", "refresh"}, ~call'[b].late
               PROVE  account'[call'[b].on] = call'[b].seen /\ call'[b].seen.active
    BY DEF ReadsHold
  <2>1. call[b] \in CallStates
    BY DEF IInv, TypeOK
  <2>2. call'[b] = call[b] /\ call[b].on \notin Seeded
    BY <2>1, AccountAssumption DEF SeedOfficials, Overtaken, CallStates
  <2>3. account'[call[b].on] = account[call[b].on]
    BY <2>1, <2>2 DEF SeedOfficials, CallStates
  <2> QED BY <2>2, <2>3 DEF AInv, ReadsHold
<1>5. \A b \in Browsers : TokenHolds(b)'
  BY <1>1, <1>4, <1>6, StoodGrows, KeptToken DEF AInv
<1> QED BY <1>2, <1>3, <1>5 DEF AInv

LEMMA CommitHolds ==
    ASSUME IInv, AInv, NEW b \in Browsers, ~Idle(b), Commit(b), now' = now
    PROVE  /\ StandsNow' /\ ReadsHold'
           /\ \A u \in Usernames, r \in Roles :
                stood[u][r] \in Nat /\ stood'[u][r] \in Nat /\ stood'[u][r] >= stood[u][r]
<1> DEFINE c == call[b]
<1>a. call \in [Browsers -> CallStates] /\ c.on \in Usernames /\ now \in Nat
      /\ account \in [Usernames -> Accounts \cup {NoAccount}]
  BY DEF IInv, TypeOK, CallStates
<1>1. \A u \in Usernames, r \in Roles : stood'[u][r] \in {stood[u][r], now'}
  BY DEF Commit, Stands
<1>2. \A u \in Usernames : u # c.on => account'[u] = account[u]
  BY <1>a DEF Commit
<1>3. StandsNow'
  BY <1>2, <1>a DEF Commit, Stands, StandsNow, AInv, IInv, TypeOK
<1>4. ReadsHold'
  <2> SUFFICES ASSUME NEW o \in Browsers, call'[o].kind \in {"login", "refresh"}, ~call'[o].late
               PROVE  account'[call'[o].on] = call'[o].seen /\ call'[o].seen.active
    BY DEF ReadsHold
  <2>1. call[o] \in CallStates
    BY <1>a
  <2>2. o # b
    BY NoCallType DEF Commit, Overtaken
  <2>3. call'[o] = call[o] /\ call[o].on # c.on
    BY <2>1, <2>2 DEF Commit, Overtaken, CallStates
  <2>4. call[o].on \in Usernames
    BY <2>1 DEF CallStates
  <2>5. account'[call[o].on] = account[call[o].on]
    BY <1>2, <2>3, <2>4
  <2> QED BY <2>3, <2>5 DEF AInv, ReadsHold
<1> QED BY <1>a, <1>1, <1>3, <1>4, StoodGrows DEF AInv

(* The token a request is answered with.                                   *)
LEMMA NewToken ==
    ASSUME IInv, AInv, NEW b \in Browsers, call[b].kind \in {"login", "refresh"},
           session'[b] = PairOf(call[b]),
           \A u \in Usernames, r \in Roles :
             stood[u][r] \in Nat /\ stood'[u][r] \in Nat /\ stood'[u][r] >= stood[u][r]
    PROVE  TokenHolds(b)'
<1> DEFINE c == call[b]
<1>0. CallSound(b) /\ c \in CallStates /\ now \in Nat
  BY TimeAssumption DEF IInv, TypeOK, CallsSound
<1>1. c \in CallStates /\ c.seen \in Accounts /\ now \in Nat
  BY <1>0 DEF CallSound
<1>2. c.on \in Usernames /\ c.seen.role \in Roles
  BY <1>1 DEF CallStates, Accounts
<1>3. /\ session'[b].access = TokenFor(c, AccessLife)
      /\ session'[b].refresh = TokenFor(c, RefreshLife)
  BY DEF PairOf
<1>4. ~c.late => ActiveAs(account[c.on], c.seen.role)
  BY <1>1, AccountAssumption DEF AInv, ReadsHold, ActiveAs
<1>5. ~c.late => stood[c.on][c.seen.role] = now
  BY <1>2, <1>4 DEF AInv, StandsNow
<1>6. ASSUME NEW life \in Nat, ~c.late
      PROVE  stood'[c.on][c.seen.role] + life >= now + life
  BY <1>1, <1>2, <1>5, <1>6
<1> QED BY <1>3, <1>6, TimeAssumption DEF TokenHolds, Held, TokenFor

LEMMA StepAuthority == IInv /\ AInv /\ [Next]_accountVars => AInv'
<1> SUFFICES ASSUME IInv, AInv, [Next]_accountVars PROVE AInv'
  OBVIOUS
<1>a. /\ now \in Nat /\ account \in [Usernames -> Accounts \cup {NoAccount}]
      /\ call \in [Browsers -> CallStates] /\ stood \in [Usernames -> [Roles -> Nat]]
      /\ DOMAIN session = Browsers
  BY DEF IInv, TypeOK
<1>1. CASE Tick
  <2>1. now' = now + 1 /\ account' = account /\ call' = call /\ session' = session
    BY <1>1 DEF Tick
  <2>2. \A u \in Usernames, r \in Roles :
          stood'[u][r] = IF ActiveAs(account[u], r) THEN now + 1 ELSE stood[u][r]
    BY <1>1 DEF Tick
  <2>3. StandsNow'
    BY <1>a, <2>1, <2>2 DEF AInv, StandsNow
  <2>4. ReadsHold'
    BY <2>1 DEF AInv, ReadsHold
  <2>5. \A u \in Usernames, r \in Roles : stood'[u][r] \in {stood[u][r], now'}
    BY <2>1, <2>2
  <2>6. \A b \in Browsers : TokenHolds(b)'
    BY <1>a, <2>1, <2>5, StoodGrows, KeptToken DEF AInv
  <2> QED BY <2>3, <2>4, <2>6 DEF AInv
<1>2. CASE SeedOfficials
  BY <1>2, SeedingHolds
<1>3. ASSUME NEW b \in Browsers, BrowserStep(b) PROVE AInv'
  <2>1. ASSUME now' = now, account' = account, stood' = stood, session' = session, ReadsHold'
        PROVE  AInv'
    <3>1. StandsNow'
      BY <2>1 DEF AInv, StandsNow
    <3>2. \A o \in Browsers : TokenHolds(o)'
      BY <2>1 DEF AInv, TokenHolds, Held
    <3> QED BY <2>1, <3>1, <3>2 DEF AInv
  <2>2. ASSUME NEW kind \in Kinds, NEW u \in Usernames, NEW sets \in Columns,
               Decide(b, kind, u, sets), kind \in {"login", "refresh"} => account[u].active
        PROVE  AInv'
    <3>1. UNCHANGED <<now, account, session, stood>>
      BY <2>2 DEF Decide
    <3>2. \A o \in Browsers : o # b => call'[o] = call[o]
      BY <1>a, <2>2 DEF Decide
    <3>3. call'[b].kind \in {"login", "refresh"} =>
            call'[b].on = u /\ call'[b].seen = account[u] /\ account[u].active
      BY <1>a, <2>2 DEF Decide
    <3>4. ReadsHold'
      BY <3>1, <3>2, <3>3 DEF AInv, ReadsHold
    <3> QED BY <2>1, <3>1, <3>4
  <2>3. CASE \E u \in Usernames, p \in Passwords : Login(b, u, p)
    <3> PICK u \in Usernames, p \in Passwords : Login(b, u, p)
      BY <2>3
    <3>1. [AsIs EXCEPT !.attempts = 0] \in Columns
      BY DEF AsIs, Columns
    <3> QED BY <2>2, <3>1 DEF Login, Kinds
  <2>4. CASE Refresh(b)
    <3>1. session[b].refresh.sub \in Usernames
      BY <2>4 DEF Refresh, Decodes, BearerTokens, IInv, TypeOK
    <3> QED BY <2>2, <2>4, <3>1, AsIsType DEF Refresh, MayRefresh, Kinds
  <2>5. ASSUME NEW kind, NEW u, NEW sets, Decide(b, kind, u, sets),
               kind \notin {"login", "refresh"}
        PROVE  AInv'
    <3>1. UNCHANGED <<now, account, session, stood>>
      BY <2>5 DEF Decide
    <3>2. \A o \in Browsers : o # b => call'[o] = call[o]
      BY <1>a, <2>5 DEF Decide
    <3>3. call'[b].kind \notin {"login", "refresh"}
      BY <1>a, <2>5 DEF Decide
    <3>4. ReadsHold'
      BY <3>1, <3>2, <3>3 DEF AInv, ReadsHold
    <3> QED BY <2>1, <3>1, <3>4
  <2>6. CASE \/ \E u \in Usernames, p \in Passwords : LoginFails(b, u, p)
             \/ \E u \in Usernames, r \in NewRoles : CreateOfficial(b, u, r)
             \/ \E u \in Usernames, c \in Changes : UpdateOfficial(b, u, c)
             \/ \E u \in Usernames, active \in BOOLEAN : SetActive(b, u, active)
             \/ \E p, q \in Passwords : ChangePassword(b, p, q)
    <3>1. ASSUME NEW u \in Usernames, NEW p \in Passwords, LoginFails(b, u, p) PROVE AInv'
      BY <2>5, <3>1 DEF LoginFails
    <3>2. ASSUME NEW u \in Usernames, NEW r \in NewRoles, CreateOfficial(b, u, r) PROVE AInv'
      BY <2>5, <3>2 DEF CreateOfficial
    <3>3. ASSUME NEW u \in Usernames, NEW c \in Changes, UpdateOfficial(b, u, c) PROVE AInv'
      BY <2>5, <3>3 DEF UpdateOfficial
    <3>4. ASSUME NEW u \in Usernames, NEW active \in BOOLEAN, SetActive(b, u, active)
          PROVE  AInv'
      BY <2>5, <3>4 DEF SetActive
    <3>5. ASSUME NEW p \in Passwords, NEW q \in Passwords, ChangePassword(b, p, q) PROVE AInv'
      BY <2>5, <3>5 DEF ChangePassword
    <3> QED BY <2>6, <3>1, <3>2, <3>3, <3>4, <3>5
  <2>7. CASE AnswerLogin(b)
    <3>1. ~Idle(b) /\ Commit(b) /\ now' = now /\ call[b].kind \in {"login", "refresh"}
      BY <2>7 DEF AnswerLogin, Idle
    <3>2. session'[b] = PairOf(call[b]) /\ \A o \in Browsers : o # b => session'[o] = session[o]
      BY <1>a, <2>7 DEF AnswerLogin
    <3>3. /\ StandsNow' /\ ReadsHold'
          /\ \A u \in Usernames, r \in Roles :
               stood[u][r] \in Nat /\ stood'[u][r] \in Nat /\ stood'[u][r] >= stood[u][r]
      BY <3>1, CommitHolds
    <3>4. TokenHolds(b)'
      BY <3>1, <3>2, <3>3, NewToken
    <3>5. \A o \in Browsers : o # b => TokenHolds(o)'
      BY <3>2, <3>3, KeptToken DEF AInv
    <3> QED BY <3>3, <3>4, <3>5 DEF AInv
  <2>8. CASE AnswerRefresh(b)
    <3>1. /\ UNCHANGED <<now, account, stood>> /\ call[b].kind \in {"login", "refresh"}
          /\ call' = [call EXCEPT ![b] = NoCall]
      BY <2>8 DEF AnswerRefresh
    <3>2. session'[b] = PairOf(call[b]) /\ \A o \in Browsers : o # b => session'[o] = session[o]
      BY <1>a, <2>8 DEF AnswerRefresh
    <3>3. StandsNow' /\ ReadsHold'
      BY <1>a, <3>1, NoCallType DEF AInv, StandsNow, ReadsHold
    <3>4. \A u \in Usernames, r \in Roles :
            stood[u][r] \in Nat /\ stood'[u][r] \in Nat /\ stood'[u][r] >= stood[u][r]
      BY <1>a, <3>1
    <3>5. TokenHolds(b)'
      BY <3>1, <3>2, <3>4, NewToken
    <3>6. \A o \in Browsers : o # b => TokenHolds(o)'
      BY <3>2, <3>4, KeptToken DEF AInv
    <3> QED BY <3>3, <3>5, <3>6 DEF AInv
  <2>9. CASE AnswerWrite(b)
    <3>1. ~Idle(b) /\ Commit(b) /\ now' = now /\ session' = session
      BY <2>9 DEF AnswerWrite, Idle
    <3>2. \A o \in Browsers : TokenHolds(o)'
      BY <3>1, CommitHolds, KeptToken DEF AInv
    <3> QED BY <3>1, <3>2, CommitHolds DEF AInv
  <2>10. CASE AnswerFailed(b) \/ Fail(b)
    <3>1. UNCHANGED <<now, account, session, stood>> /\ call' = [call EXCEPT ![b] = NoCall]
      BY <2>10 DEF AnswerFailed, Fail
    <3>2. ReadsHold'
      BY <1>a, <3>1, NoCallType DEF AInv, ReadsHold
    <3> QED BY <2>1, <3>1, <3>2
  <2>11. CASE Guard(b) \/ Logout(b)
    <3>1. UNCHANGED <<now, account, call, stood>> /\ session' = [session EXCEPT ![b] = NoSession]
      BY <2>11 DEF Guard, Logout, EndSession
    <3>2. StandsNow' /\ ReadsHold'
      BY <3>1 DEF AInv, StandsNow, ReadsHold
    <3>3. \A o \in Browsers : TokenHolds(o)'
      BY <1>a, <3>1 DEF AInv, TokenHolds, Held, NoSession
    <3> QED BY <3>2, <3>3 DEF AInv
  <2> QED BY <1>3, <2>3, <2>4, <2>6, <2>7, <2>8, <2>9, <2>10, <2>11 DEF BrowserStep
<1>4. CASE UNCHANGED accountVars
  BY <1>4 DEF accountVars, AInv, StandsNow, ReadsHold, TokenHolds, Held
<1> QED BY <1>1, <1>2, <1>3, <1>4 DEF Next

(* Deactivating an official, or taking a role away, takes effect within    *)
(* the lifetime of an access token for who presents one, and within that   *)
(* of a refresh token for who presents the refresh token instead, but for  *)
(* tokens that were on their way.                                          *)
THEOREM AuthorityEnds == Spec => []StaleAuthorityBounded
<1>1. IInv /\ AInv => StaleAuthorityBounded
  <2> SUFFICES ASSUME IInv, AInv, NEW b \in Browsers
               PROVE  /\ StoodWithin(session[b].access, AccessLife)
                      /\ StoodWithin(session[b].refresh, RefreshLife)
    BY DEF StaleAuthorityBounded
  <2>1. ASSUME NEW token \in BearerTokens \cup {NoToken}, NEW life \in Nat, Held(token, life)
        PROVE  StoodWithin(token, life)
    <3> SUFFICES ASSUME Decodes(token), ~token.late
                 PROVE  stood[token.sub][token.role] + life >= now
      BY DEF StoodWithin
    <3>1. token \in BearerTokens /\ token.exp >= now
      BY DEF Decodes
    <3>2. token.sub \in Usernames /\ token.role \in Roles /\ token.exp \in Nat /\ now \in Nat
      BY <3>1 DEF BearerTokens, IInv, TypeOK
    <3>3. stood[token.sub][token.role] \in Nat
      BY <3>2 DEF IInv, TypeOK
    <3>4. stood[token.sub][token.role] + life >= token.exp
      BY <2>1 DEF Decodes, Held
    <3> QED BY <3>1, <3>2, <3>3, <3>4
  <2>2. /\ session[b].access \in BearerTokens \cup {NoToken}
        /\ session[b].refresh \in BearerTokens \cup {NoToken}
    BY DEF IInv, TypeOK
  <2> QED BY <2>1, <2>2, TimeAssumption DEF AInv, TokenHolds
<1> QED BY <1>1, InitInv, InitAuthority, StepInv, StepAuthority, PTL DEF Spec
=============================================================================
