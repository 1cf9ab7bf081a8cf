--------------------------- MODULE OfficialAccounts ---------------------------
(***************************************************************************)
(* The accounts of election officials, their tokens, and the browsers that *)
(* sign in (service/auth_service.py, official_service.py, the routes /auth *)
(* and /official, and the officials' pages of the front end).              *)
(*                                                                         *)
(* A browser has at most one request under way: the buttons are disabled   *)
(* while one is.  A request reads the account and decides; later it writes *)
(* the columns it has decided on and commits.  The row is locked from its  *)
(* UPDATE or INSERT to the commit, so these two are one step.              *)
(* Tokens are signed, and kept by nobody but the browser they were sent to.*)
(***************************************************************************)
EXTENDS Naturals

CONSTANTS
    Usernames,      \* an account is named by its username, which is unique
    Seeded,         \* accounts the seeding endpoint writes
    Passwords, SeedPassword, TemporaryPassword,
    Changes,        \* columns administrators change by PATCH
    NewRoles,       \* roles they give new accounts
    FirstAccounts,  \* what the table may hold at the start
    Browsers, NoBrowser,
    May,            \* the kinds of request made from each browser
    AccessLife, RefreshLife,   \* lifetimes of tokens
    MaxAttempts, LockFor,      \* lockout
    MaxTime,                   \* bound of the clock
    NoAccount, NoToken, Same

Roles == {"ADMIN", "OFFICER"}
Never == MaxTime + LockFor + 1   \* locked_until is NULL

Accounts ==
    [role : Roles, active : BOOLEAN, mustReset : BOOLEAN, password : Passwords,
     attempts : Nat, lockedUntil : Nat]

(* The columns a statement sends; Same for one that it leaves alone.       *)
Columns ==
    [role : Roles \cup {Same}, active : BOOLEAN \cup {Same}, mustReset : BOOLEAN \cup {Same},
     password : Passwords \cup {Same}, attempts : Nat \cup {Same}, lockedUntil : Nat \cup {Same}]

AsIs == [role |-> Same, active |-> Same, mustReset |-> Same, password |-> Same,
         attempts |-> Same, lockedUntil |-> Same]

Kinds == {"idle", "login", "failed", "refresh", "password", "create", "update"}

(* late is a ghost: the account changed between its read and the token.    *)
BearerTokens == [sub : Usernames, role : Roles, exp : Nat, late : BOOLEAN]

ASSUME AccountAssumption ==
    /\ Usernames # {} /\ Seeded \subseteq Usernames
    /\ {SeedPassword, TemporaryPassword} \subseteq Passwords
    /\ NoBrowser \notin Browsers /\ NoAccount \notin Accounts /\ NoToken \notin BearerTokens
    /\ \A c \in Changes : c \in Columns /\ c.mustReset = Same   \* UpdateOfficialRequest has none
    /\ NewRoles \subseteq Roles /\ May \in [Browsers -> SUBSET Kinds]
    /\ FirstAccounts \subseteq [Usernames -> Accounts \cup {NoAccount}]
ASSUME TimeAssumption ==
    AccessLife \in Nat /\ RefreshLife \in Nat /\ MaxAttempts \in Nat /\ LockFor \in Nat
        /\ MaxTime \in Nat

VARIABLES
    now,
    account,      \* committed election_official rows
    call,         \* the request each browser has under way
    session,      \* the tokens each browser has stored
    stood         \* history: when an account last was active in a role

accountVars == <<now, account, call, session, stood>>

CallStates ==
    [kind : Kinds, on : Usernames,
     seen : Accounts \cup {NoAccount},     \* the account as it was read, if used later
     sets : Columns,
     late : BOOLEAN]                       \* ghost: changed since it was read

NoCall ==
    [kind |-> "idle", on |-> CHOOSE u \in Usernames : TRUE,
     seen |-> NoAccount, sets |-> AsIs, late |-> FALSE]

NoSession == [access |-> NoToken, refresh |-> NoToken]

TypeOK ==
    /\ now \in 0 .. MaxTime
    /\ account \in [Usernames -> Accounts \cup {NoAccount}]
    /\ call \in [Browsers -> CallStates]
    /\ session \in [Browsers -> [access : BearerTokens \cup {NoToken},
                                 refresh : BearerTokens \cup {NoToken}]]
    /\ stood \in [Usernames -> [Roles -> Nat]]

Exists(u) == account[u] # NoAccount
Idle(b) == call[b].kind = "idle"
ActiveAs(row, role) == row # NoAccount /\ row.role = role /\ row.active

Init ==
    /\ now = 0
    /\ account \in FirstAccounts
    /\ call = [b \in Browsers |-> NoCall]
    /\ session = [b \in Browsers |-> NoSession]
    /\ stood = [u \in Usernames |-> [r \in Roles |-> 0]]

Tick ==
    /\ now < MaxTime
    /\ now' = now + 1
    /\ stood' = [u \in Usernames |-> [r \in Roles |->
                   IF ActiveAs(account[u], r) THEN now + 1 ELSE stood[u][r]]]
    /\ UNCHANGED <<account, call, session>>

-----------------------------------------------------------------------------
(* Tokens.  The signature holds; what remains to check is the expiry.      *)
Decodes(token) == token # NoToken /\ token.exp >= now

(* The pair a login or a refresh is answered with, for the account as it   *)
(* was read.                                                               *)
TokenFor(c, life) ==
    [sub |-> c.on, role |-> c.seen.role, exp |-> now + life, late |-> c.late]

PairOf(c) ==
    [access |-> TokenFor(c, AccessLife), refresh |-> TokenFor(c, RefreshLife)]

(* What a request from the browser may carry as its bearer token: the type *)
(* of a token is looked at by nothing but the refresh endpoint, so that    *)
(* the refresh token is as good as the access token.                       *)
Bearer(b) == {token \in {session[b].access, session[b].refresh} : Decodes(token)}

(* The bearer token is taken at its word; no account is read.              *)
IsAdmin(b) == \E token \in Bearer(b) : token.role = "ADMIN"

-----------------------------------------------------------------------------
(* Requests, up to the decision.  One that is refused changes nothing.     *)
Decide(b, kind, u, sets) ==
    /\ Idle(b) /\ kind \in May[b]
    /\ call' = [call EXCEPT ![b] =
                  [kind |-> kind, on |-> u, sets |-> sets, late |-> FALSE,
                   seen |-> IF kind \in {"login", "failed", "refresh"} THEN account[u]
                            ELSE NoAccount]]
    /\ UNCHANGED <<now, account, session, stood>>

Locked(row) == row.lockedUntil # Never /\ row.lockedUntil > now

(* A right password resets the count.  locked_until is to become NULL, and *)
(* the repository drops columns that are to become NULL.                   *)
Login(b, u, password) ==
    /\ Exists(u) /\ ~Locked(account[u]) /\ account[u].active
    /\ password = account[u].password
    /\ Decide(b, "login", u, [AsIs EXCEPT !.attempts = 0])

(* A wrong one is counted, and locks the account when there are too many.  *)
LoginFails(b, u, password) ==
    LET attempts == account[u].attempts + 1 IN
    /\ Exists(u) /\ ~Locked(account[u]) /\ account[u].active
    /\ password # account[u].password
    /\ Decide(b, "failed", u,
              [AsIs EXCEPT !.attempts = attempts,
                           !.lockedUntil = IF attempts >= MaxAttempts THEN now + LockFor ELSE @])

MayRefreshAny(row) == TRUE   \* mutant: the account is not looked at

MayRefresh(row) == row.active

Refresh(b) ==
    LET token == session[b].refresh IN
    /\ Decodes(token)
    /\ Exists(token.sub) /\ MayRefresh(account[token.sub])
    /\ Decide(b, "refresh", token.sub, AsIs)

ChangePassword(b, current, new) ==
    \E token \in Bearer(b) :
        /\ Exists(token.sub)
        /\ account[token.sub].password = current /\ current # new
        /\ new # TemporaryPassword   \* random: nobody chooses it
        /\ Decide(b, "password", token.sub,
                  [AsIs EXCEPT !.password = new, !.mustReset = FALSE])

(* The page sends no password: a temporary one is generated and mailed.    *)
CreateOfficial(b, u, role) ==
    /\ IsAdmin(b)
    /\ ~Exists(u)
    /\ Decide(b, "create", u, [role |-> role, active |-> TRUE, mustReset |-> TRUE,
                               password |-> TemporaryPassword, attempts |-> 0,
                               lockedUntil |-> Never])

UpdateOfficial(b, u, change) ==
    /\ IsAdmin(b)
    /\ Exists(u) /\ change # AsIs
    /\ Decide(b, "update", u, change)

(* The buttons that deactivate and activate.                               *)
SetActive(b, u, active) ==
    /\ IsAdmin(b)
    /\ Exists(u)
    /\ Decide(b, "update", u, [AsIs EXCEPT !.active = active])

-----------------------------------------------------------------------------
(* Requests, from the decision to the end of the transaction.              *)
Sent(column, old) == IF column = Same THEN old ELSE column

(* mutant: the whole row is written back as it was read                    *)
LaidOverSeen(c, row) ==
    LET old == IF c.kind = "create" THEN c.sets ELSE IF c.kind = "login" THEN c.seen ELSE row IN
    [role |-> Sent(c.sets.role, old.role), active |-> Sent(c.sets.active, old.active),
     mustReset |-> Sent(c.sets.mustReset, old.mustReset),
     password |-> Sent(c.sets.password, old.password),
     attempts |-> Sent(c.sets.attempts, old.attempts),
     lockedUntil |-> Sent(c.sets.lockedUntil, old.lockedUntil)]

Laid(c, row) ==
    LET old == IF c.kind = "create" THEN c.sets ELSE row IN
    [role |-> Sent(c.sets.role, old.role), active |-> Sent(c.sets.active, old.active),
     mustReset |-> Sent(c.sets.mustReset, old.mustReset),
     password |-> Sent(c.sets.password, old.password),
     attempts |-> Sent(c.sets.attempts, old.attempts),
     lockedUntil |-> Sent(c.sets.lockedUntil, old.lockedUntil)]

NameFreeAny(c) == TRUE   \* mutant: no unique index on the username

(* The unique index: an insert fails if the name was committed since.      *)
NameFree(c) == c.kind = "create" => ~Exists(c.on)

(* Everybody else who has read the account for a token that is not made.   *)
Overtaken(b, accounts) ==
    [o \in Browsers |->
        IF o = b THEN NoCall
        ELSE IF call[o].kind \in {"login", "refresh"} /\ call[o].on \in accounts
             THEN [call[o] EXCEPT !.late = TRUE] ELSE call[o]]

Stands(accounts) ==
    [u \in Usernames |-> [r \in Roles |->
        IF u \in accounts /\ ActiveAs(account'[u], r) THEN now ELSE stood[u][r]]]

Commit(b) ==
    LET c == call[b] IN
    /\ NameFree(c)
    /\ account' = [account EXCEPT ![c.on] = Laid(c, @)]
    /\ call' = Overtaken(b, {c.on})
    /\ stood' = Stands({c.on})

(* The landing page stores the tokens, and moves to onboarding or home: a  *)
(* page only, which the address bar reaches as well.                       *)
AnswerLogin(b) ==
    LET c == call[b] IN
    /\ c.kind = "login"
    /\ Commit(b)
    /\ session' = [session EXCEPT ![b] = PairOf(c)]
    /\ UNCHANGED now

(* Nothing is written.  No page of the front end asks for a refresh: who-  *)
(* ever does uses the pair as a login would.                               *)
AnswerRefresh(b) ==
    LET c == call[b] IN
    /\ c.kind = "refresh"
    /\ call' = [call EXCEPT ![b] = NoCall]
    /\ session' = [session EXCEPT ![b] = PairOf(c)]
    /\ UNCHANGED <<now, account, stood>>

AnswerWrite(b) ==
    LET c == call[b] IN
    /\ c.kind \in {"password", "create", "update"}
    /\ Commit(b)
    /\ UNCHANGED <<now, session>>

(* login raises after it has counted the attempt: get_db rolls back.       *)
AnswerFailed(b) ==
    /\ call[b].kind = "failed"
    /\ call' = [call EXCEPT ![b] = NoCall]
    /\ UNCHANGED <<now, account, session, stood>>

(* Any request may fail: the audit row, the connection, a name taken.      *)
Fail(b) ==
    /\ ~Idle(b)
    /\ call' = [call EXCEPT ![b] = NoCall]
    /\ UNCHANGED <<now, account, session, stood>>

(* GET /auth/seed-officials inserts accounts, or sets the password and     *)
(* clears the counters of those that are there.                            *)
SeedOfficials ==
    LET seeded(row) ==
          IF row = NoAccount
          THEN [role |-> "ADMIN", active |-> TRUE, mustReset |-> FALSE,
                password |-> SeedPassword, attempts |-> 0, lockedUntil |-> Never]
          ELSE [row EXCEPT !.password = SeedPassword, !.attempts = 0, !.lockedUntil = Never]
    IN  /\ Seeded # {}
        /\ account' = [u \in Usernames |-> IF u \in Seeded THEN seeded(account[u]) ELSE account[u]]
        /\ stood' = Stands(Seeded)
        /\ call' = Overtaken(NoBrowser, Seeded)
        /\ UNCHANGED <<now, session>>

-----------------------------------------------------------------------------
(* The browser.  The guard of the officials' pages looks at the expiry it  *)
(* stored with the token.                                                  *)
ValidSession(b) == session[b].access # NoToken /\ now < session[b].access.exp

(* ValidSession is asked when a page behind the guard is opened; it ends a *)
(* session that is not valid.  So does the button that logs out.           *)
EndSession(b) ==
    /\ Idle(b) /\ session[b] # NoSession
    /\ session' = [session EXCEPT ![b] = NoSession]
    /\ UNCHANGED <<now, account, call, stood>>

Guard(b) == ~ValidSession(b) /\ EndSession(b)

Logout(b) == ValidSession(b) /\ EndSession(b)

BrowserStep(b) ==
    \/ \E u \in Usernames, p \in Passwords : Login(b, u, p) \/ LoginFails(b, u, p)
    \/ \E u \in Usernames, r \in NewRoles : CreateOfficial(b, u, r)
    \/ \E u \in Usernames, c \in Changes : UpdateOfficial(b, u, c)
    \/ \E u \in Usernames, active \in BOOLEAN : SetActive(b, u, active)
    \/ \E p, q \in Passwords : ChangePassword(b, p, q)
    \/ Refresh(b) \/ AnswerLogin(b) \/ AnswerRefresh(b) \/ AnswerWrite(b)
    \/ AnswerFailed(b) \/ Fail(b)
    \/ Guard(b) \/ Logout(b)

Next == Tick \/ SeedOfficials \/ \E b \in Browsers : BrowserStep(b)

Spec == Init /\ [][Next]_accountVars

-----------------------------------------------------------------------------
(* Whoever acts with a token had an active account, in the role the token  *)
(* says, no longer ago than that kind of token lives.  The refresh token   *)
(* is accepted as a bearer, so deactivating an official or taking a role   *)
(* away takes effect within the life of a refresh token, not of an access  *)
(* token, however often tokens are refreshed (auth_service.py:131).        *)
(* Tokens of a request that was under way while the account changed are    *)
(* the exception.                                                          *)
StoodWithin(token, life) ==
    Decodes(token) /\ ~token.late => stood[token.sub][token.role] + life >= now

StaleAuthorityBounded ==
    \A b \in Browsers :
        /\ StoodWithin(session[b].access, AccessLife)
        /\ StoodWithin(session[b].refresh, RefreshLife)

(* A deactivated account is activated by nobody but an administrator, and  *)
(* a role is changed by nobody else: a login or a new password that        *)
(* overlaps the decision does not undo it (official_repo.py:98).           *)
DecisionsStand ==
    [][\A u \in Usernames :
         Exists(u) /\ account'[u] # account[u] =>
           \/ account'[u].active = account[u].active /\ account'[u].role = account[u].role
           \/ \E b \in Browsers : call[b].kind = "update" /\ call[b].on = u
                                /\ call'[b].kind = "idle"
                                /\ \/ call[b].sets.active # Same
                                   \/ call[b].sets.role # Same]_accountVars

(* Once an official has chosen a password, the account does not go back to *)
(* a temporary one: of two administrators who create the same username     *)
(* only the first succeeds (official_service.py:89).                       *)
ChosenPasswordStays ==
    [][\A u \in Usernames :
         Exists(u) /\ ~account[u].mustReset => Exists(u)' /\ ~account'[u].mustReset]_accountVars
=============================================================================
