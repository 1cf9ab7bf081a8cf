------------------------------- MODULE Voting -------------------------------
(***************************************************************************)
(* Casting votes: app/service/voting_service.py with the repositories and  *)
(* the token issue it calls, composed with the contest rows of             *)
(* ContestStatus.                                                          *)
(*                                                                         *)
(* A request is one transaction.  Its inserts stay invisible until it      *)
(* commits and vanish when it fails, so they are read off its stage; its   *)
(* reads see the rows committed at that moment; its updates wait for the   *)
(* row lock and hold it until the end.  A row inserted by a request is     *)
(* named by the request: r \in ledger says the ledger row r inserted is    *)
(* committed, tally[r] is the count of the tally row r inserted, 0 when    *)
(* there is none.                                                          *)
(*                                                                         *)
(*   idle -> received -> (issued ->) begun -> seen -> open -> eligible     *)
(*        -> admitted -> marked -> counted -> tallied -> committed         *)
(* or refused from any of them.                                            *)
(***************************************************************************)
EXTENDS ContestStatus, Ballots

CONSTANTS
    Voters,
    Requests,       \* requests to the voting endpoints
    Tokens,         \* ballot tokens an official may issue in advance
    Areas,          \* constituencies
    Candidates,     \* rows of the candidate table
    BallotPapers,   \* ballots voters send
    Method,         \* allocation method of each contest
    Barred,         \* <<voter, contest>>: too young, or overseas
    NoRow

ASSUME RequestAssumption == Requests \subseteq Lockers /\ Requests \cap Writers = {}
ASSUME TokenAssumption == Tokens \cap Requests = {} /\ NoRow \notin Requests
ASSUME MethodAssumption == Method \in [Contests -> Methods]
ASSUME NoneAssumption == None \notin Contests

VARIABLES
    pc,        \* stage of each request
    body,      \* what the client sent
    at,        \* the instant the handler took as now
    seenRow,   \* the contest row the handler read
    target,    \* the tally row it is going to update, NoRow to insert one
    count,     \* its vote_count as loaded, then as written but not yet committed
    issued,    \* committed tokens issued in advance: contest and area
    used,      \* committed tokens with is_used
    votes,     \* ballots whose vote rows are committed
    ledger,    \* committed voter_ledger rows
    tally      \* committed tally_result rows: vote_count

reqVars == <<pc, body, at, seenRow, target, count>>
othersVars == <<now, contest, writer, closedByHand>>
boxVars == <<used, votes, ledger, tally>>
vars == <<lifeVars, reqVars, issued, boxVars>>

Stages == {"idle", "received", "issued", "begun", "seen", "open", "eligible", "admitted",
           "marked", "counted", "tallied", "committed", "refused"}

(* POST /vote and /vote-referendum issue the token themselves; /cast and   *)
(* /cast-referendum bring one.                                             *)
Bodies == [kind : {"vote"}, voter : Voters, contest : Contests,
           ballot : BallotPapers, token : {None}]
              \cup
          [kind : {"cast"}, voter : Voters, contest : Contests,
           ballot : BallotPapers, token : Tokens]

NoBody == [kind |-> None]
NotIssued == [contest |-> None, area |-> None]
Issues == [contest : Contests, area : Areas \cup {None}]

InFlight(r) == pc[r] \notin {"idle", "committed", "refused"}
TokenOf(r) == IF body[r].kind = "vote" THEN r ELSE body[r].token
KeyOf(r) == TallyKey(Method[body[r].contest], body[r].ballot)

SameVoter(r, q) == body[r].voter = body[q].voter /\ body[r].contest = body[q].contest

TypeOK ==
    /\ LifeTypeOK
    /\ pc \in [Requests -> Stages]
    /\ body \in [Requests -> Bodies \cup {NoBody}]
    /\ \A r \in Requests : body[r] = NoBody <=> pc[r] = "idle"
    /\ at \in [Requests -> Instants]
    /\ seenRow \in [Requests -> Rows]
    /\ target \in [Requests -> Requests \cup {NoRow}]
    /\ count \in [Requests -> Nat]
    /\ issued \in [Tokens -> Issues \cup {NotIssued}]
    /\ used \subseteq Tokens \cup Requests
    /\ votes \subseteq Requests
    /\ ledger \subseteq Requests
    /\ tally \in [Requests -> Nat]

Init ==
    /\ LifeInit
    /\ pc = [r \in Requests |-> "idle"]
    /\ body = [r \in Requests |-> NoBody]
    /\ at = [r \in Requests |-> NoTime]
    /\ seenRow = [r \in Requests |-> AbsentRow]
    /\ target = [r \in Requests |-> NoRow]
    /\ count = [r \in Requests |-> 0]
    /\ issued = [t \in Tokens |-> NotIssued]
    /\ used = {} /\ votes = {} /\ ledger = {}
    /\ tally = [r \in Requests |-> 0]

-----------------------------------------------------------------------------
Goto(r, stage) == pc' = [pc EXCEPT ![r] = stage]

(* mutant: the lock of a refused request is not given back                 *)
GotoIfLocked(r, ok, stage) ==
    Goto(r, IF ok THEN stage ELSE "refused") /\ UNCHANGED rowLock

(* The handler raises unless ok: the transaction is rolled back, its row   *)
(* lock with it.                                                           *)
GotoIf(r, ok, stage) ==
    /\ Goto(r, IF ok THEN stage ELSE "refused")
    /\ rowLock' = IF ok THEN rowLock ELSE Release(r)

(* An official issues a token in advance, for one constituency of an       *)
(* election; tokens are issued only while the stored status is OPEN.       *)
IssueToken(t, c, a) ==
    /\ issued[t] = NotIssued
    /\ a = None <=> Method[c] = "REFERENDUM"
    /\ contest[c].status = "OPEN"
    /\ issued' = [issued EXCEPT ![t] = [contest |-> c, area |-> a]]
    /\ UNCHANGED <<lifeVars, reqVars, boxVars>>

Submit(r, b) ==
    /\ pc[r] = "idle"
    /\ Goto(r, "received")
    /\ body' = [body EXCEPT ![r] = b]
    /\ UNCHANGED <<lifeVars, at, seenRow, target, count, issued, boxVars>>

(* The first half of POST /vote: a token for this request alone, issued on *)
(* the stored status, which is not synced with the schedule here.          *)
IssueOwnToken(r) ==
    /\ pc[r] = "received" /\ body[r].kind = "vote"
    /\ GotoIf(r, contest[body[r].contest].status = "OPEN", "issued")
    /\ UNCHANGED <<othersVars, body, at, seenRow, target, count, issued, boxVars>>

(* cast_vote / cast_referendum_vote takes the time it will judge by.       *)
Begin(r) ==
    /\ \/ pc[r] = "received" /\ body[r].kind = "cast"
       \/ pc[r] = "issued"
    /\ Goto(r, "begun")
    /\ at' = [at EXCEPT ![r] = now]
    /\ UNCHANGED <<lifeVars, body, seenRow, target, count, issued, boxVars>>

ReadContest(r) ==
    /\ pc[r] = "begun"
    /\ GotoIf(r, contest[body[r].contest].status # "ABSENT", "seen")
    /\ seenRow' = [seenRow EXCEPT ![r] = contest[body[r].contest]]
    /\ UNCHANGED <<othersVars, body, at, target, count, issued, boxVars>>

OpenFor(r, row) == row.status = "OPEN" /\ WithinWindow(at[r], row)

CheckOpen(r) ==
    /\ pc[r] = "seen"
    /\ ~SyncNeeded(now, seenRow[r])
    /\ GotoIf(r, OpenFor(r, seenRow[r]), "open")
    /\ UNCHANGED <<othersVars, body, at, seenRow, target, count, issued, boxVars>>

(* The schedule overrules the status read: the request updates the row     *)
(* first and judges by its object of it, new in the status alone.          *)
(* Refused, the update is rolled back with the rest.                       *)
SyncThenCheck(r) ==
    LET c == body[r].contest
        row == [seenRow[r] EXCEPT !.status = ImpliedStatus(now, seenRow[r])]
        ok == OpenFor(r, row)
    IN  /\ pc[r] = "seen"
        /\ SyncNeeded(now, seenRow[r])
        /\ LockFree(c)
        /\ Goto(r, IF ok THEN "open" ELSE "refused")
        /\ rowLock' = [rowLock EXCEPT ![c] = IF ok THEN r ELSE @]
        /\ UNCHANGED <<othersVars, body, at, seenRow, target, count, issued, boxVars>>

LedgerRowsNone(r) == {}   \* mutant: the ledger is not consulted
LedgerRows(r) == {q \in ledger : SameVoter(q, r)}

EntitledAlways(r) == TRUE   \* mutant: neither the voter nor the payload is validated
Entitled(r) ==
    /\ <<body[r].voter, body[r].contest>> \notin Barred
    /\ ValidPayload(Method[body[r].contest], body[r].ballot)

(* Age, residence, payload, and no ledger row of this voter yet.  With two *)
(* such rows the lookup itself raises.                                     *)
CheckVoter(r) ==
    /\ pc[r] = "open"
    /\ GotoIf(r, Entitled(r) /\ LedgerRows(r) = {}, "eligible")
    /\ UNCHANGED <<othersVars, body, at, seenRow, target, count, issued, boxVars>>

TokenMatchesAny(r) == TRUE   \* mutant: a token of any contest or constituency will do
TokenMatches(r) ==
    body[r].kind = "cast" =>
        LET token == issued[body[r].token] IN
        /\ token.contest = body[r].contest
        /\ Method[body[r].contest] # "REFERENDUM" /\ body[r].ballot.area # None
               => token.area = body[r].ballot.area

TokenUnusedAlways(r) == TRUE   \* mutant: is_used is not looked at
TokenUnused(r) == TokenOf(r) \notin used

CheckToken(r) ==
    /\ pc[r] = "eligible"
    /\ GotoIf(r, /\ TokenMatches(r)
                 /\ TokenUnused(r)
                 /\ Named(Method[body[r].contest], body[r].ballot) \subseteq Candidates,
              "admitted")
    /\ UNCHANGED <<othersVars, body, at, seenRow, target, count, issued, boxVars>>

(* The vote rows are inserted, then the token row is updated by its id,    *)
(* whatever its is_used says by then.                                      *)
MarkToken(r) ==
    /\ pc[r] = "admitted"
    /\ \A q \in Requests :
          pc[q] \in {"marked", "counted", "tallied"} => TokenOf(q) # TokenOf(r)
    /\ Goto(r, "marked")
    /\ UNCHANGED <<lifeVars, body, at, seenRow, target, count, issued, boxVars>>

TallyRowsFor(r) ==
    {q \in Requests : tally[q] > 0 /\ body[q].contest = body[r].contest /\ KeyOf(q) = KeyOf(r)}

(* The ledger row is inserted, then the tally row is looked up: more than  *)
(* one and the lookup raises.                                              *)
FindTally(r) ==
    /\ pc[r] = "marked"
    /\ IF KeyOf(r) = NoKey
       THEN Goto(r, "tallied") /\ UNCHANGED <<rowLock, target, count>>
       ELSE /\ GotoIf(r, Cardinality(TallyRowsFor(r)) <= 1, "counted")
            /\ target' = [target EXCEPT ![r] =
                            IF TallyRowsFor(r) = {} THEN NoRow
                            ELSE CHOOSE q \in TallyRowsFor(r) : TRUE]
            /\ count' = [count EXCEPT ![r] =
                            IF target'[r] = NoRow THEN 0 ELSE tally[target'[r]]]
    /\ UNCHANGED <<othersVars, body, at, seenRow, issued, boxVars>>

(* No other transaction has updated the tally row.                         *)
TallyRowFree(r) ==
    \A q \in Requests : pc[q] = "tallied" => target[q] # target[r]

(* mutant: one more than the count that was loaded with the row            *)
IncrementedAsLoaded(r) == count[r] + 1

(* vote_count = vote_count + 1 on the row as committed once it is locked,  *)
(* or a new row that counts one.                                           *)
Incremented(r) == IF target[r] = NoRow THEN 1 ELSE tally[target[r]] + 1

WriteTally(r) ==
    /\ pc[r] = "counted"
    /\ target[r] # NoRow => TallyRowFree(r)
    /\ count' = [count EXCEPT ![r] = Incremented(r)]
    /\ Goto(r, "tallied")
    /\ UNCHANGED <<lifeVars, body, at, seenRow, target, issued, boxVars>>

RowOf(r) == IF target[r] = NoRow THEN r ELSE target[r]

TallyAfter(r) == IF KeyOf(r) = NoKey THEN tally ELSE [tally EXCEPT ![RowOf(r)] = count[r]]

ContestAfter(r) ==
    [c \in Contests |->
        IF rowLock[c] = r
        THEN [contest[c] EXCEPT !.status = "OPEN"]
        ELSE contest[c]]

CommitVote(r) ==
    /\ pc[r] = "tallied"
    /\ Goto(r, "committed")
    /\ votes' = votes \cup {r}
    /\ used' = used \cup {TokenOf(r)}
    /\ ledger' = ledger \cup {r}
    /\ tally' = TallyAfter(r)
    /\ contest' = ContestAfter(r)
    /\ rowLock' = Release(r)
    /\ UNCHANGED <<now, writer, closedByHand, body, at, seenRow, target, count, issued>>

(* A statement fails, the connection is lost or the process stops before   *)
(* the commit: everything the transaction did is rolled back.              *)
Fail(r) ==
    /\ InFlight(r)
    /\ Goto(r, "refused")
    /\ rowLock' = Release(r)
    /\ UNCHANGED <<othersVars, body, at, seenRow, target, count, issued, boxVars>>

RequestStep(r) ==
    \/ IssueOwnToken(r) \/ Begin(r) \/ ReadContest(r) \/ CheckOpen(r) \/ SyncThenCheck(r)
    \/ CheckVoter(r) \/ CheckToken(r) \/ MarkToken(r) \/ FindTally(r) \/ WriteTally(r)
    \/ CommitVote(r)

Environment ==
    \/ LifeNext /\ UNCHANGED <<reqVars, issued, boxVars>>
    \/ \E t \in Tokens, c \in Contests, a \in Areas \cup {None} : IssueToken(t, c, a)
    \/ \E r \in Requests : Fail(r)

Next ==
    \/ Environment
    \/ \E r \in Requests, b \in Bodies : Submit(r, b)
    \/ \E r \in Requests : RequestStep(r)

Spec == Init /\ [][Next]_vars

(* The requests in flight are scheduled by the event loop and their lock   *)
(* waits end when the holder's transaction ends; nothing is assumed of     *)
(* officials, of clients, or of failures.                                  *)
WriterStep(w) == (Write(w) \/ Commit(w)) /\ UNCHANGED <<reqVars, issued, boxVars>>

Fairness ==
    /\ \A r \in Requests : WF_vars(RequestStep(r))
    /\ \A w \in Writers : WF_vars(WriterStep(w))
    /\ WF_vars(Tick /\ UNCHANGED <<reqVars, issued, boxVars>>)

FairSpec == Spec /\ Fairness

-----------------------------------------------------------------------------
(***************************************************************************)
(* One request at a time.  The voter's page ignores a second press of the  *)
(* button while one is being submitted (voteConfirmation.tsx:41), and a    *)
(* token is handed to one voter.  Under this discipline, which the backend *)
(* does not enforce, no two requests in flight are for the same voter and  *)
(* contest, and no two bring the same token.                               *)
(***************************************************************************)
Apart(r, b) ==
    \A q \in Requests : InFlight(q) =>
        /\ ~(body[q].voter = b.voter /\ body[q].contest = b.contest)
        /\ b.kind = "cast" => body[q].token # b.token

SerialNext ==
    \/ Environment
    \/ \E r \in Requests, b \in Bodies : Apart(r, b) /\ Submit(r, b)
    \/ \E r \in Requests : RequestStep(r)

SerialSpec == Init /\ [][SerialNext]_vars

-----------------------------------------------------------------------------
(* A voter has at most one committed vote and one ledger row in a contest  *)
(* ("Each voter can vote exactly once per election", voting_service.py:61).*)
OneVotePerVoter ==
    \A r, q \in votes \cup ledger : SameVoter(r, q) => r = q

(* Whatever overlaps, a committed vote was cast by an entitled voter, with *)
(* a valid ballot for candidates that exist, inside the schedule the       *)
(* handler judged by, and with a token of that contest which covers the    *)
(* constituency the ballot names (voting_service.py:131-187).              *)
VotesAreAdmissible ==
    \A r \in votes :
        LET c == body[r].contest
            b == body[r].ballot
            token == issued[body[r].token]
        IN  /\ <<body[r].voter, c>> \notin Barred /\ ValidPayload(Method[c], b)
            /\ Named(Method[c], b) \subseteq Candidates
            /\ at[r] # NoTime /\ WithinWindow(at[r], seenRow[r])
            /\ body[r].kind = "cast" =>
                  token.contest = c /\ token.area \in {None, b.area} \cup
                                        (IF b.area = None THEN Areas ELSE {})

(* A ballot token is consumed by at most one vote ("Tokens are one-time-   *)
(* use", ballot_service.py:68).                                            *)
TokenSpentOnce ==
    \A r, q \in votes : TokenOf(r) = TokenOf(q) => r = q

(* Every tally row counts the committed votes that were counted on it, all *)
(* of its contest and key, and nothing else.  Each vote that has a key is  *)
(* counted on one row, so the rows of a key, however many there are, add   *)
(* up to its votes: increments are never lost, doubled or left behind by a *)
(* transaction that fails (tally_result_repo.py:22-86).                    *)
CountedOn(q) == {v \in votes : KeyOf(v) # NoKey /\ RowOf(v) = q}

TallyMatchesVotes ==
    \A q \in Requests :
        /\ tally[q] = Cardinality(CountedOn(q))
        /\ \A v \in CountedOn(q) :
              q \in votes /\ body[q].contest = body[v].contest /\ KeyOf(q) = KeyOf(v)

(* A request that was refused, for whatever reason and at whatever stage,  *)
(* leaves no vote, ledger row, tally row or used token of its own, and no  *)
(* row lock others would wait for (get_db, dependencies.py:87).            *)
RefusedLeavesNothing ==
    \A r \in Requests : pc[r] = "refused" =>
        /\ r \notin votes \cup ledger \cup used /\ tally[r] = 0
        /\ \A c \in Contests : rowLock[c] # r
        /\ \A q \in Requests : target[q] # r

(* Every submitted request is answered: no set of requests and officials   *)
(* waits for each other's row locks for ever.                              *)
EveryRequestAnswered == \A r \in Requests : InFlight(r) ~> ~InFlight(r)

-----------------------------------------------------------------------------
(* What each voter has cast, as the abstract ballot box sees it.           *)
VotesOf(v, c) == {r \in votes : body[r].voter = v /\ body[r].contest = c}

NoBallot == [kind |-> None]

castBy ==
    [vc \in Voters \X Contests |->
        IF VotesOf(vc[1], vc[2]) = {} THEN NoBallot
        ELSE body[CHOOSE r \in VotesOf(vc[1], vc[2]) : TRUE].ballot]

Box == INSTANCE OneVote WITH cast <- castBy

ImplementsOneVote == Box!Spec
=============================================================================
