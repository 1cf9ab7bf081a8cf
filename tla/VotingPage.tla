------------------------------ MODULE VotingPage ------------------------------
(***************************************************************************)
(* The page on which a verified voter chooses a contest, marks the ballot  *)
(* and submits it (voteCastingPage.tsx and its steps 3 to 5), against a    *)
(* server that checks, writes and answers, or does not answer in time.     *)
(*                                                                         *)
(* One voter.  How the page came to trust the voter is Verification; what  *)
(* the server does between the check and the commit is Voting, reduced     *)
(* here to those two steps.                                                *)
(***************************************************************************)
EXTENDS Ballots

CONSTANTS
    Contests, Method,
    Standing,     \* the active candidates of the voter's constituency
    Parties, Area,
    Closing,      \* the contests that may close meanwhile
    MaxRequests,  \* bound on the submissions under way at once
    MaxVisits     \* bound on the times the voter opens the page

Slots == 1 .. MaxRequests
Steps == {"landing", "contest", "ballot", "confirm"}
NoBallot == [area |-> None, candidate |-> None, party |-> None, ranked |-> <<>>]
NoRequest == [stage |-> "none", contest |-> None, ballot |-> NoBallot]

ASSUME PageAssumption ==
    /\ Method \in [Contests -> Methods] /\ MaxRequests \in Nat \ {0} /\ MaxVisits \in Nat
    /\ DOMAIN Standing = Contests /\ \A c \in Contests : IsFiniteSet(Standing[c])
    /\ Closing \subseteq Contests /\ Area # None
    /\ None \notin Contests \cup Parties \cup UNION {Standing[c] : c \in Contests}

VARIABLES
    page,      \* what the browser holds of the visit
    open,      \* whether each contest is open
    votes,     \* the votes recorded for this voter, per contest
    request,   \* submissions the server has not finished
    waits,     \* the submission whose answer the page awaits, 0 if none
    visits,    \* times the page was opened
    overlap    \* history: a submission was sent while another was under way

pageVars == <<page, open, votes, request, waits, visits, overlap>>

Candidates == UNION {Standing[c] : c \in Contests}

Fresh == [step |-> "contest", listed |-> {}, contest |-> None, candidate |-> None,
          party |-> None, ranked |-> <<>>, choice |-> None,
          timer |-> FALSE, submitted |-> FALSE]

Preferences == [candidate : Candidates, rank : Nat]
Payloads ==
    [area : {Area, None}, candidate : Candidates \cup {"YES", "NO", None},
     party : Parties \cup {None}, ranked : Seq(Preferences)]
Rows == [candidate : Candidates \cup {"YES", "NO", None}, party : Parties \cup {None}, rank : Nat]

TypeOK ==
    /\ page.step \in Steps /\ page.listed \subseteq Contests
    /\ page.contest \in Contests \cup {None}
    /\ page.candidate \in Candidates \cup {None} /\ page.party \in Parties \cup {None}
    /\ page.ranked \in Seq(Preferences) /\ page.choice \in {None, "YES", "NO"}
    /\ page.timer \in BOOLEAN /\ page.submitted \in BOOLEAN
    /\ open \in [Contests -> BOOLEAN]
    /\ votes \in [Contests -> Seq(SUBSET Rows)]
    /\ request \in [Slots -> [stage : {"none", "sent", "checked"}, contest : Contests \cup {None},
                             ballot : Payloads]]
    /\ waits \in 0 .. MaxRequests
    /\ visits \in 0 .. MaxVisits /\ overlap \in BOOLEAN

Away == [Fresh EXCEPT !.step = "landing"]

Votable == {c \in Contests : open[c] /\ votes[c] = <<>>}

Init ==
    /\ page = Away
    /\ open = [c \in Contests |-> TRUE]
    /\ votes = [c \in Contests |-> <<>>]
    /\ request = [s \in Slots |-> NoRequest]
    /\ waits = 0
    /\ visits = 0
    /\ overlap = FALSE

Shown(p) == page' = p /\ UNCHANGED <<open, votes, request, waits, visits, overlap>>

-----------------------------------------------------------------------------
(* Choosing.  The list is read when the step is entered; what was chosen   *)
(* on an earlier ballot is kept.                                           *)
OpenPage ==
    /\ page.step = "landing" /\ visits < MaxVisits
    /\ page' = [Fresh EXCEPT !.listed = Votable]
    /\ visits' = visits + 1
    /\ UNCHANGED <<open, votes, request, waits, overlap>>

SelectContest(c) ==
    /\ page.step = "contest" /\ c \in page.listed
    /\ Shown([page EXCEPT !.contest = c])

(* The clock starts with the first ballot and is not stopped again.        *)
ToBallot ==
    /\ page.step = "contest" /\ page.contest # None
    /\ Shown([page EXCEPT !.step = "ballot", !.timer = TRUE])

Back ==
    /\ page.step = "ballot"
    /\ Shown([page EXCEPT !.step = "contest", !.listed = Votable])

-----------------------------------------------------------------------------
(* Marking.                                                                *)
OnBallot(methods) == page.step = "ballot" /\ Method[page.contest] \in methods

SelectCandidate(x) ==
    /\ OnBallot({"FPTP", "AMS"}) /\ x \in Standing[page.contest]
    /\ Shown([page EXCEPT !.candidate = x])

SelectParty(p) ==
    /\ OnBallot({"AMS"}) /\ Standing[page.contest] # {}
    /\ Shown([page EXCEPT !.party = p])

SelectAnswer(a) == OnBallot({"REFERENDUM"}) /\ Shown([page EXCEPT !.choice = a])

RankOf(x) == {i \in DOMAIN page.ranked : page.ranked[i].candidate = x}

(* One more than the highest rank there is.                                *)
NextRank ==
    LET ranks == {page.ranked[i].rank : i \in DOMAIN page.ranked}
    IN 1 + CHOOSE n \in ranks \cup {0} : \A m \in ranks : m <= n

SetRank(x) ==
    /\ OnBallot({"STV", "ALTERNATIVE_VOTE"}) /\ x \in Standing[page.contest]
    /\ RankOf(x) = {}
    /\ Shown([page EXCEPT !.ranked = Append(@, [candidate |-> x, rank |-> NextRank])])

(* The rank that is left after another is removed.                         *)
Closed(rank, removed) == IF rank > removed THEN rank - 1 ELSE rank

ClearRank(x) ==
    /\ OnBallot({"STV", "ALTERNATIVE_VOTE"}) /\ x \in Standing[page.contest]
    /\ \E i \in RankOf(x) :
         LET other(j) == page.ranked[IF j < i THEN j ELSE j + 1] IN
         Shown([page EXCEPT !.ranked =
                  [j \in 1 .. Len(page.ranked) - 1 |->
                     [other(j) EXCEPT !.rank = Closed(@, page.ranked[i].rank)]]])

CompleteAnyMark == page.candidate # None \/ page.party # None \/ page.choice # None
                   \/ page.ranked # <<>>   \* mutant: one check for every kind of ballot

(* What the page asks for before it goes on.                               *)
Complete ==
    CASE Method[page.contest] = "FPTP" -> page.candidate # None
      [] Method[page.contest] = "AMS" -> page.candidate # None \/ page.party # None
      [] Method[page.contest] = "REFERENDUM" -> page.choice # None
      [] OTHER -> page.ranked # <<>>

ToConfirm ==
    /\ page.step = "ballot" /\ Complete
    /\ Method[page.contest] # "REFERENDUM" => Standing[page.contest] # {}
    /\ Shown([page EXCEPT !.step = "confirm"])

-----------------------------------------------------------------------------
(* Submitting.  The page sends all its marks; kept here are those the      *)
(* server reads under the contest's method.                                *)
Payload ==
    LET m == Method[page.contest] IN
    [area |-> IF m = "REFERENDUM" THEN None ELSE Area,
     candidate |-> IF m = "REFERENDUM" THEN page.choice
                   ELSE IF Ranked(m) THEN None ELSE page.candidate,
     party |-> IF m = "AMS" THEN page.party ELSE None,
     ranked |-> IF Ranked(m) THEN page.ranked ELSE <<>>]

Busy == {s \in Slots : request[s].stage # "none"}

HandleSubmit(s) ==
    /\ page.step = "confirm" /\ ~page.submitted /\ waits = 0
    /\ s \notin Busy /\ \A t \in Slots \ Busy : s <= t
    /\ request' = [request EXCEPT ![s] = [stage |-> "sent", contest |-> page.contest,
                                          ballot |-> Payload]]
    /\ waits' = s
    /\ overlap' = (overlap \/ Busy # {})
    /\ UNCHANGED <<page, open, votes, visits>>

MayVoteUnchecked(r) == open[r.contest] /\ ValidPayload(Method[r.contest], r.ballot)
                       \* mutant: the ledger is not read

(* What the server checks before it writes: the contest is open, the       *)
(* ballot suits it, the ledger knows of no vote, the candidates exist.     *)
MayVote(r) ==
    /\ open[r.contest]
    /\ ValidPayload(Method[r.contest], r.ballot)
    /\ votes[r.contest] = <<>>
    /\ Named(Method[r.contest], r.ballot) \subseteq Candidates

Check(s) ==
    /\ request[s].stage = "sent" /\ MayVote(request[s])
    /\ request' = [request EXCEPT ![s].stage = "checked"]
    /\ UNCHANGED <<page, open, votes, waits, visits, overlap>>

(* The page hears the answer while it waits for it; an answer that does    *)
(* not come in time is an error to it, which offers the button again.      *)
Heard(s, p) ==
    \/ waits # s /\ UNCHANGED <<page, waits>>
    \/ waits = s /\ waits' = 0 /\ page' \in {p, page}

Refuse(s) ==
    /\ request[s].stage = "sent" /\ ~MayVote(request[s])
    /\ request' = [request EXCEPT ![s] = NoRequest]
    /\ Heard(s, page)
    /\ UNCHANGED <<open, votes, visits, overlap>>

Commit(s) ==
    LET r == request[s] IN
    /\ r.stage = "checked"
    /\ votes' = [votes EXCEPT ![r.contest] = Append(@, VoteRows(Method[r.contest], r.ballot))]
    /\ request' = [request EXCEPT ![s] = NoRequest]
    /\ Heard(s, [page EXCEPT !.submitted = TRUE])
    /\ UNCHANGED <<open, visits, overlap>>

Fail(s) ==
    /\ request[s].stage # "none"
    /\ request' = [request EXCEPT ![s] = NoRequest]
    /\ Heard(s, page)
    /\ UNCHANGED <<open, votes, visits, overlap>>

TimedOutAsSent ==   \* mutant: no answer is taken for a yes
    /\ waits # 0 /\ waits' = 0
    /\ page' = [page EXCEPT !.submitted = TRUE]
    /\ UNCHANGED <<open, votes, request, visits, overlap>>

TimedOut ==
    /\ waits # 0 /\ waits' = 0
    /\ UNCHANGED <<page, open, votes, request, visits, overlap>>

(* The clock takes the voter away from the page at whatever step it is,    *)
(* the receipt included: nothing tells the page that the vote is in.       *)
Expire ==
    /\ page.timer
    /\ page' = Away
    /\ waits' = 0
    /\ UNCHANGED <<open, votes, request, visits, overlap>>

Finish == page.submitted /\ Shown(Away)

Close(c) ==
    /\ c \in Closing /\ open[c] /\ open' = [open EXCEPT ![c] = FALSE]
    /\ UNCHANGED <<page, votes, request, waits, visits, overlap>>

Mark ==
    \/ \E x \in Candidates : SelectCandidate(x) \/ SetRank(x) \/ ClearRank(x)
    \/ \E p \in Parties : SelectParty(p)
    \/ \E a \in {"YES", "NO"} : SelectAnswer(a)

Serve == \E s \in Slots : Check(s) \/ Refuse(s) \/ Commit(s) \/ Fail(s)

Next ==
    \/ OpenPage \/ ToBallot \/ Back \/ Mark \/ ToConfirm \/ Expire \/ Finish
    \/ \E c \in Contests : SelectContest(c) \/ Close(c)
    \/ \E s \in Slots : HandleSubmit(s)
    \/ Serve \/ TimedOut

Spec == Init /\ [][Next]_pageVars

-----------------------------------------------------------------------------
(* A ranked ballot lists the preferences in their order, without gap, and  *)
(* names nobody twice, however often they were set and cleared and         *)
(* whichever ballots were marked before: the server takes the first listed *)
(* for the first preference (candidateSelection.tsx:328-345,               *)
(* voting_service.py:272).                                                 *)
RanksInOrder ==
    \A i, j \in DOMAIN page.ranked :
        /\ page.ranked[i].rank = i
        /\ page.ranked[i].candidate = page.ranked[j].candidate => i = j

(* What the page lets through, the server does not refuse as malformed,    *)
(* although each has checks of its own and the page keeps the marks of     *)
(* other ballots (candidateSelection.tsx:347-370,                          *)
(* voting_service.py:481-523).                                             *)
NeverMalformed == page.step = "confirm" => ValidPayload(Method[page.contest], Payload)

(* A voter who is thanked has voted in that contest, with those marks.     *)
ReceiptMeansRecorded ==
    page.submitted =>
        \E i \in DOMAIN votes[page.contest] :
            votes[page.contest][i] = VoteRows(Method[page.contest], Payload)

(* A submission that was answered with an error, or whose answer was lost, *)
(* and is sent again, does not vote twice; two that the server works on at *)
(* the same time are another matter (double_vote).                         *)
ResentVotesOnce == ~overlap => \A c \in Contests : Len(votes[c]) <= 1
=============================================================================
