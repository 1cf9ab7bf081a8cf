--------------------------- MODULE VotingPageProofs ---------------------------
(***************************************************************************)
(* Theorems about VotingPage, for any contests, methods and candidates and *)
(* any number of visits and submissions.                                   *)
(***************************************************************************)
EXTENDS VotingPage, SequenceTheorems, TLAPS

Pages ==
    [step : Steps, listed : SUBSET Contests, contest : Contests \cup {None},
     candidate : Candidates \cup {None}, party : Parties \cup {None}, ranked : Seq(Preferences),
     choice : {None, "YES", "NO"}, timer : BOOLEAN, submitted : BOOLEAN]

Requests ==
    [stage : {"none", "sent", "checked"}, contest : Contests \cup {None}, ballot : Payloads]

(* A list of preferences that is in order.                                 *)
InOrder(ranked) ==
    \A i, j \in DOMAIN ranked :
        ranked[i].rank = i /\ (ranked[i].candidate = ranked[j].candidate => i = j)

-----------------------------------------------------------------------------
(* Marking a ranked ballot keeps it in order: the next rank is the length  *)
(* plus one, and closing the gap moves each later preference up by one.    *)
LEMMA NextIsLast ==
    ASSUME page.ranked \in Seq(Preferences), InOrder(page.ranked)
    PROVE  NextRank = Len(page.ranked) + 1
<1> DEFINE n == Len(page.ranked)
           ranks == {page.ranked[i].rank : i \in DOMAIN page.ranked}
<1>1. n \in Nat /\ DOMAIN page.ranked = 1 .. n
  BY LenProperties
<1>2. ranks = 1 .. n
  BY <1>1 DEF InOrder
<1>3. n \in ranks \cup {0} /\ \A m \in ranks : m <= n
  <2> HIDE DEF ranks, n
  <2> QED BY <1>1, <1>2
<1>4. ASSUME NEW k \in ranks \cup {0}, \A m \in ranks : m <= k
      PROVE  k = n
  <2> HIDE DEF ranks, n
  <2>1. k \in 0 .. n /\ (n = 0 \/ n \in ranks)
    BY <1>1, <1>2, <1>4
  <2> QED BY <1>1, <1>4, <2>1
<1>5. (CHOOSE k \in ranks \cup {0} : \A m \in ranks : m <= k) = n
  <2> HIDE DEF ranks, n
  <2> QED BY <1>3, <1>4
<1>6. NextRank = 1 + n
  BY <1>5 DEF NextRank
<1> QED BY <1>1, <1>6

LEMMA RankAdded ==
    ASSUME NEW ranked \in Seq(Preferences), InOrder(ranked), NEW x \in Candidates,
           \A i \in DOMAIN ranked : ranked[i].candidate # x
    PROVE  LET longer == Append(ranked, [candidate |-> x, rank |-> Len(ranked) + 1])
           IN  longer \in Seq(Preferences) /\ InOrder(longer)
<1> DEFINE n == Len(ranked)
           new == [candidate |-> x, rank |-> n + 1]
           longer == Append(ranked, new)
<1>1. n \in Nat /\ DOMAIN ranked = 1 .. n
  BY LenProperties
<1>2. new \in Preferences /\ new.candidate = x /\ new.rank = n + 1
  BY <1>1 DEF Preferences
<1> HIDE DEF new
<1>3. /\ longer \in Seq(Preferences) /\ Len(longer) = n + 1
      /\ \A i \in 1 .. n : longer[i] = ranked[i]
      /\ longer[n + 1] = new
  BY <1>2, AppendProperties
<1> HIDE DEF longer
<1>4. DOMAIN longer = 1 .. n + 1
  BY <1>3, LenProperties
<1>5. \A i \in DOMAIN longer : i \in 1 .. n \/ i = n + 1
  BY <1>1, <1>4
<1>6. \A i \in 1 .. n : longer[i].rank = i /\ longer[i].candidate # x
  BY <1>1, <1>3 DEF InOrder
<1>7. \A i, j \in 1 .. n : longer[i].candidate = longer[j].candidate => i = j
  BY <1>1, <1>3 DEF InOrder
<1>8. InOrder(longer)
  BY <1>2, <1>3, <1>5, <1>6, <1>7 DEF InOrder
<1> QED BY <1>3, <1>8 DEF longer, new

LEMMA RankRemoved ==
    ASSUME NEW ranked \in Seq(Preferences), InOrder(ranked), NEW i \in DOMAIN ranked
    PROVE  LET other(j) == ranked[IF j < i THEN j ELSE j + 1]
               shorter == [j \in 1 .. Len(ranked) - 1 |->
                             [other(j) EXCEPT !.rank = Closed(@, ranked[i].rank)]]
           IN  shorter \in Seq(Preferences) /\ InOrder(shorter)
<1> DEFINE n == Len(ranked)
           other(j) == ranked[IF j < i THEN j ELSE j + 1]
           moved(j) == [other(j) EXCEPT !.rank = Closed(@, ranked[i].rank)]
           shorter == [j \in 1 .. n - 1 |-> moved(j)]
<1>1. n \in Nat /\ DOMAIN ranked = 1 .. n /\ i \in 1 .. n /\ n - 1 \in Nat
  BY LenProperties
<1>2. ASSUME NEW j \in 1 .. n - 1
      PROVE  /\ moved(j) \in Preferences /\ moved(j).rank = j
             /\ moved(j).candidate = ranked[IF j < i THEN j ELSE j + 1].candidate
  <2> DEFINE k == IF j < i THEN j ELSE j + 1
  <2>1. k \in 1 .. n
    BY <1>1
  <2>2. ranked[k] \in Preferences /\ ranked[k].rank = k /\ ranked[i].rank = i
    BY <1>1, <2>1, ElementOfSeq DEF InOrder
  <2>3. Closed(k, i) = j
    BY <1>1 DEF Closed
  <2>4. moved(j) = [ranked[k] EXCEPT !.rank = j]
    BY <2>2, <2>3
  <2> HIDE DEF k, moved
  <2>5. /\ moved(j) \in Preferences /\ moved(j).rank = j
        /\ moved(j).candidate = ranked[k].candidate
    BY <2>2, <2>4 DEF Preferences
  <2> QED BY <2>5 DEF k
<1> HIDE DEF moved
<1>3. \A j \in 1 .. n - 1 : shorter[j] = moved(j)
  OBVIOUS
<1>4. shorter \in [1 .. n - 1 -> Preferences]
  BY <1>2
<1>5. shorter \in Seq(Preferences) /\ DOMAIN shorter = 1 .. n - 1
  BY <1>1, <1>4, SeqDef
<1>6. ASSUME NEW j \in 1 .. n - 1, NEW k \in 1 .. n - 1, moved(j).candidate = moved(k).candidate
      PROVE  j = k
  <2> DEFINE a == IF j < i THEN j ELSE j + 1
             b == IF k < i THEN k ELSE k + 1
  <2>1. a \in DOMAIN ranked /\ b \in DOMAIN ranked
    BY <1>1
  <2>2. ranked[a].candidate = ranked[b].candidate
    BY <1>2, <1>6
  <2>3. a = b
    <3> HIDE DEF a, b
    <3> QED BY <2>1, <2>2 DEF InOrder
  <2> QED BY <1>1, <2>3
<1>7. InOrder(shorter)
  <2> HIDE DEF shorter
  <2> QED BY <1>2, <1>3, <1>5, <1>6 DEF InOrder
<1> QED BY <1>5, <1>7 DEF moved

-----------------------------------------------------------------------------
(* The ballot of a page, and the page's own check of it.                   *)
BallotOf(p) ==
    LET m == Method[p.contest] IN
    [area |-> IF m = "REFERENDUM" THEN None ELSE Area,
     candidate |-> IF m = "REFERENDUM" THEN p.choice
                   ELSE IF Ranked(m) THEN None ELSE p.candidate,
     party |-> IF m = "AMS" THEN p.party ELSE None,
     ranked |-> IF Ranked(m) THEN p.ranked ELSE <<>>]

Filled(p) ==
    CASE Method[p.contest] = "FPTP" -> p.candidate # None
      [] Method[p.contest] = "AMS" -> p.candidate # None \/ p.party # None
      [] Method[p.contest] = "REFERENDUM" -> p.choice # None
      [] OTHER -> p.ranked # <<>>

PageFits(p) ==
    /\ p \in Pages /\ InOrder(p.ranked)
    /\ p.step \in {"ballot", "confirm"} => p.contest \in Contests
    /\ p.step = "confirm" => Filled(p)
    /\ p.submitted => p.step = "confirm"

ServerTypes ==
    /\ open \in [Contests -> BOOLEAN]
    /\ votes \in [Contests -> Seq(SUBSET Rows)]
    /\ request \in [Slots -> Requests]
    /\ \A s \in Slots : request[s].stage # "none" => request[s].contest \in Contests
    /\ waits \in 0 .. MaxRequests /\ visits \in 0 .. MaxVisits /\ overlap \in BOOLEAN

(* The submission a page waits for is its own, with the marks it shows.    *)
Waiting ==
    waits # 0 =>
        /\ page.step = "confirm" /\ ~page.submitted
        /\ request[waits].stage # "none"
        /\ request[waits].contest = page.contest /\ request[waits].ballot = BallotOf(page)

Thanked ==
    page.submitted => \E i \in DOMAIN votes[page.contest] :
                         votes[page.contest][i] = VoteRows(Method[page.contest], BallotOf(page))

(* One at a time: at most one submission is under way; and what it has     *)
(* been allowed is still so.                                               *)
OneAtATime ==
    ~overlap =>
        /\ \A s, t \in Busy : s = t
        /\ \A s \in Slots : request[s].stage = "checked" => votes[request[s].contest] = <<>>
        /\ \A c \in Contests : Len(votes[c]) <= 1

PInv == PageFits(page) /\ ServerTypes /\ Waiting /\ Thanked /\ OneAtATime

LEMMA FreshType ==
    Fresh \in Pages /\ Fresh.ranked = <<>> /\ Fresh.step = "contest" /\ ~Fresh.submitted
<1>1. <<>> \in Seq(Preferences)
  OBVIOUS
<1> QED BY <1>1 DEF Fresh, Pages, Steps

LEMMA AwayFits == Away \in Pages /\ PageFits(Away) /\ ~Away.submitted
<1>1. Away \in Pages /\ Away.ranked = <<>> /\ Away.step = "landing" /\ ~Away.submitted
  <2>1. Away = [Fresh EXCEPT !.step = "landing"]
    BY DEF Away
  <2> QED BY <2>1, FreshType DEF Pages, Steps
<1>2. InOrder(<<>>)
  BY DEF InOrder
<1> HIDE DEF Away
<1> QED BY <1>1, <1>2 DEF PageFits

LEMMA NoRequestType ==
    NoRequest \in Requests /\ NoRequest.stage = "none"
BY DEF NoRequest, NoBallot, Requests, Payloads

LEMMA InitInv == Init => PInv
<1> SUFFICES ASSUME Init PROVE PInv
  OBVIOUS
<1>1. PageFits(page) /\ ~page.submitted
  BY AwayFits DEF Init
<1>2. \A s \in Slots : request[s] = NoRequest
  BY DEF Init
<1>3. ServerTypes
  <2>1. votes \in [Contests -> Seq(SUBSET Rows)]
    BY DEF Init
  <2>2. request \in [Slots -> Requests]
    BY NoRequestType DEF Init
  <2>3. /\ waits \in 0 .. MaxRequests /\ visits \in 0 .. MaxVisits /\ overlap \in BOOLEAN
        /\ open \in [Contests -> BOOLEAN]
    <3>1. MaxRequests \in Nat /\ MaxVisits \in Nat
      BY PageAssumption
    <3>2. waits = 0 /\ visits = 0 /\ overlap = FALSE /\ open = [c \in Contests |-> TRUE]
      BY DEF Init
    <3>3. open \in [Contests -> BOOLEAN] /\ overlap \in BOOLEAN
      BY <3>2
    <3>4. waits \in 0 .. MaxRequests /\ visits \in 0 .. MaxVisits
      BY <3>1, <3>2
    <3> QED BY <3>3, <3>4
  <2> QED BY <1>2, <2>1, <2>2, <2>3, NoRequestType DEF ServerTypes
<1>4. OneAtATime
  BY <1>2, NoRequestType DEF Init, OneAtATime, Busy
<1> QED BY <1>1, <1>3, <1>4 DEF Init, PInv, Waiting, Thanked

(* A step of the page alone, while it waits for nothing.                   *)
LEMMA ShownInv ==
    ASSUME PInv, NEW p, PageFits(p), ~p.submitted, waits = 0, page' = p,
           UNCHANGED <<votes, request, overlap>>, waits' = 0,
           open' \in [Contests -> BOOLEAN], visits' \in 0 .. MaxVisits
    PROVE  PInv'
<1>1. ServerTypes'
  BY DEF PInv, ServerTypes
<1>2. OneAtATime'
  BY DEF PInv, OneAtATime, Busy
<1> QED BY <1>1, <1>2 DEF PInv, Waiting, Thanked

(* The page waits only at the last step, and is thanked only there.        *)
LEMMA NotWaiting ==
    ASSUME PInv, page.step # "confirm" \/ page.submitted
    PROVE  waits = 0 /\ (page.step # "confirm" => ~page.submitted)
BY DEF PInv, Waiting, PageFits

LEMMA ShowInv ==
    ASSUME PInv, NEW p, PageFits(p), ~p.submitted, page.step # "confirm" \/ page.submitted, Shown(p)
    PROVE  PInv'
<1>1. waits = 0
  BY NotWaiting
<1>2. open \in [Contests -> BOOLEAN] /\ visits \in 0 .. MaxVisits
  BY DEF PInv, ServerTypes
<1> QED BY <1>1, <1>2, ShownInv DEF Shown

(* Setting a field of the page.                                            *)
LEMMA MarkFits ==
    ASSUME PInv, page.step \in {"contest", "ballot"}, NEW p \in Pages, p.step = page.step,
           p.submitted = page.submitted, InOrder(p.ranked),
           p.contest = page.contest \/ p.contest \in Contests
    PROVE  PageFits(p) /\ ~p.submitted
BY DEF PInv, PageFits

LEMMA MarkInv ==
    ASSUME PInv, Mark PROVE PInv'
<1>a. page \in Pages /\ InOrder(page.ranked)
  BY DEF PInv, PageFits
<1>1. ASSUME NEW p \in Pages, OnBallot(Methods), p.step = page.step,
             p.submitted = page.submitted, p.contest = page.contest, InOrder(p.ranked), Shown(p)
      PROVE  PInv'
  <2>1. page.step = "ballot"
    BY <1>1 DEF OnBallot
  <2>2. PageFits(p) /\ ~p.submitted
    BY <1>1, <2>1, MarkFits
  <2> QED BY <1>1, <2>1, <2>2, ShowInv
<1>2. \A m \in SUBSET Methods : OnBallot(m) => OnBallot(Methods)
  BY DEF OnBallot
<1>3. ASSUME NEW x \in Candidates, SelectCandidate(x) PROVE PInv'
  <2> DEFINE p == [page EXCEPT !.candidate = x]
  <2>1. /\ p \in Pages /\ p.step = page.step /\ p.submitted = page.submitted
        /\ p.contest = page.contest /\ p.ranked = page.ranked
    BY <1>a DEF Pages
  <2>2. OnBallot(Methods) /\ Shown(p)
    BY <1>2, <1>3 DEF SelectCandidate, Methods
  <2> HIDE DEF p
  <2> QED BY <1>a, <1>1, <2>1, <2>2
<1>4. ASSUME NEW q \in Parties, SelectParty(q) PROVE PInv'
  <2> DEFINE p == [page EXCEPT !.party = q]
  <2>1. /\ p \in Pages /\ p.step = page.step /\ p.submitted = page.submitted
        /\ p.contest = page.contest /\ p.ranked = page.ranked
    BY <1>a DEF Pages
  <2>2. OnBallot(Methods) /\ Shown(p)
    BY <1>2, <1>4 DEF SelectParty, Methods
  <2> HIDE DEF p
  <2> QED BY <1>a, <1>1, <2>1, <2>2
<1>5. ASSUME NEW a \in {"YES", "NO"}, SelectAnswer(a) PROVE PInv'
  <2> DEFINE p == [page EXCEPT !.choice = a]
  <2>1. /\ p \in Pages /\ p.step = page.step /\ p.submitted = page.submitted
        /\ p.contest = page.contest /\ p.ranked = page.ranked
    BY <1>a DEF Pages
  <2>2. OnBallot(Methods) /\ Shown(p)
    BY <1>2, <1>5 DEF SelectAnswer, Methods
  <2> HIDE DEF p
  <2> QED BY <1>a, <1>1, <2>1, <2>2
<1>6. ASSUME NEW ranked \in Seq(Preferences), InOrder(ranked), OnBallot(Methods),
             Shown([page EXCEPT !.ranked = ranked])
      PROVE  PInv'
  <2> DEFINE p == [page EXCEPT !.ranked = ranked]
  <2>1. /\ p \in Pages /\ p.step = page.step /\ p.submitted = page.submitted
        /\ p.contest = page.contest /\ p.ranked = ranked
    BY <1>a DEF Pages
  <2>2. Shown(p)
    BY <1>6
  <2> HIDE DEF p
  <2> QED BY <1>1, <1>6, <2>1, <2>2
<1>b. page.ranked \in Seq(Preferences)
  BY <1>a DEF Pages
<1>7. ASSUME NEW x \in Candidates, SetRank(x) PROVE PInv'
  <2> DEFINE longer == Append(page.ranked, [candidate |-> x, rank |-> Len(page.ranked) + 1])
  <2>1. OnBallot(Methods) /\ \A i \in DOMAIN page.ranked : page.ranked[i].candidate # x
    BY <1>2, <1>7 DEF SetRank, Methods, RankOf
  <2>2. longer \in Seq(Preferences) /\ InOrder(longer)
    BY <1>a, <1>b, <2>1, RankAdded
  <2>3. Shown([page EXCEPT !.ranked = longer])
    BY <1>a, <1>b, <1>7, NextIsLast DEF SetRank
  <2> HIDE DEF longer
  <2> QED BY <1>6, <2>1, <2>2, <2>3
<1>8. ASSUME NEW x \in Candidates, ClearRank(x) PROVE PInv'
  <2> PICK i \in RankOf(x) :
         LET other(j) == page.ranked[IF j < i THEN j ELSE j + 1] IN
         Shown([page EXCEPT !.ranked =
                  [j \in 1 .. Len(page.ranked) - 1 |->
                     [other(j) EXCEPT !.rank = Closed(@, page.ranked[i].rank)]]])
    BY <1>8 DEF ClearRank
  <2> DEFINE other(j) == page.ranked[IF j < i THEN j ELSE j + 1]
             shorter == [j \in 1 .. Len(page.ranked) - 1 |->
                             [other(j) EXCEPT !.rank = Closed(@, page.ranked[i].rank)]]
  <2>1. OnBallot(Methods)
    BY <1>2, <1>8 DEF ClearRank, Methods
  <2>2. i \in DOMAIN page.ranked
    BY DEF RankOf
  <2>3. shorter \in Seq(Preferences) /\ InOrder(shorter)
    BY <1>a, <1>b, <2>2, RankRemoved
  <2>4. Shown([page EXCEPT !.ranked = shorter])
    OBVIOUS
  <2> HIDE DEF shorter
  <2> QED BY <1>6, <2>1, <2>3, <2>4
<1> QED BY <1>3, <1>4, <1>5, <1>7, <1>8 DEF Mark

LEMMA OpenPageInv ==
    ASSUME PInv, OpenPage PROVE PInv'
<1> DEFINE p == [Fresh EXCEPT !.listed = Votable]
<1>1. p \in Pages /\ p.step = "contest" /\ ~p.submitted /\ p.ranked = <<>>
  <2>1. Votable \in SUBSET Contests
    BY DEF Votable
  <2> QED BY <2>1, FreshType DEF Pages
<1>2. page' = p /\ page.step = "landing" /\ UNCHANGED <<open, votes, request, waits, overlap>>
      /\ visits < MaxVisits /\ visits' = visits + 1
  BY DEF OpenPage
<1> HIDE DEF p
<1>3. PageFits(p)
  BY <1>1 DEF PageFits, InOrder
<1>4. waits = 0
  BY <1>2, NotWaiting
<1>5. visits' \in 0 .. MaxVisits /\ open' \in [Contests -> BOOLEAN]
  BY <1>2, PageAssumption DEF PInv, ServerTypes
<1> QED BY <1>1, <1>2, <1>3, <1>4, <1>5, ShownInv

LEMMA StepsInv ==
    ASSUME PInv, ToBallot \/ Back \/ ToConfirm \/ Finish \/ \E c \in Contests : SelectContest(c)
    PROVE  PInv'
<1>a. page \in Pages /\ PageFits(page)
  BY DEF PInv, PageFits
<1>1. CASE ToBallot
  <2> DEFINE p == [page EXCEPT !.step = "ballot", !.timer = TRUE]
  <2>1. /\ p \in Pages /\ p.step = "ballot" /\ p.submitted = page.submitted
        /\ p.contest = page.contest /\ p.ranked = page.ranked
    BY <1>a DEF Pages, Steps
  <2>2. Shown(p) /\ page.step = "contest" /\ page.contest # None
    BY <1>1 DEF ToBallot
  <2>3. page.contest \in Contests
    BY <1>a, <2>2 DEF Pages
  <2> HIDE DEF p
  <2>4. PageFits(p) /\ ~p.submitted
    BY <1>a, <2>1, <2>2, <2>3 DEF PageFits
  <2> QED BY <2>2, <2>4, ShowInv
<1>2. CASE Back
  <2> DEFINE p == [page EXCEPT !.step = "contest", !.listed = Votable]
  <2>1. /\ p \in Pages /\ p.step = "contest" /\ p.submitted = page.submitted
        /\ p.ranked = page.ranked
    BY <1>a DEF Pages, Steps, Votable
  <2>2. Shown(p) /\ page.step = "ballot"
    BY <1>2 DEF Back
  <2> HIDE DEF p
  <2>4. PageFits(p) /\ ~p.submitted
    BY <1>a, <2>1, <2>2 DEF PageFits
  <2> QED BY <2>2, <2>4, ShowInv
<1>3. CASE ToConfirm
  <2> DEFINE p == [page EXCEPT !.step = "confirm"]
  <2>1. /\ p \in Pages /\ p.step = "confirm" /\ p.submitted = page.submitted
        /\ p.ranked = page.ranked /\ p.contest = page.contest
    BY <1>a DEF Pages, Steps
  <2>2. p.candidate = page.candidate /\ p.party = page.party /\ p.choice = page.choice
    BY <1>a DEF Pages
  <2>3. Shown(p) /\ page.step = "ballot" /\ Complete
    BY <1>3 DEF ToConfirm
  <2> HIDE DEF p
  <2>4. Filled(p)
    BY <2>1, <2>2, <2>3 DEF Complete, Filled
  <2>5. PageFits(p) /\ ~p.submitted
    BY <1>a, <2>1, <2>3, <2>4 DEF PageFits
  <2> QED BY <2>3, <2>5, ShowInv
<1>4. CASE Finish
  BY <1>4, AwayFits, ShowInv DEF Finish
<1>5. ASSUME NEW c \in Contests, SelectContest(c) PROVE PInv'
  <2> DEFINE p == [page EXCEPT !.contest = c]
  <2>1. /\ p \in Pages /\ p.step = page.step /\ p.submitted = page.submitted
        /\ p.contest = c /\ p.ranked = page.ranked
    BY <1>a DEF Pages
  <2>2. Shown(p) /\ page.step = "contest"
    BY <1>5 DEF SelectContest
  <2> HIDE DEF p
  <2>3. PageFits(p) /\ ~p.submitted
    BY <1>a, <2>1, <2>2 DEF PageFits
  <2> QED BY <2>2, <2>3, ShowInv
<1> QED BY <1>1, <1>2, <1>3, <1>4, <1>5

-----------------------------------------------------------------------------
(* Submissions.                                                            *)
LEMMA PayloadType ==
    ASSUME NEW p \in Pages PROVE BallotOf(p) \in Payloads
<1>1. <<>> \in Seq(Preferences)
  OBVIOUS
<1>2. /\ p.candidate \in Candidates \cup {None} /\ p.choice \in {None, "YES", "NO"}
      /\ p.party \in Parties \cup {None} /\ p.ranked \in Seq(Preferences)
  BY DEF Pages
<1> QED BY <1>1, <1>2 DEF BallotOf, Payloads

LEMMA RowsType ==
    ASSUME NEW m \in Methods, NEW b \in Payloads PROVE VoteRows(m, b) \in SUBSET Rows
<1>1. /\ b.candidate \in Candidates \cup {"YES", "NO", None} /\ b.party \in Parties \cup {None}
      /\ b.ranked \in Seq(Preferences)
  BY DEF Payloads
<1>2. \A i \in DOMAIN b.ranked : b.ranked[i] \in Preferences
  BY <1>1, LenProperties, ElementOfSeq
<1>3. \A i \in DOMAIN b.ranked : Row(b.ranked[i].candidate, None, b.ranked[i].rank) \in Rows
  BY <1>2 DEF Preferences, Row, Rows
<1>4. \A c \in Candidates \cup {"YES", "NO", None}, q \in Parties \cup {None} : Row(c, q, 0) \in Rows
  BY DEF Row, Rows
<1>5. Row(b.candidate, None, 0) \in Rows /\ Row(None, b.party, 0) \in Rows
  BY <1>1, <1>4
<1> QED BY <1>3, <1>5 DEF VoteRows

LEMMA SubmitInv ==
    ASSUME PInv, NEW s \in Slots, HandleSubmit(s) PROVE PInv'
<1> DEFINE r == [stage |-> "sent", contest |-> page.contest, ballot |-> BallotOf(page)]
<1>a. /\ page \in Pages /\ PageFits(page) /\ ServerTypes
      /\ UNCHANGED <<page, open, votes, visits>>
  BY DEF PInv, PageFits, HandleSubmit
<1>1. page.step = "confirm" /\ ~page.submitted /\ page.contest \in Contests
  BY <1>a DEF HandleSubmit, PageFits
<1>2. request' = [request EXCEPT ![s] = r] /\ waits' = s /\ overlap' = (overlap \/ Busy # {})
  BY DEF HandleSubmit, Payload, BallotOf
<1>3. /\ r \in Requests /\ r.stage = "sent" /\ r.contest = page.contest
      /\ r.ballot = BallotOf(page)
  BY <1>a, <1>1, PayloadType DEF Requests
<1> HIDE DEF r
<1>4. request'[s] = r /\ \A t \in Slots : t # s => request'[t] = request[t]
  BY <1>a, <1>2 DEF ServerTypes
<1>5. ServerTypes'
  <2>1. request' \in [Slots -> Requests]
    BY <1>a, <1>2, <1>3 DEF ServerTypes
  <2>2. waits' \in 0 .. MaxRequests /\ overlap' \in BOOLEAN
    BY <1>2, PageAssumption DEF Slots
  <2> QED BY <1>a, <1>1, <1>3, <1>4, <2>1, <2>2 DEF ServerTypes
<1>6. Waiting'
  BY <1>a, <1>1, <1>2, <1>3, <1>4 DEF Waiting
<1>7. Thanked'
  BY <1>a, <1>1 DEF Thanked
<1>8. OneAtATime'
  <2>0. CASE overlap'
    BY <2>0 DEF OneAtATime
  <2>5. CASE ~overlap'
    <3>1. ~overlap /\ Busy = {}
      BY <1>2, <2>5
    <3>2. Busy' \subseteq {s}
      BY <1>4, <3>1 DEF Busy
    <3>3. \A t \in Slots : request'[t].stage # "checked"
      BY <1>3, <1>4, <3>1 DEF Busy
    <3>4. \A d \in Contests : Len(votes'[d]) <= 1
      BY <1>a, <3>1 DEF PInv, OneAtATime
    <3> QED BY <3>2, <3>3, <3>4 DEF OneAtATime
  <2> QED BY <2>0, <2>5
<1> QED BY <1>a, <1>5, <1>6, <1>7, <1>8 DEF PInv

LEMMA CheckInv ==
    ASSUME PInv, NEW s \in Slots, Check(s) PROVE PInv'
<1> DEFINE r == [request[s] EXCEPT !.stage = "checked"]
<1>a. ServerTypes /\ UNCHANGED <<page, open, votes, waits, visits, overlap>>
      /\ request[s] \in Requests /\ request[s].stage = "sent"
  BY DEF PInv, ServerTypes, Check
<1>1. request' = [request EXCEPT ![s] = r] /\ votes[request[s].contest] = <<>>
  BY DEF Check, MayVote
<1>2. /\ r \in Requests /\ r.stage = "checked" /\ r.contest = request[s].contest
      /\ r.ballot = request[s].ballot
  BY <1>a DEF Requests
<1> HIDE DEF r
<1>3. request'[s] = r /\ \A t \in Slots : t # s => request'[t] = request[t]
  BY <1>a, <1>1 DEF ServerTypes
<1>4. ServerTypes'
  <2>1. request' \in [Slots -> Requests]
    BY <1>a, <1>1, <1>2 DEF ServerTypes
  <2> QED BY <1>a, <1>2, <1>3, <2>1 DEF ServerTypes
<1>5. Busy' = Busy
  BY <1>a, <1>2, <1>3 DEF Busy
<1>6. OneAtATime'
  BY <1>a, <1>1, <1>2, <1>3, <1>5 DEF PInv, OneAtATime
<1>7. Waiting'
  <2>1. waits # 0 => waits \in Slots
    BY <1>a, PageAssumption DEF ServerTypes, Slots
  <2> QED BY <1>a, <1>2, <1>3, <2>1 DEF PInv, Waiting
<1>8. Thanked'
  BY <1>a DEF PInv, Thanked
<1> QED BY <1>a, <1>4, <1>6, <1>7, <1>8 DEF PInv

(* A submission is over.  What is common to all its ends.                  *)
LEMMA OverTypes ==
    ASSUME PInv, NEW s \in Slots, request' = [request EXCEPT ![s] = NoRequest],
           votes' \in [Contests -> Seq(SUBSET Rows)], waits' \in {0, waits},
           waits' # 0 => waits # s, waits' # 0 => page' = page,
           UNCHANGED <<open, visits, overlap>>
    PROVE  /\ ServerTypes' /\ Waiting'
           /\ Busy' = Busy \ {s}
           /\ \A t \in Slots : t # s => request'[t] = request[t]
           /\ request'[s].stage = "none"
<1>a. ServerTypes /\ Waiting
  BY DEF PInv
<1>1. request'[s] = NoRequest /\ \A t \in Slots : t # s => request'[t] = request[t]
  BY <1>a DEF ServerTypes
<1>2. request' \in [Slots -> Requests]
  BY <1>a, NoRequestType DEF ServerTypes
<1>3. waits' \in 0 .. MaxRequests
  BY <1>a, PageAssumption DEF ServerTypes
<1>4. ServerTypes'
  BY <1>a, <1>1, <1>2, <1>3, NoRequestType DEF ServerTypes
<1>5. Waiting'
  <2>1. waits' # 0 => waits' = waits /\ waits \in Slots /\ waits # s
    BY <1>a, PageAssumption DEF ServerTypes, Slots
  <2> QED BY <1>a, <1>1, <2>1 DEF Waiting
<1>6. Busy' = Busy \ {s}
  BY <1>1, NoRequestType DEF Busy
<1> QED BY <1>1, <1>4, <1>5, <1>6, NoRequestType

LEMMA GivenUpInv ==
    ASSUME PInv, NEW s \in Slots, request' = [request EXCEPT ![s] = NoRequest],
           Heard(s, page), UNCHANGED <<open, votes, visits, overlap>>
    PROVE  PInv'
<1>1. page' = page /\ waits' \in {0, waits} /\ (waits' # 0 => waits # s)
  BY DEF Heard
<1>2. votes' \in [Contests -> Seq(SUBSET Rows)]
  BY DEF PInv, ServerTypes
<1>3. /\ ServerTypes' /\ Waiting' /\ Busy' = Busy \ {s}
      /\ \A t \in Slots : t # s => request'[t] = request[t]
      /\ request'[s].stage = "none"
  BY <1>1, <1>2, OverTypes
<1>4. OneAtATime'
  BY <1>3 DEF PInv, OneAtATime
<1> QED BY <1>1, <1>3, <1>4 DEF PInv, Thanked

LEMMA CommitInv ==
    ASSUME PInv, NEW s \in Slots, Commit(s) PROVE PInv'
<1> DEFINE c == request[s].contest
           rows == VoteRows(Method[c], request[s].ballot)
<1>a. ServerTypes /\ PageFits(page) /\ request[s] \in Requests /\ request[s].stage = "checked"
      /\ c \in Contests /\ votes \in [Contests -> Seq(SUBSET Rows)]
  BY DEF PInv, ServerTypes, Commit
<1>1. rows \in SUBSET Rows
  BY <1>a, RowsType, PageAssumption DEF Requests
<1>2. /\ votes' = [votes EXCEPT ![c] = Append(votes[c], rows)]
      /\ request' = [request EXCEPT ![s] = NoRequest]
      /\ Heard(s, [page EXCEPT !.submitted = TRUE])
      /\ UNCHANGED <<open, visits, overlap>>
  BY DEF Commit
<1>3. /\ Append(votes[c], rows) \in Seq(SUBSET Rows)
      /\ Len(Append(votes[c], rows)) = Len(votes[c]) + 1
      /\ \A i \in 1 .. Len(votes[c]) : Append(votes[c], rows)[i] = votes[c][i]
      /\ Append(votes[c], rows)[Len(votes[c]) + 1] = rows
      /\ Len(votes[c]) \in Nat /\ DOMAIN votes[c] = 1 .. Len(votes[c])
  <2>1. votes[c] \in Seq(SUBSET Rows)
    BY <1>a
  <2> HIDE DEF c, rows
  <2> QED BY <1>1, <2>1, AppendProperties, LenProperties
<1> HIDE DEF rows
<1>4. /\ votes' \in [Contests -> Seq(SUBSET Rows)]
      /\ votes'[c] = Append(votes[c], rows)
      /\ \A d \in Contests : d # c => votes'[d] = votes[d]
  BY <1>a, <1>2, <1>3
<1>5. Len(votes'[c]) \in DOMAIN votes'[c] /\ votes'[c][Len(votes'[c])] = rows
      /\ \A i \in DOMAIN votes[c] : i \in DOMAIN votes'[c] /\ votes'[c][i] = votes[c][i]
  <2>1. DOMAIN votes'[c] = 1 .. Len(votes'[c])
    BY <1>a, <1>4, LenProperties
  <2> QED BY <1>3, <1>4, <2>1
<1>6. \/ page' = page /\ waits' \in {0, waits} /\ (waits' # 0 => waits # s)
      \/ page' = [page EXCEPT !.submitted = TRUE] /\ waits = s /\ waits' = 0
  BY <1>2 DEF Heard
<1>7. /\ ServerTypes' /\ Waiting' /\ Busy' = Busy \ {s}
      /\ \A t \in Slots : t # s => request'[t] = request[t]
      /\ request'[s].stage = "none"
  BY <1>2, <1>4, <1>6, OverTypes
<1>8. OneAtATime'
  <2>0. CASE overlap
    BY <1>2, <2>0 DEF OneAtATime
  <2>5. CASE ~overlap
    <3>1. Busy = {s} /\ votes[c] = <<>> /\ \A d \in Contests : Len(votes[d]) <= 1
      BY <1>a, <2>5 DEF PInv, OneAtATime, Busy
    <3>2. Busy' = {}
      BY <1>7, <3>1
    <3>3. \A t \in Slots : request'[t].stage = "none"
      BY <3>2 DEF Busy
    <3>4. \A d \in Contests : Len(votes'[d]) <= 1
      <4>1. Len(votes[c]) = 0
        BY <3>1
      <4>2. Len(votes'[c]) = 1
        BY <1>3, <1>4, <4>1
      <4>3. \A d \in Contests : d # c => Len(votes'[d]) <= 1
        BY <1>4, <3>1
      <4>4. Len(votes'[c]) <= 1
        BY <4>2
      <4> HIDE DEF c
      <4> QED BY <4>3, <4>4
    <3> QED BY <3>2, <3>3, <3>4 DEF OneAtATime
  <2> QED BY <2>0, <2>5
<1>9. CASE page' = page
  <2>1. Thanked'
    <3> SUFFICES ASSUME page.submitted
                 PROVE \E i \in DOMAIN votes'[page.contest] :
                         votes'[page.contest][i] = VoteRows(Method[page.contest], BallotOf(page))
      BY <1>9 DEF Thanked
    <3>1. page.contest \in Contests
      BY <1>a DEF PageFits
    <3>2. PICK i \in DOMAIN votes[page.contest] :
             votes[page.contest][i] = VoteRows(Method[page.contest], BallotOf(page))
      BY DEF PInv, Thanked
    <3>3. i \in DOMAIN votes'[page.contest] /\ votes'[page.contest][i] = votes[page.contest][i]
      BY <1>4, <1>5, <3>1, <3>2
    <3> QED BY <3>2, <3>3
  <2> QED BY <1>7, <1>8, <1>9, <2>1 DEF PInv
<1>10. CASE page' = [page EXCEPT !.submitted = TRUE] /\ waits = s /\ waits' = 0
  <2>0. s # 0
    BY PageAssumption DEF Slots
  <2>1. /\ page.step = "confirm" /\ c = page.contest /\ request[s].ballot = BallotOf(page)
    BY <1>10, <2>0 DEF PInv, Waiting
  <2>2. page \in Pages
    BY <1>a DEF PageFits
  <2>3. /\ page' \in Pages /\ page'.step = page.step /\ page'.contest = page.contest
        /\ page'.ranked = page.ranked /\ page'.candidate = page.candidate
        /\ page'.party = page.party /\ page'.choice = page.choice
    BY <1>10, <2>2 DEF Pages
  <2>4. PageFits(page)'
    BY <1>a, <2>1, <2>3 DEF PageFits, Filled
  <2>5. BallotOf(page)' = BallotOf(page)
    BY <2>3 DEF BallotOf
  <2>6. Thanked'
    BY <1>5, <2>1, <2>3, <2>5 DEF Thanked, rows
  <2> QED BY <1>7, <1>8, <2>4, <2>6 DEF PInv
<1> QED BY <1>6, <1>9, <1>10

LEMMA StepInv == PInv /\ [Next]_pageVars => PInv'
<1> SUFFICES ASSUME PInv, [Next]_pageVars PROVE PInv'
  OBVIOUS
<1>a. ServerTypes /\ 0 \in 0 .. MaxRequests
  BY PageAssumption DEF PInv
<1>1. CASE Expire
  <2>1. open \in [Contests -> BOOLEAN] /\ visits \in 0 .. MaxVisits /\ ~Away.submitted
    BY <1>a, AwayFits DEF ServerTypes
  <2>2. ServerTypes' /\ Waiting'
    BY <1>1, <1>a DEF Expire, ServerTypes, Waiting
  <2>3. OneAtATime'
    BY <1>1 DEF Expire, PInv, OneAtATime, Busy
  <2>4. page' = Away /\ PageFits(Away)
    BY <1>1, AwayFits DEF Expire
  <2> QED BY <2>1, <2>2, <2>3, <2>4 DEF PInv, Thanked
<1>2. ASSUME NEW c \in Contests, Close(c) PROVE PInv'
  BY <1>2 DEF Close, PInv, ServerTypes, Waiting, Thanked, OneAtATime, Busy
<1>3. CASE TimedOut
  BY <1>3, <1>a DEF TimedOut, PInv, ServerTypes, Waiting, Thanked, OneAtATime, Busy
<1>4. CASE Serve
  <2>1. ASSUME NEW s \in Slots, Refuse(s) \/ Fail(s) PROVE PInv'
    BY <2>1, GivenUpInv DEF Refuse, Fail
  <2> QED BY <1>4, <2>1, CheckInv, CommitInv DEF Serve
<1>5. CASE UNCHANGED pageVars
  BY <1>5 DEF pageVars, PInv, ServerTypes, Waiting, Thanked, OneAtATime, Busy
<1> QED BY <1>1, <1>2, <1>3, <1>4, <1>5, OpenPageInv, StepsInv, MarkInv, SubmitInv DEF Next

(* Every behaviour of the page and its submissions is well typed.          *)
THEOREM TypeCorrect == Spec => []TypeOK
<1>1. PInv => TypeOK
  BY DEF PInv, PageFits, Pages, ServerTypes, Requests, TypeOK
<1> QED BY <1>1, InitInv, StepInv, PTL DEF Spec

(* The preferences of a ballot are in their order.                         *)
THEOREM RanksStayInOrder == Spec => []RanksInOrder
<1>1. PInv => RanksInOrder
  BY DEF PInv, PageFits, InOrder, RanksInOrder
<1> QED BY <1>1, InitInv, StepInv, PTL DEF Spec

(* The server's check of a ballot accepts what the page's has.             *)
THEOREM ChecksAgree == Spec => []NeverMalformed
<1>1. PInv => NeverMalformed
  <2> SUFFICES ASSUME PInv, page.step = "confirm"
               PROVE  ValidPayload(Method[page.contest], Payload)
    BY DEF NeverMalformed
  <2>1. Filled(page) /\ page.contest \in Contests /\ InOrder(page.ranked)
        /\ page.ranked \in Seq(Preferences)
    BY DEF PInv, PageFits, Pages
  <2>2. Method[page.contest] \in Methods
    BY <2>1, PageAssumption
  <2>3. ConsecutiveRanks(page.ranked)
    BY <2>1, LenProperties DEF InOrder, ConsecutiveRanks
  <2>4. CASE Ranked(Method[page.contest])
    <3>1. Payload.ranked = page.ranked
      BY <2>4 DEF Payload
    <3>2. page.ranked # <<>>
      BY <2>1, <2>4 DEF Filled, Ranked
    <3> QED BY <2>3, <2>4, <3>1, <3>2 DEF ValidPayload, Ranked
  <2>5. CASE ~Ranked(Method[page.contest])
    BY <2>1, <2>2, <2>5, PageAssumption DEF Filled, Payload, ValidPayload, Ranked, Methods
  <2> QED BY <2>4, <2>5
<1> QED BY <1>1, InitInv, StepInv, PTL DEF Spec

(* A receipt means a recorded vote, with the marks that were confirmed.    *)
THEOREM ReceiptIsTrue == Spec => []ReceiptMeansRecorded
<1>1. PInv => ReceiptMeansRecorded
  BY DEF PInv, Thanked, ReceiptMeansRecorded, Payload, BallotOf
<1> QED BY <1>1, InitInv, StepInv, PTL DEF Spec

(* Sending again does not vote again, unless two are under way at once.    *)
THEOREM ResendingIsSafe == Spec => []ResentVotesOnce
<1>1. PInv => ResentVotesOnce
  BY DEF PInv, OneAtATime, ResentVotesOnce
<1> QED BY <1>1, InitInv, StepInv, PTL DEF Spec
=============================================================================
