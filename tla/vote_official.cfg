SPECIFICATION FairSpec
CONSTANTS
    Contests <- OneContest
    Method <- FPTP
    InitialRows <- Scheduled
    Created <- Nobody
    Requested <- Buttons
    MaxTime = 2
    Writers = {w1}
    Requests = {r1, r2}
    Lockers = {r1, r2, w1}
    NoLocker = NoLocker
    NoRow = NoRow
    Voters = {v1}
    Tokens = {t1}
    Areas <- OneArea
    Candidates <- OneCandidate
    BallotPapers <- OnePaper
    Barred <- Nobody
INVARIANTS RefusedLeavesNothing
PROPERTIES EveryRequestAnswered
CHECK_DEADLOCK FALSE
