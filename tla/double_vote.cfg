SPECIFICATION Spec
CONSTANTS
    Contests <- OneContest
    Method <- FPTP
    InitialRows <- OpenEnded
    Created <- Nobody
    Requested <- Nobody
    MaxTime = 0
    Writers = {}
    Requests = {r1, r2}
    Lockers = {r1, r2}
    NoLocker = NoLocker
    NoRow = NoRow
    Voters = {v1, v2}
    Tokens = {t1}
    Areas <- OneArea
    Candidates <- OneCandidate
    BallotPapers <- OnePaper
    Barred <- Nobody
INVARIANTS OneVotePerVoter
CHECK_DEADLOCK FALSE
