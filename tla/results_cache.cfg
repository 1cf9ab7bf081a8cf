SPECIFICATION MCAuditSpec
CONSTANTS
    Contests <- Both
    Method <- OwnMethod
    InitialRows <- OpenOrNot
    Created <- Nobody
    Requested <- Buttons
    MaxTime = 2
    Writers = {w1}
    Requests = {r1}
    Readers = {g1}
    Lockers = {r1, w1, g1}
    NoLocker = NoLocker
    NoRow = NoRow
    NoResult = NoResult
    Voters = {v1}
    Tokens = {}
    Areas <- OneArea
    Candidates <- OneCandidate
    BallotPapers <- XPaper
    Barred <- Nobody
    Cases <- OneCase
    CaseContest <- OfElection
    CasePatches <- CaseButtons
INVARIANTS CacheMissesOnlyLateVotes ReportReconciles WindowBreachExplained ReportNeverForgets
CHECK_DEADLOCK FALSE
