SPECIFICATION SerialSpec
CONSTANTS
    Contests <- OneContest
    Method <- AMS
    InitialRows <- OpenEnded
    Created <- Nobody
    Requested <- Nobody
    MaxTime = 0
    Writers = {}
    Requests = {r1, r2, r3}
    Lockers = {r1, r2, r3}
    NoLocker = NoLocker
    NoRow = NoRow
    Voters = {v1, v2, v3}
    Tokens = {t1}
    Areas <- TwoAreas
    Candidates <- OneCandidate
    BallotPapers <- AMSPapers
    Barred <- Nobody
INVARIANTS OneVotePerVoter TokenSpentOnce TallyMatchesVotes VotesAreAdmissible
PROPERTIES ImplementsOneVote
SYMMETRY Symmetry
CHECK_DEADLOCK FALSE
