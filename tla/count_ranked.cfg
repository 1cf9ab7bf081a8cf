SPECIFICATION SeatSpec
CONSTANTS
    Candidates <- ABC
    RankedPapers <- MCPapers
    MaxBallots = 4
    Seats = 2
    Unit = 12
    Constituencies <- Areas
    Parties <- PQR
    PartyOf <- Membership
    CandidateTallies <- MCTallies
    ListTallies <- MCLists
INVARIANTS LoserNeverWins QuotaElects LoneMajority MoreVotesNoFewerSeats
PROPERTIES CountEnds
CHECK_DEADLOCK FALSE
