SPECIFICATION Spec
CONSTANTS
    Contests <- Kinds
    Method <- OwnMethod
    Standing <- OnTheBallots
    Closing = {"REFERENDUM"}
    Parties = {"p"}
    Area = "north"
    MaxRequests = 2
    MaxVisits = 2
INVARIANTS NeverMalformed ReceiptMeansRecorded ResentVotesOnce
CHECK_DEADLOCK FALSE
