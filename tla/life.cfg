SPECIFICATION TurnSpec
CONSTANTS
    Contests <- MCContests
    Writers = {w1, w2}
    Lockers = {w1, w2}
    NoLocker = NoLocker
    InitialRows <- MCInitialRows
    Created <- MCCreated
    Requested <- MCRequested
    MaxTime = 5
SYMMETRY Symmetry
INVARIANTS ManualCloseStaysClosed
PROPERTIES SerialTransitionsAreValid SerialReopenSurvives TimesChangeOnlyWhenSent
CHECK_DEADLOCK FALSE
