SPECIFICATION Spec
CONSTANTS
    old = old
    new = new
    q1 = q1
    q2 = q2
    Phones = {old, new}
    Checks = {q1, q2}
    MaxKeys = 2
    MaxProofs = 2
    MaxCodes = 2
    Registered = old
INVARIANTS VerifiedSinceAsked NoPhoneLockedOut
PROPERTIES CodesDie ProofIsNoticed
CHECK_DEADLOCK FALSE
