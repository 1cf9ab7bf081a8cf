SPECIFICATION Spec
CONSTANTS
    ann = ann
    bob = bob
    desk = desk
    tablet = tablet
    People = {ann, bob}
    Browsers = {desk, tablet}
    n1 = n1
    Numbers = {n1, n2}
    Forms <- TwoAtOnce
    Sessions = {s1, s2}
    VoterIds = {v1, v2, v3}
    MaxLost = 1
    None = None
INVARIANTS OneVoterPerNumber DocumentBehindVoter
PROPERTIES ApplicantReachesVoter
CHECK_DEADLOCK FALSE
