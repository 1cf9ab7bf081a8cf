------------------------------ MODULE MCVoting ------------------------------
(***************************************************************************)
(* Instances of Voting for TLC.                                            *)
(***************************************************************************)
EXTENDS Voting, TLC

Paper(area, candidate, party) ==
    [area |-> area, candidate |-> candidate, party |-> party, ranked |-> <<>>]

(* One election, open for as long as the run lasts.                        *)
OneContest == {"e1"}
FPTP == [c \in OneContest |-> "FPTP"]
AMS == [c \in OneContest |-> "AMS"]
OpenEnded == {[status |-> "OPEN", opens |-> NoTime, closes |-> NoTime]}
OneArea == {"a1"}
TwoAreas == {"a1", "a2"}
OneCandidate == {"x"}
OnePaper == {Paper("a1", "x", None)}
Nobody == {}

(* A vote for a candidate, one for a party alone in another constituency,  *)
(* which counts towards no tally, and an empty one.                        *)
AMSPapers == OnePaper \cup {Paper("a2", None, "p"), Paper(None, None, None)}

(* The election has a window of its own and an official at work on it.     *)
Scheduled == {[status |-> "OPEN", opens |-> 1, closes |-> 1]}
Buttons == {[NoPatch EXCEPT !.status = "CLOSED"]}

Symmetry == Permutations(Requests) \cup Permutations(Voters)
=============================================================================
