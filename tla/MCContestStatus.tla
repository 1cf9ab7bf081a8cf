--------------------------- MODULE MCContestStatus ---------------------------
(***************************************************************************)
(* Instances of OfficialsInTurn for TLC.  Officials create a contest as a  *)
(* draft or published, with no window, an open-ended one or a full one;    *)
(* afterwards they send the status alone (the buttons of the portal) or    *)
(* the times alone.  Two requests may overlap on the contest.              *)
(***************************************************************************)
EXTENDS OfficialsInTurn, TLC

MCContests == {"e1"}
MCInitialRows == {AbsentRow}

MCCreated ==
    {[status |-> s, opens |-> o, closes |-> c] :
        s \in {NoStatus, "DRAFT"}, o \in {NoTime, 0, 2}, c \in {NoTime, 2}}

StatusOnly == {[NoPatch EXCEPT !.status = s] : s \in Statuses}
TimesOnly == {[NoPatch EXCEPT !.closes = 3], [NoPatch EXCEPT !.opens = 1]}

MCRequested == StatusOnly \cup TimesOnly

Symmetry == Permutations(Writers)
=============================================================================
