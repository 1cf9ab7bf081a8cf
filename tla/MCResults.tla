------------------------------ MODULE MCResults ------------------------------
(***************************************************************************)
(* Instances of Results and AuditReport for TLC: an election or a          *)
(* referendum, its results or its audit report asked for while votes, an   *)
(* official and its schedule are at work and a discrepancy is reported.    *)
(***************************************************************************)
EXTENDS AuditReport

Both == {"STV", "REFERENDUM"}
OwnMethod == [c \in Both |-> c]
OneArea == {"a1"}
OneCandidate == {"x"}

(* The choice of a referendum which, to an election, is a preference.      *)
XPaper ==
    {[area |-> "a1", candidate |-> "x", party |-> None,
      ranked |-> <<[candidate |-> "x", rank |-> 1]>>]}
Nobody == {}

(* One of the two is cancelled; the other one is open from the start, to   *)
(* be closed, reopened and overtaken by its end.                           *)
OpenOrNot ==
    {[status |-> "OPEN", opens |-> NoTime, closes |-> 1],
     [status |-> "CANCELLED", opens |-> NoTime, closes |-> NoTime]}
OneOpen == AuditInit /\ \E c \in Contests : \A d \in Contests : contest[d].status = "OPEN" <=> d = c
MCAuditSpec == OneOpen /\ [][AuditNext]_auditVars
Buttons == {[NoPatch EXCEPT !.status = s] : s \in {"OPEN", "CLOSED"}}

(* A discrepancy of the election, which is resolved and blanked.           *)
OneCase == {"k1"}
OfElection == [k \in OneCase |-> "STV"]
CaseButtons ==
    {[status |-> "RESOLVED", summary |-> s] : s \in {"empty", "text"}}
        \cup {[status |-> NoStatus, summary |-> "empty"]}
=============================================================================
