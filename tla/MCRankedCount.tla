---------------------------- MODULE MCRankedCount ----------------------------
(***************************************************************************)
(* Instances of RankedCount for TLC: three candidates, all of them or one  *)
(* of them ranked, one twice (the backend looks at the ranks alone), and a *)
(* ballot listed in the order of the clicks.                               *)
(***************************************************************************)
EXTENDS SeatAllocation

ABC == {"a", "b", "c"}

Paper(prefs) == [area |-> "a1", candidate |-> None, party |-> None, ranked |-> prefs]

Rankings == {s \in [1 .. 3 -> ABC] : IsInjective(s)} \cup {<<c>> : c \in ABC} \cup {<<"a", "a">>}

MCPapers ==
    {Paper([k \in DOMAIN s |-> [candidate |-> s[k], rank |-> k]]) : s \in Rankings}
        \cup {Paper(<<[candidate |-> "b", rank |-> 2], [candidate |-> "c", rank |-> 1]>>)}

(* Two candidates of one party and one of another; a third party is on the *)
(* lists alone.  In each constituency a wins, b and c are level, or nobody *)
(* has voted.                                                              *)
Areas == {"a1", "a2", "a3"}
PQR == {"p", "q", "r"}
Membership == [c \in ABC |-> IF c = "a" THEN "p" ELSE "q"]
Tally(a, b, c) == [x \in ABC |-> CASE x = "a" -> a [] x = "b" -> b [] OTHER -> c]
MCTallies == [Areas -> {Tally(2, 1, 1), Tally(0, 1, 1), Tally(0, 0, 0)}]
MCLists == [PQR -> {0, 1, 3, 5}]
=============================================================================
