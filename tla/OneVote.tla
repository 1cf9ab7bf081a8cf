------------------------------- MODULE OneVote -------------------------------
(***************************************************************************)
(* What the voting service promises, without requests, tokens, ledgers or  *)
(* transactions: a voter who is entitled to vote in a contest casts one    *)
(* valid ballot, in one step, and it stands.                               *)
(***************************************************************************)
EXTENDS Ballots

CONSTANTS Voters, Contests, BallotPapers, Method, Barred, NoBallot

VARIABLE cast      \* the ballot each voter has cast in each contest

Init == cast = [vc \in Voters \X Contests |-> NoBallot]

Cast(v, c, b) ==
    /\ <<v, c>> \notin Barred
    /\ ValidPayload(Method[c], b)
    /\ cast[<<v, c>>] = NoBallot
    /\ cast' = [cast EXCEPT ![<<v, c>>] = b]

Next == \E v \in Voters, c \in Contests, b \in BallotPapers : Cast(v, c, b)

Spec == Init /\ [][Next]_cast
=============================================================================
