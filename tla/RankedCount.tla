----------------------------- MODULE RankedCount -----------------------------
(***************************************************************************)
(* Counting the ranked ballots of one constituency: _stv_count and         *)
(* _av_count of app/service/result_service.py.  A step is one pass of the  *)
(* while loop, or of the inner loop that seats the newly elected.          *)
(*                                                                         *)
(* The counts are kept in a dict, so ties fall to the candidate counted    *)
(* first, that is to the order of the ballots; weights are floats in the   *)
(* code, here multiples of 1/Unit.                                         *)
(***************************************************************************)
EXTENDS Ballots, FiniteSetsExt, Functions

CONSTANTS
    Candidates,
    RankedPapers,   \* ranked ballots voters cast
    MaxBallots,     \* bound on the ballots of the constituency
    Seats,          \* seats_per_constituency, 5 in the code
    Unit

ASSUME SeatsAssumption == Seats \in Nat \ {0} /\ Unit \in Nat \ {0}
ASSUME CandidatesAssumption == IsFiniteSet(Candidates)

(* Ballots have passed the validation of voting_service.py.                *)
ASSUME PapersAssumption ==
    /\ MaxBallots \in Nat
    /\ \A b \in RankedPapers : /\ b.ranked \in Seq([candidate : Candidates, rank : Nat])
                               /\ ValidPayload("STV", b)

VARIABLES
    method,       \* the electoral system of the contest
    ballots,      \* candidates of each ballot, best first
    weight,       \* what each ballot still counts for
    elected,      \* candidates elected, in that order
    eliminated,
    queue,        \* newly elected candidates still to be seated, with their counts
    done

countVars == <<method, ballots, weight, elected, eliminated, queue, done>>

(* The vote rows of a ballot, sorted by rank (_votes_to_ballots).          *)
InRankOrder(rows) ==
    [k \in 1 .. Cardinality(rows) |-> (CHOOSE row \in rows : row.rank = k).candidate]

Init ==
    /\ method \in {"STV", "ALTERNATIVE_VOTE"}
    /\ ballots \in UNION {[1 .. n -> {InRankOrder(VoteRows("STV", b)) : b \in RankedPapers}] :
                             n \in 1 .. MaxBallots}
    /\ weight = [i \in DOMAIN ballots |-> Unit]
    /\ elected = <<>> /\ eliminated = {} /\ queue = {} /\ done = FALSE

-----------------------------------------------------------------------------
OutButEliminated == Range(elected) \* mutant: the eliminated go on being counted

(* Candidates the ballots no longer count for.                             *)
Out == eliminated \cup Range(elected)

(* c is the first candidate on the ballot who is not out.                  *)
CountsFor(prefs, out, c) ==
    /\ c \notin out
    /\ \E k \in DOMAIN prefs : prefs[k] = c /\ \A j \in 1 .. k - 1 : prefs[j] \in out

Backing(c) == {i \in DOMAIN ballots : CountsFor(ballots[i], Out, c)}

WeightOf(B) == MapThenSumSet(LAMBDA i : weight[i], B)
Count(c) == WeightOf(Backing(c))

(* The candidates in the dict of counts, and each one's place in it.       *)
Counted == {c \in Candidates : Backing(c) # {}}
Place(c) == Min(Backing(c))

(* The least count, the first such candidate in the dict if there are more.*)
IsLowest(c) ==
    \A d \in Counted \ {c} : \/ Count(c) < Count(d)
                             \/ Count(c) = Count(d) /\ Place(c) < Place(d)

QuotaOfHare == Len(ballots) \div Seats + 1   \* mutant: the votes over the seats
Quota == Len(ballots) \div (Seats + 1) + 1

ReachQuota == {c \in Counted : Count(c) >= Quota * Unit}

HasMajority(c) == 2 * Count(c) > WeightOf(UNION {Backing(d) : d \in Counted})

OneOfThoseLeft(c, w) == w \in Counted \ {c}   \* mutant: others may be left too
OnlyOneLeft(c, w) == Counted \ {c} = {w}

-----------------------------------------------------------------------------
AVRound == method = "ALTERNATIVE_VOTE" /\ ~done

AVElect(c) ==
    /\ AVRound
    /\ HasMajority(c)
    /\ elected' = <<c>> /\ done' = TRUE
    /\ UNCHANGED <<method, ballots, weight, eliminated, queue>>

AVEliminate(c) ==
    /\ AVRound
    /\ \A d \in Counted : ~HasMajority(d)
    /\ IsLowest(c) /\ Cardinality(Counted) > 2
    /\ eliminated' = eliminated \cup {c}
    /\ UNCHANGED <<method, ballots, weight, elected, queue, done>>

(* The elimination that leaves a single candidate elects it.               *)
AVLast(c, w) ==
    /\ AVRound
    /\ \A d \in Counted : ~HasMajority(d)
    /\ IsLowest(c) /\ OnlyOneLeft(c, w)
    /\ eliminated' = eliminated \cup {c}
    /\ elected' = <<w>> /\ done' = TRUE
    /\ UNCHANGED <<method, ballots, weight, queue>>

STVRound == method = "STV" /\ ~done /\ queue = {} /\ Len(elected) < Seats

STVElect ==
    /\ STVRound
    /\ ReachQuota # {}
    /\ queue' = {[candidate |-> c, count |-> Count(c), place |-> Place(c)] : c \in ReachQuota}
    /\ UNCHANGED <<method, ballots, weight, elected, eliminated, done>>

(* The surplus goes to the ballots the candidate is first on among those   *)
(* who are not out, the candidate being in elected by then.                *)
Transferred(q) ==
    [i \in DOMAIN ballots |->
        IF CountsFor(ballots[i], Out \cup {q.candidate}, q.candidate)
        THEN (weight[i] * (q.count - Quota * Unit)) \div q.count
        ELSE weight[i]]

(* The newly elected take their seats in the order of the dict, while      *)
(* there are any.                                                          *)
STVSeat(q) ==
    /\ \A p \in queue : q.place <= p.place
    /\ elected' = Append(elected, q.candidate)
    /\ weight' = Transferred(q)
    /\ queue' = IF Len(elected') >= Seats THEN {} ELSE queue \ {q}
    /\ UNCHANGED <<method, ballots, eliminated, done>>

STVEliminate(c) ==
    /\ STVRound
    /\ ReachQuota = {} /\ IsLowest(c)
    /\ eliminated' = eliminated \cup {c}
    /\ UNCHANGED <<method, ballots, weight, elected, queue, done>>

(* All seats are filled, or no ballot counts for anyone any more.          *)
STVStop ==
    /\ method = "STV" /\ ~done /\ queue = {}
    /\ Len(elected) >= Seats \/ Counted = {}
    /\ done' = TRUE
    /\ UNCHANGED <<method, ballots, weight, elected, eliminated, queue>>

Next ==
    \/ \E c \in Counted : AVElect(c) \/ AVEliminate(c) \/ STVEliminate(c)
    \/ \E c, w \in Counted : AVLast(c, w)
    \/ \E q \in queue : STVSeat(q)
    \/ STVElect \/ STVStop

(* The count runs to its end in one go, nothing else has to happen.        *)
Spec == Init /\ [][Next]_countVars /\ WF_countVars(Next)

-----------------------------------------------------------------------------
(* Nobody fills two seats, nobody elected was eliminated before, and there *)
(* are no more elected than seats, one of them for AV.                     *)
ElectedOnce ==
    /\ \A i, j \in DOMAIN elected : elected[i] = elected[j] => i = j
    /\ Range(elected) \cap eliminated = {}
    /\ Len(elected) <= IF method = "STV" THEN Seats ELSE 1

(* The ballots that rank c above d.                                        *)
Prefer(c, d) ==
    {i \in DOMAIN ballots : \E k \in DOMAIN ballots[i] :
        ballots[i][k] = c /\ \A j \in 1 .. k : ballots[i][j] # d}

(* A candidate who would lose to every other one in a duel does not win an *)
(* AV count, whatever the order of eliminations and ties                   *)
(* (_av_count, result_service.py:581).                                     *)
LoserNeverWins ==
    LET Listed == UNION {Range(ballots[i]) : i \in DOMAIN ballots}
        LosesTo(c, d) == Cardinality(Prefer(c, d)) < Cardinality(Prefer(d, c))
    IN  done /\ method = "ALTERNATIVE_VOTE" /\ Listed # {elected[1]} =>
            \E d \in Listed \ {elected[1]} : ~LosesTo(elected[1], d)

(* A candidate who is first on more than one part in Seats + 1 of the      *)
(* ballots gets a seat (_stv_count, "using the Droop quota").              *)
QuotaElects ==
    \A c \in Candidates :
        /\ done /\ method = "STV"
        /\ (Seats + 1) * Cardinality({i \in DOMAIN ballots : ballots[i][1] = c}) > Len(ballots)
        => c \in Range(elected)

(* Every count comes to an end (the while loops of both).                  *)
CountEnds == <>done
=============================================================================
