---------------------------- MODULE SeatAllocation ----------------------------
(***************************************************************************)
(* From counts to seats: the result of an election under its electoral     *)
(* system (get_election_results, app/service/result_service.py).  A ranked *)
(* election has one constituency here, counted by RankedCount; FPTP and    *)
(* AMS read the tally rows of all constituencies at once.  A step of AMS   *)
(* is one pass of the loop that gives a top-up seat (D'Hondt).             *)
(*                                                                         *)
(* A count of 0 stands for a tally row that is not there.  Rows come in no *)
(* particular order, and ties fall to the first of them.                   *)
(***************************************************************************)
EXTENDS RankedCount

CONSTANTS
    Constituencies,
    Parties,
    PartyOf,         \* party of each candidate
    CandidateTallies,   \* tally rows of the candidates, by constituency
    ListTallies         \* tally rows of the parties, which only the seed scripts write

ASSUME PartyAssumption == PartyOf \in [Candidates -> Parties]
ASSUME ConstituencyAssumption == IsFiniteSet(Constituencies) /\ IsFiniteSet(Parties)
ASSUME TallyAssumption ==
    /\ CandidateTallies \subseteq [Constituencies -> [Candidates -> Nat]]
    /\ ListTallies \subseteq [Parties -> Nat]

VARIABLES
    votes,     \* candidate tallies of each constituency
    lists,     \* list votes of each party
    won,       \* the candidates elected in each constituency
    topup,     \* top-up seats of each party
    given      \* top-up seats given

seatVars == <<votes, lists, won, topup, given>>

Plurality == {"FPTP", "AMS"}

NoSeats ==
    /\ won = [a \in Constituencies |-> {}]
    /\ topup = [p \in Parties |-> 0] /\ given = 0

SeatInit ==
    /\ \/ /\ Init
          /\ votes = [a \in Constituencies |-> [c \in Candidates |-> 0]]
          /\ lists = [p \in Parties |-> 0]
       \/ /\ method \in Plurality
          /\ ballots = <<>> /\ weight = <<>>
          /\ elected = <<>> /\ eliminated = {} /\ queue = {} /\ done = FALSE
          /\ votes \in CandidateTallies /\ lists \in ListTallies
    /\ NoSeats

-----------------------------------------------------------------------------
(* The constituencies with tally rows; each has one seat.                  *)
Counting == {a \in Constituencies : \E c \in Candidates : votes[a][c] > 0}

Leaders(a) == {c \in Candidates : votes[a][c] > 0 /\ \A d \in Candidates : votes[a][d] <= votes[a][c]}

SeatPlurality ==
    /\ method \in Plurality /\ ~done
    /\ \A a \in Constituencies : won[a] = {}
    /\ Counting # {}
    /\ won' \in {w \in [Constituencies -> SUBSET Candidates] :
                    \A a \in Constituencies :
                        IF a \in Counting THEN \E c \in Leaders(a) : w[a] = {c} ELSE w[a] = {}}
    /\ done' = (method = "FPTP")
    /\ UNCHANGED <<method, ballots, weight, elected, eliminated, queue, votes, lists, topup, given>>

(* Candidates elected, by party.                                           *)
Won(p) == {a \in Constituencies : \E c \in won[a] : PartyOf[c] = p}

SeatsHeld(p) == Cardinality(Won(p)) + topup[p]

DivisorOfTopUps(p) == topup[p] + 1   \* mutant: seats of constituencies are not divided by
Divisor(p) == SeatsHeld(p) + 1

(* The claim of p, its list votes over the divisor, is as good as q's.     *)
ClaimsMore(p, q) == lists[p] * Divisor(q) >= lists[q] * Divisor(p)

(* As many top-up seats as constituencies, if there are list votes.        *)
TopUpDue == (\E p \in Parties : lists[p] > 0) /\ given < Cardinality(Counting)

Seated == method = "AMS" /\ ~done /\ \E a \in Constituencies : won[a] # {}

GiveTopUp(p) ==
    /\ Seated /\ TopUpDue
    /\ lists[p] > 0 /\ \A q \in Parties : ClaimsMore(p, q)
    /\ topup' = [topup EXCEPT ![p] = @ + 1]
    /\ given' = given + 1
    /\ UNCHANGED <<countVars, votes, lists, won>>

(* No seat is left to give, or there is no tally row at all.               *)
StopSeating ==
    /\ \/ Seated /\ ~TopUpDue
       \/ method \in Plurality /\ ~done /\ Counting = {}
    /\ done' = TRUE
    /\ UNCHANGED <<method, ballots, weight, elected, eliminated, queue, seatVars>>

SeatNext ==
    \/ Next /\ UNCHANGED seatVars
    \/ SeatPlurality
    \/ \E p \in Parties : GiveTopUp(p)
    \/ StopSeating

SeatSpec == SeatInit /\ [][SeatNext]_<<countVars, seatVars>> /\ WF_<<countVars, seatVars>>(SeatNext)

-----------------------------------------------------------------------------
(* Seats of a party in the result.                                         *)
SeatsOf(p) ==
    IF method \in Plurality THEN SeatsHeld(p)
    ELSE Cardinality({c \in Range(elected) : PartyOf[c] = p})

TotalOfConstituencies == Cardinality(Counting)   \* mutant: top-up seats are not counted

TotalSeats ==
    CASE method = "FPTP" -> Cardinality(Counting)
      [] method = "AMS" -> 2 * Cardinality(Counting)
      [] method = "STV" -> Len(elected)
      [] OTHER -> 1

(* The parties that reach the threshold, of which the first is declared.   *)
Winning == {p \in Parties : SeatsOf(p) >= TotalSeats \div 2 + 1}

(* No more than one party has a majority, whatever the system and however  *)
(* ties fall, so the order in which the loop looks at the parties does not *)
(* decide who wins (result_service.py:216).                                *)
LoneMajority == done => \A p, q \in Winning : p = q

(* A party with more list votes than another has no fewer seats, unless    *)
(* the other has won all of its own in constituencies: top-up seats only   *)
(* ever correct the constituencies, after each of them                     *)
(* (result_service.py:244, "to achieve proportionality").                  *)
MoreVotesNoFewerSeats ==
    \A p, q \in Parties :
        topup[q] > 0 /\ lists[p] > lists[q] => SeatsHeld(p) >= SeatsHeld(q)
=============================================================================
