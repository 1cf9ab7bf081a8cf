-------------------------- MODULE RankedCountProofs --------------------------
(***************************************************************************)
(* Theorems about RankedCount and SeatAllocation, for any candidates,      *)
(* ballots, tallies, constituencies and number of seats.                   *)
(***************************************************************************)
EXTENDS SeatAllocation, FiniteSetTheorems, WellFoundedInduction, TLAPS

(* The candidates out of the running are apart, and each is out once.      *)
Disjoint ==
    /\ elected \in Seq(Candidates)
    /\ \A i, j \in DOMAIN elected : elected[i] = elected[j] => i = j
    /\ Range(elected) \cap eliminated = {}

(* The candidates about to be seated still are in the running, each in the *)
(* queue once.                                                             *)
QueueWaits ==
    /\ \A q \in queue : q.candidate \in Candidates \ Out
    /\ \A p, q \in queue : p.candidate = q.candidate => p = q

(* There is a seat for whoever is first in the queue; an AV count has no   *)
(* queue and elects when it ends.                                          *)
SeatsLeft ==
    /\ method \in {"STV", "ALTERNATIVE_VOTE"}
    /\ method = "STV" => /\ Len(elected) <= Seats
                         /\ queue # {} => Len(elected) < Seats
    /\ method = "ALTERNATIVE_VOTE" => /\ queue = {} /\ Len(elected) <= 1
                                      /\ ~done => elected = <<>>

CountInv == Disjoint /\ QueueWaits /\ SeatsLeft

(* A candidate with ballots behind it is neither elected nor eliminated.   *)
LEMMA CountedInRunning ==
    ASSUME NEW c \in Counted
    PROVE  c \in Candidates /\ c \notin eliminated /\ c \notin Range(elected)
BY DEF Counted, Backing, CountsFor, Out

(* Seating a candidate adds it to those elected, once.                     *)
LEMMA SeatOne ==
    ASSUME NEW s \in Seq(Candidates), NEW c \in Candidates, c \notin Range(s),
           \A i, j \in DOMAIN s : s[i] = s[j] => i = j
    PROVE  /\ Append(s, c) \in Seq(Candidates)
           /\ Len(Append(s, c)) = Len(s) + 1
           /\ Range(Append(s, c)) = Range(s) \cup {c}
           /\ \A i, j \in DOMAIN Append(s, c) : Append(s, c)[i] = Append(s, c)[j] => i = j
<1> DEFINE t == Append(s, c)
<1>1. /\ t \in Seq(Candidates) /\ Len(t) = Len(s) + 1 /\ DOMAIN t = 1 .. Len(s) + 1
      /\ \A i \in 1 .. Len(s) : t[i] = s[i]
      /\ t[Len(s) + 1] = c
      /\ DOMAIN s = 1 .. Len(s) /\ Len(s) \in Nat
  OBVIOUS
<1>2. \A i \in DOMAIN s : s[i] # c
  BY DEF Range
<1>3. \A i, j \in DOMAIN t : t[i] = t[j] => i = j
  <2> SUFFICES ASSUME NEW i \in DOMAIN t, NEW j \in DOMAIN t, t[i] = t[j] PROVE i = j
    OBVIOUS
  <2>1. CASE i = Len(s) + 1
    BY <1>1, <1>2, <2>1
  <2>2. CASE j = Len(s) + 1
    BY <1>1, <1>2, <2>2
  <2>3. CASE i \in 1 .. Len(s) /\ j \in 1 .. Len(s)
    BY <1>1, <2>3
  <2> QED BY <1>1, <2>1, <2>2, <2>3
<1>4. Range(t) = Range(s) \cup {c}
  <2>1. \A i \in DOMAIN s : i \in DOMAIN t /\ t[i] = s[i]
    BY <1>1
  <2>2. \A i \in DOMAIN t : i \in DOMAIN s \/ i = Len(s) + 1
    BY <1>1
  <2>3. Len(s) + 1 \in DOMAIN t
    BY <1>1
  <2> QED BY <1>1, <2>1, <2>2, <2>3 DEF Range
<1> QED BY <1>1, <1>3, <1>4

(* Electing one candidate where nobody was elected.                        *)
LEMMA OneElected ==
    ASSUME NEW c \in Candidates
    PROVE  /\ <<c>> \in Seq(Candidates) /\ Len(<<c>>) = 1
           /\ Range(<<c>>) = {c}
           /\ \A i, j \in DOMAIN <<c>> : <<c>>[i] = <<c>>[j] => i = j
BY DEF Range

(* The invariant holds at the start.                                       *)
LEMMA CountInvInit == Init => CountInv
BY SeatsAssumption DEF Init, CountInv, Disjoint, QueueWaits, SeatsLeft, Range

(* Every step of a count keeps the invariant.                              *)
LEMMA CountInvStep ==
    ASSUME CountInv, Next
    PROVE  CountInv'
<1> USE DEF CountInv
<1>1. ASSUME NEW c \in Counted, AVElect(c)
      PROVE  CountInv'
  <2>1. /\ elected' = <<c>> /\ c \in Candidates /\ c \notin eliminated
        /\ method = "ALTERNATIVE_VOTE" /\ done' = TRUE
        /\ UNCHANGED <<method, eliminated, queue>>
    BY <1>1, CountedInRunning DEF AVElect, AVRound
  <2>2. Disjoint'
    BY <2>1, OneElected DEF Disjoint
  <2>3. QueueWaits' /\ SeatsLeft'
    BY <2>1, OneElected DEF QueueWaits, SeatsLeft
  <2> QED BY <2>2, <2>3
<1>2. ASSUME NEW c \in Counted, AVEliminate(c) \/ STVEliminate(c)
      PROVE  CountInv'
  <2>1. /\ c \notin Range(elected) /\ queue = {} /\ eliminated' = eliminated \cup {c}
        /\ UNCHANGED <<method, elected, queue, done>>
    BY <1>2, CountedInRunning DEF AVEliminate, AVRound, STVEliminate, STVRound, SeatsLeft
  <2>2. Disjoint'
    BY <2>1 DEF Disjoint
  <2>3. QueueWaits' /\ SeatsLeft'
    BY <2>1 DEF QueueWaits, SeatsLeft
  <2> QED BY <2>2, <2>3
<1>3. ASSUME NEW c \in Counted, NEW w \in Counted, AVLast(c, w)
      PROVE  CountInv'
  <2>1. /\ elected' = <<w>> /\ eliminated' = eliminated \cup {c}
        /\ w \in Candidates /\ w \notin eliminated
        /\ method = "ALTERNATIVE_VOTE" /\ done' = TRUE
        /\ UNCHANGED <<method, queue>>
    BY <1>3, CountedInRunning DEF AVLast, AVRound
  <2>2. w # c
    BY <1>3 DEF AVLast, OnlyOneLeft
  <2>3. Disjoint'
    BY <2>1, <2>2, OneElected DEF Disjoint
  <2>4. QueueWaits' /\ SeatsLeft'
    BY <2>1, OneElected DEF QueueWaits, SeatsLeft
  <2> QED BY <2>3, <2>4
<1>4. ASSUME NEW q \in queue, STVSeat(q)
      PROVE  CountInv'
  <2>1. /\ elected' = Append(elected, q.candidate)
        /\ queue' = IF Len(elected') >= Seats THEN {} ELSE queue \ {q}
        /\ UNCHANGED <<method, eliminated, done>>
    BY <1>4 DEF STVSeat
  <2>2. /\ q.candidate \in Candidates /\ q.candidate \notin Range(elected)
        /\ q.candidate \notin eliminated
    BY <1>4 DEF QueueWaits, Out
  <2>3. /\ elected' \in Seq(Candidates) /\ Len(elected') = Len(elected) + 1
        /\ Range(elected') = Range(elected) \cup {q.candidate}
        /\ \A i, j \in DOMAIN elected' : elected'[i] = elected'[j] => i = j
    BY <2>1, <2>2, SeatOne DEF Disjoint
  <2>4. Disjoint'
    BY <2>1, <2>2, <2>3 DEF Disjoint
  <2>5. QueueWaits'
    <3>1. ASSUME NEW p \in queue, p # q
          PROVE  p.candidate \in Candidates \ Out'
      BY <1>4, <2>1, <2>3, <3>1 DEF QueueWaits, Out
    <3> QED BY <2>1, <3>1 DEF QueueWaits
  <2>6. SeatsLeft'
    <3>1. method = "STV" /\ Len(elected) < Seats /\ Len(elected) \in Nat
      BY <1>4 DEF SeatsLeft, Disjoint
    <3> QED BY <2>1, <2>3, <3>1, SeatsAssumption DEF SeatsLeft
  <2> QED BY <2>4, <2>5, <2>6
<1>5. CASE STVElect
  <2>1. /\ queue' = {[candidate |-> c, count |-> Count(c), place |-> Place(c)] : c \in ReachQuota}
        /\ method = "STV" /\ Len(elected) < Seats
        /\ UNCHANGED <<method, elected, eliminated, done>>
    BY <1>5 DEF STVElect, STVRound
  <2>2. \A c \in ReachQuota : c \in Candidates \ Out
    BY CountedInRunning DEF ReachQuota, Out
  <2>3. QueueWaits'
    BY <2>1, <2>2 DEF QueueWaits, Out
  <2>4. Disjoint' /\ SeatsLeft'
    BY <2>1 DEF Disjoint, SeatsLeft
  <2> QED BY <2>3, <2>4
<1>6. CASE STVStop
  BY <1>6 DEF STVStop, Disjoint, QueueWaits, SeatsLeft, Out
<1> QED BY <1>1, <1>2, <1>3, <1>4, <1>5, <1>6 DEF Next

(* A count of ranked ballots runs as in RankedCount, whatever the seats    *)
(* are for; an election by plurality has no such count.                    *)
Seating ==
    IF method \in Plurality THEN elected = <<>> /\ queue = {} ELSE CountInv

(* It holds at the start.                                                  *)
LEMMA SeatingInit == SeatInit => Seating
<1>1. Init => method \notin Plurality
  BY DEF Init, Plurality
<1> QED BY <1>1, CountInvInit DEF SeatInit, Seating

(* Every step keeps it.                                                    *)
LEMMA SeatingStep ==
    ASSUME Seating, [SeatNext]_<<countVars, seatVars>>
    PROVE  Seating' /\ method' = method
<1>1. CASE Next
  <2>1. method \notin Plurality /\ method' = method
    BY <1>1 DEF Next, AVElect, AVEliminate, AVLast, STVEliminate, STVSeat, STVElect, STVStop,
       AVRound, STVRound, Seating, Plurality
  <2> QED BY <1>1, <2>1, CountInvStep DEF Seating
<1>2. CASE UNCHANGED <<method, elected, eliminated, queue>> /\ method \in Plurality
  BY <1>2 DEF Seating
<1>3. CASE UNCHANGED countVars
  BY <1>3 DEF countVars, Seating, CountInv, Disjoint, QueueWaits, SeatsLeft, Out
<1>4. CASE SeatPlurality
  BY <1>2, <1>4 DEF SeatPlurality
<1>5. ASSUME NEW p \in Parties, GiveTopUp(p)
      PROVE  UNCHANGED countVars
  BY <1>5 DEF GiveTopUp
<1>6. CASE StopSeating
  BY <1>2, <1>6 DEF StopSeating, Seated, Plurality
<1> QED BY <1>1, <1>3, <1>4, <1>5, <1>6 DEF SeatNext, countVars

(* No candidate fills two seats or one it was eliminated from, and no more *)
(* seats are filled than there are.                                        *)
THEOREM SeatsFilledOnce == SeatSpec => []ElectedOnce
<1>1. Seating => ElectedOnce
  BY SeatsAssumption DEF Seating, CountInv, Disjoint, SeatsLeft, ElectedOnce, Plurality, Range
<1> QED BY SeatingInit, SeatingStep, <1>1, PTL DEF SeatSpec

-----------------------------------------------------------------------------
(* A constituency elects one of its leaders, in a step that comes before   *)
(* the first top-up seat.                                                  *)
ConstituencySeats ==
    /\ votes \in [Constituencies -> [Candidates -> Nat]]
    /\ won \in [Constituencies -> SUBSET Candidates]
    /\ \A a \in Constituencies : won[a] # {} =>
          a \in Counting /\ \E c \in Candidates : won[a] = {c}
    /\ given > 0 => \E a \in Constituencies : won[a] # {}

(* Of the top-up seats given no two parties have more than all together,   *)
(* and there are no more than constituencies.                              *)
TopUpsShared ==
    /\ topup \in [Parties -> Nat] /\ given \in Nat
    /\ \A p \in Parties : topup[p] <= given
    /\ \A p, q \in Parties : p # q => topup[p] + topup[q] <= given
    /\ given <= Cardinality(Counting)
    /\ given > 0 => method = "AMS"

(* The claim with which a party got its last top-up seat is still as good  *)
(* as the claim anyone else has to a next one.                             *)
LastClaimStands ==
    /\ lists \in [Parties -> Nat]
    /\ \A p, q \in Parties :
          topup[q] > 0 => lists[q] * (SeatsHeld(p) + 1) >= lists[p] * SeatsHeld(q)

SeatInv == Seating /\ ConstituencySeats /\ TopUpsShared /\ LastClaimStands

(* Seats are finite in number.                                             *)
LEMMA SeatsFinite ==
    ASSUME NEW p
    PROVE  /\ IsFiniteSet(Won(p)) /\ Cardinality(Won(p)) \in Nat
           /\ IsFiniteSet(Counting) /\ Cardinality(Counting) \in Nat
<1>1. Won(p) \subseteq Constituencies /\ Counting \subseteq Constituencies
  BY DEF Won, Counting
<1> QED BY <1>1, ConstituencyAssumption, FS_Subset, FS_CardinalityType

(* It holds at the start.                                                  *)
LEMMA SeatInvInit == SeatInit => SeatInv
<1> SUFFICES ASSUME SeatInit PROVE SeatInv
  OBVIOUS
<1>1. NoSeats
  BY DEF SeatInit
<1>2. votes \in [Constituencies -> [Candidates -> Nat]] /\ lists \in [Parties -> Nat]
  BY TallyAssumption DEF SeatInit
<1>3. ConstituencySeats
  BY <1>1, <1>2 DEF NoSeats, ConstituencySeats
<1>4. TopUpsShared
  BY <1>1, SeatsFinite DEF NoSeats, TopUpsShared
<1>5. LastClaimStands
  BY <1>1, <1>2 DEF NoSeats, LastClaimStands
<1> QED BY <1>3, <1>4, <1>5, SeatingInit DEF SeatInv

(* Filling the seats of the constituencies keeps it.                       *)
LEMMA PluralityKeeps ==
    ASSUME SeatInv, SeatPlurality
    PROVE  (ConstituencySeats /\ TopUpsShared /\ LastClaimStands)'
<1>1. /\ won' \in [Constituencies -> SUBSET Candidates]
      /\ \A a \in Constituencies :
            IF a \in Counting THEN \E c \in Leaders(a) : won'[a] = {c} ELSE won'[a] = {}
      /\ UNCHANGED <<method, votes, lists, topup, given>>
  BY DEF SeatPlurality
<1>2. given = 0 /\ \A p \in Parties : topup[p] = 0
  BY DEF SeatPlurality, SeatInv, ConstituencySeats, TopUpsShared
<1>3. Counting' = Counting
  BY <1>1 DEF Counting
<1>4. ConstituencySeats'
  BY <1>1, <1>2, <1>3 DEF SeatInv, ConstituencySeats, Leaders
<1>5. TopUpsShared'
  BY <1>1, <1>3 DEF SeatInv, TopUpsShared
<1>6. LastClaimStands'
  BY <1>1, <1>2 DEF SeatInv, LastClaimStands
<1> QED BY <1>4, <1>5, <1>6

(* A top-up seat keeps it: nobody has a better claim than the party that   *)
(* gets the seat.                                                          *)
LEMMA TopUpKeeps ==
    ASSUME SeatInv, NEW p \in Parties, GiveTopUp(p)
    PROVE  (ConstituencySeats /\ TopUpsShared /\ LastClaimStands)'
<1>1. /\ method = "AMS" /\ \E a \in Constituencies : won[a] # {}
      /\ given < Cardinality(Counting)
      /\ \A q \in Parties : lists[p] * (SeatsHeld(q) + 1) >= lists[q] * (SeatsHeld(p) + 1)
      /\ topup' = [topup EXCEPT ![p] = @ + 1] /\ given' = given + 1
      /\ UNCHANGED <<method, votes, lists, won>>
  BY DEF GiveTopUp, Seated, TopUpDue, ClaimsMore, Divisor, countVars
<1>2. topup \in [Parties -> Nat] /\ given \in Nat /\ lists \in [Parties -> Nat]
  BY DEF SeatInv, TopUpsShared, LastClaimStands
<1>3. Counting' = Counting /\ \A q : Won(q)' = Won(q)
  BY <1>1 DEF Counting, Won
<1>4. Cardinality(Counting) \in Nat
  BY SeatsFinite
<1>5. ConstituencySeats'
  BY <1>1, <1>3 DEF SeatInv, ConstituencySeats
<1>6. TopUpsShared'
  BY <1>1, <1>2, <1>3, <1>4 DEF SeatInv, TopUpsShared
<1>7. \A q \in Parties : /\ SeatsHeld(q) \in Nat /\ SeatsHeld(q)' \in Nat
                         /\ SeatsHeld(q)' = IF q = p THEN SeatsHeld(q) + 1 ELSE SeatsHeld(q)
  BY <1>1, <1>2, <1>3, SeatsFinite DEF SeatsHeld
<1>8. ASSUME NEW q \in Parties, NEW s \in Parties, topup'[s] > 0
      PROVE  lists[s] * (SeatsHeld(q)' + 1) >= lists[q] * SeatsHeld(s)'
  <2>1. lists[s] \in Nat /\ lists[q] \in Nat /\ SeatsHeld(q) \in Nat /\ SeatsHeld(s) \in Nat
    BY <1>2, <1>7
  <2>2. CASE s = p /\ q # p
    BY <1>1, <1>7, <2>2
  <2>3. CASE s = p /\ q = p
    <3>1. \A x, n \in Nat : x * (n + 1 + 1) >= x * (n + 1)
      OBVIOUS
    <3> QED BY <1>7, <2>1, <2>3, <3>1
  <2>4. CASE s # p
    <3>1. lists[s] * (SeatsHeld(q) + 1) >= lists[q] * SeatsHeld(s)
      BY <1>1, <1>2, <1>8, <2>4 DEF SeatInv, LastClaimStands
    <3>2. \A x, n \in Nat : x * (n + 1 + 1) >= x * (n + 1)
      OBVIOUS
    <3>3. lists[s] * (SeatsHeld(q)' + 1) >= lists[s] * (SeatsHeld(q) + 1)
      BY <1>7, <2>1, <3>2
    <3> QED BY <1>7, <2>1, <2>4, <3>1, <3>3
  <2> QED BY <2>2, <2>3, <2>4
<1>9. LastClaimStands'
  BY <1>1, <1>2, <1>8 DEF LastClaimStands
<1> QED BY <1>5, <1>6, <1>9

(* Every step keeps it.                                                    *)
LEMMA SeatInvStep ==
    ASSUME SeatInv, [SeatNext]_<<countVars, seatVars>>
    PROVE  SeatInv'
<1>1. Seating' /\ method' = method
  BY SeatingStep DEF SeatInv
<1>2. CASE UNCHANGED seatVars
  <2>1. Counting' = Counting /\ \A p : SeatsHeld(p)' = SeatsHeld(p)
    BY <1>2 DEF seatVars, Counting, SeatsHeld, Won
  <2>2. ConstituencySeats'
    BY <1>2, <2>1 DEF SeatInv, ConstituencySeats, seatVars
  <2>3. TopUpsShared'
    BY <1>1, <1>2, <2>1 DEF SeatInv, TopUpsShared, seatVars
  <2>4. LastClaimStands'
    BY <1>2, <2>1 DEF SeatInv, LastClaimStands, seatVars
  <2> QED BY <1>1, <2>2, <2>3, <2>4 DEF SeatInv
<1>3. CASE SeatPlurality
  BY <1>1, <1>3, PluralityKeeps DEF SeatInv
<1>4. ASSUME NEW p \in Parties, GiveTopUp(p)
      PROVE  SeatInv'
  BY <1>1, <1>4, TopUpKeeps DEF SeatInv
<1>5. StopSeating => UNCHANGED seatVars
  BY DEF StopSeating
<1> QED BY <1>2, <1>3, <1>4, <1>5 DEF SeatNext

(* AMS tops up the seats of the constituencies and does no more: a party   *)
(* that has a top-up seat has no more seats than a party with more votes.  *)
THEOREM TopUpsOnlyCorrect == SeatSpec => []MoreVotesNoFewerSeats
<1>1. SeatInv => MoreVotesNoFewerSeats
  <2> SUFFICES ASSUME SeatInv, NEW p \in Parties, NEW q \in Parties,
                      topup[q] > 0, lists[p] > lists[q]
               PROVE  SeatsHeld(p) >= SeatsHeld(q)
    BY DEF MoreVotesNoFewerSeats
  <2>1. /\ lists[p] \in Nat /\ lists[q] \in Nat /\ topup[q] \in Nat /\ topup[p] \in Nat
        /\ lists[q] * (SeatsHeld(p) + 1) >= lists[p] * SeatsHeld(q)
    BY DEF SeatInv, TopUpsShared, LastClaimStands
  <2>2. SeatsHeld(p) \in Nat /\ SeatsHeld(q) \in Nat /\ SeatsHeld(q) > 0
    BY <2>1, SeatsFinite DEF SeatsHeld
  <2>3. ASSUME NEW x \in Nat, NEW y \in Nat, NEW m \in Nat, NEW n \in Nat,
               x > y, n > 0, m + 1 <= n
        PROVE  y * (m + 1) < x * n
    <3>1. y * (m + 1) <= y * n
      BY <2>3
    <3>2. y * n < x * n
      BY <2>3
    <3> QED BY <3>1, <3>2
  <2> QED BY <2>1, <2>2, <2>3
<1> QED BY SeatInvInit, SeatInvStep, <1>1, PTL DEF SeatSpec

-----------------------------------------------------------------------------
(* Seats of two parties are seats of different candidates or different     *)
(* constituencies, so together they are no more than there are.            *)
LEMMA ApartFit ==
    ASSUME NEW S, IsFiniteSet(S), NEW A, NEW B, A \subseteq S, B \subseteq S, A \cap B = {}
    PROVE  /\ Cardinality(A) \in Nat /\ Cardinality(B) \in Nat /\ Cardinality(S) \in Nat
           /\ Cardinality(A) + Cardinality(B) <= Cardinality(S)
<1>1. IsFiniteSet(A) /\ IsFiniteSet(B)
  BY FS_Subset
<1>2. IsFiniteSet(A \cup B)
  BY <1>1, FS_Union
<1>3. Cardinality(A \cup B) = Cardinality(A) + Cardinality(B) - Cardinality(A \cap B)
  BY <1>1, FS_Union
<1>4. Cardinality(A \cap B) = 0
  BY FS_EmptySet
<1>5. Cardinality(A \cup B) <= Cardinality(S)
  BY FS_Subset
<1> QED BY <1>1, <1>2, <1>3, <1>4, <1>5, FS_CardinalityType

(* There are no more elected than places in the list of the elected.       *)
LEMMA ElectedFit ==
    ASSUME elected \in Seq(Candidates)
    PROVE  IsFiniteSet(Range(elected)) /\ Cardinality(Range(elected)) <= Len(elected)
<1>1. /\ Len(elected) \in Nat /\ DOMAIN elected = 1 .. Len(elected)
      /\ elected \in [1 .. Len(elected) -> Range(elected)]
  BY DEF Range
<1>2. elected \in Surjection(1 .. Len(elected), Range(elected))
  BY <1>1 DEF Surjection, Range
<1>3. IsFiniteSet(1 .. Len(elected)) /\ Cardinality(1 .. Len(elected)) = Len(elected)
  BY <1>1, FS_Interval
<1> QED BY <1>2, <1>3, FS_Surjection

(* Two parties never both reach the threshold that declares a winner.      *)
THEOREM OneMajority == SeatSpec => []LoneMajority
<1>1. SeatInv => LoneMajority
  <2> SUFFICES ASSUME SeatInv, NEW p \in Winning, NEW q \in Winning, p # q
               PROVE  FALSE
    BY DEF LoneMajority
  <2>1. /\ p \in Parties /\ q \in Parties
        /\ SeatsOf(p) >= TotalSeats \div 2 + 1 /\ SeatsOf(q) >= TotalSeats \div 2 + 1
    BY DEF Winning
  <2>2. SeatsOf(p) \in Nat /\ SeatsOf(q) \in Nat /\ TotalSeats \in Nat
        /\ SeatsOf(p) + SeatsOf(q) <= TotalSeats
    <3>1. CASE method \in Plurality
      <4>1. Won(p) \subseteq Counting /\ Won(q) \subseteq Counting /\ Won(p) \cap Won(q) = {}
        BY <2>1 DEF Won, SeatInv, ConstituencySeats
      <4>2. /\ Cardinality(Won(p)) \in Nat /\ Cardinality(Won(q)) \in Nat
            /\ Cardinality(Counting) \in Nat
            /\ Cardinality(Won(p)) + Cardinality(Won(q)) <= Cardinality(Counting)
        BY <4>1, SeatsFinite, ApartFit
      <4>3. /\ topup[p] \in Nat /\ topup[q] \in Nat /\ given \in Nat
            /\ topup[p] + topup[q] <= given /\ given <= Cardinality(Counting)
            /\ method # "AMS" => given = 0
        BY <2>1 DEF SeatInv, TopUpsShared
      <4>4. /\ SeatsOf(p) = Cardinality(Won(p)) + topup[p]
            /\ SeatsOf(q) = Cardinality(Won(q)) + topup[q]
        BY <3>1 DEF SeatsOf, SeatsHeld
      <4>5. CASE method = "FPTP"
        BY <4>2, <4>3, <4>4, <4>5 DEF TotalSeats
      <4>6. CASE method = "AMS"
        BY <4>2, <4>3, <4>4, <4>6 DEF TotalSeats
      <4> QED BY <3>1, <4>5, <4>6 DEF Plurality
    <3>2. CASE method \notin Plurality
      <4> DEFINE Of(s) == {c \in Range(elected) : PartyOf[c] = s}
      <4>1. CountInv
        BY <3>2 DEF SeatInv, Seating
      <4>2. /\ elected \in Seq(Candidates) /\ Len(elected) \in Nat
            /\ method = "STV" \/ (method = "ALTERNATIVE_VOTE" /\ Len(elected) <= 1)
        BY <4>1 DEF CountInv, Disjoint, SeatsLeft
      <4>3. IsFiniteSet(Range(elected)) /\ Cardinality(Range(elected)) <= Len(elected)
        BY <4>2, ElectedFit
      <4>4. Of(p) \subseteq Range(elected) /\ Of(q) \subseteq Range(elected) /\ Of(p) \cap Of(q) = {}
        OBVIOUS
      <4>5. /\ Cardinality(Of(p)) \in Nat /\ Cardinality(Of(q)) \in Nat
            /\ Cardinality(Of(p)) + Cardinality(Of(q)) <= Len(elected)
        <5>1. /\ Cardinality(Of(p)) \in Nat /\ Cardinality(Of(q)) \in Nat
              /\ Cardinality(Range(elected)) \in Nat
              /\ Cardinality(Of(p)) + Cardinality(Of(q)) <= Cardinality(Range(elected))
          BY <4>3, <4>4, ApartFit
        <5> QED BY <4>2, <4>3, <5>1
      <4>6. SeatsOf(p) = Cardinality(Of(p)) /\ SeatsOf(q) = Cardinality(Of(q))
        BY <3>2 DEF SeatsOf
      <4>7. TotalSeats \in Nat /\ Len(elected) <= TotalSeats
        BY <4>2 DEF TotalSeats
      <4> QED BY <4>2, <4>5, <4>6, <4>7
    <3> QED BY <3>1, <3>2
  <2>3. \A t \in Nat : 2 * (t \div 2 + 1) > t /\ t \div 2 \in Nat
    OBVIOUS
  <2> QED BY <2>1, <2>2, <2>3
<1> QED BY SeatInvInit, SeatInvStep, <1>1, PTL DEF SeatSpec
-----------------------------------------------------------------------------
(* Sets of numbers have a least element; from it follow the facts below    *)
(* about sums, and about the first candidate of a ballot who is not out.   *)
LEMMA LeastNumber ==
    ASSUME NEW T \in SUBSET Nat, T # {}
    PROVE  \E n \in T : \A m \in T : n <= m
<1> DEFINE R == OpToRel(<, Nat)
<1>1. IsWellFoundedOn(R, Nat)
  BY NatLessThanWellFounded
<1>2. \A m, n \in Nat : <<m, n>> \in R <=> m < n
  BY DEF OpToRel
<1> HIDE DEF R
<1>3. PICK n \in T : \A m \in T : ~ (<<m, n>> \in R)
  BY <1>1, WFMin
<1>4. \A m \in T : ~ (m < n)
  BY <1>2, <1>3
<1> QED BY <1>4

(* A sum of equal weights.  Both sides satisfy the equation that defines   *)
(* the sum, and a smallest set on which they differed would have to be     *)
(* empty.                                                                  *)
LEMMA EqualWeights ==
    ASSUME NEW B, IsFiniteSet(B), NEW u \in Nat, \A i \in B : weight[i] = u
    PROVE  WeightOf(B) = u * Cardinality(B)
<1> DEFINE F(g) == [s \in SUBSET B |-> IF s = {} THEN 0
                        ELSE LET x == CHOOSE x \in s : TRUE IN weight[x] + g[s \ {x}]]
           it == CHOOSE g : g = F(g)
           size == [s \in SUBSET B |-> u * Cardinality(s)]
<1>1. WeightOf(B) = it[B]
  BY DEF WeightOf, MapThenSumSet, MapThenFoldSet
<1>2. ASSUME NEW s \in SUBSET B
      PROVE  IsFiniteSet(s) /\ Cardinality(s) \in Nat /\ (s = {} <=> Cardinality(s) = 0)
  BY FS_Subset, FS_CardinalityType, FS_EmptySet
<1>3. ASSUME NEW s \in SUBSET B, NEW x \in s
      PROVE  /\ s \ {x} \in SUBSET B /\ weight[x] = u
             /\ Cardinality(s \ {x}) = Cardinality(s) - 1 /\ Cardinality(s) > 0
  <2>1. IsFiniteSet(s) /\ Cardinality(s) \in Nat /\ Cardinality(s) # 0
    BY <1>2
  <2>2. Cardinality(s \ {x}) = Cardinality(s) - 1
    BY <2>1, FS_RemoveElement
  <2> QED BY <2>1, <2>2
<1>4. size = F(size)
  <2>1. ASSUME NEW s \in SUBSET B, s # {}, NEW x \in s
        PROVE  u * Cardinality(s) = weight[x] + size[s \ {x}]
    <3>1. size[s \ {x}] = u * Cardinality(s \ {x})
      BY <1>3
    <3>2. \A n \in Nat : u * n = u + u * (n - 1)
      OBVIOUS
    <3> QED BY <1>2, <1>3, <3>1, <3>2
  <2>2. ASSUME NEW s \in SUBSET B, s = {} PROVE u * Cardinality(s) = 0
    BY <2>2, FS_EmptySet
  <2> QED BY <2>1, <2>2
<1> HIDE DEF size
<1>5. it = F(it)
  BY <1>4
<1> HIDE DEF it
<1>6. ASSUME NEW s \in SUBSET B PROVE it[s] = u * Cardinality(s)
  <2> DEFINE Wrong == {n \in Nat : \E t \in SUBSET B : Cardinality(t) = n /\ it[t] # u * Cardinality(t)}
  <2>1. SUFFICES ASSUME Wrong # {} PROVE FALSE
    BY <1>2
  <2>2. PICK n \in Wrong : \A m \in Wrong : n <= m
    BY <2>1, LeastNumber
  <2>3. PICK t \in SUBSET B : Cardinality(t) = n /\ it[t] # u * Cardinality(t)
    BY <2>2
  <2>4. t # {}
    <3>1. ASSUME t = {} PROVE it[t] = 0 /\ Cardinality(t) = 0
      BY <1>5, <3>1, FS_EmptySet
    <3> QED BY <2>3, <3>1
  <2> DEFINE x == CHOOSE x \in t : TRUE
  <2>5. x \in t /\ it[t] = weight[x] + it[t \ {x}]
    BY <1>5, <2>4
  <2> HIDE DEF x
  <2>6. it[t \ {x}] = u * Cardinality(t \ {x})
    <3>1. t \ {x} \in SUBSET B /\ Cardinality(t \ {x}) = n - 1 /\ n > 0
      BY <1>3, <2>3, <2>5
    <3>2. n - 1 \notin Wrong /\ n - 1 \in Nat
      BY <2>2, <3>1
    <3> QED BY <3>1, <3>2
  <2>7. \A k \in Nat : u * k = u + u * (k - 1)
    OBVIOUS
  <2> QED BY <1>2, <1>3, <2>3, <2>5, <2>6, <2>7
<1> QED BY <1>1, <1>6

(* The ballots counted are sequences of candidates, none of them empty.    *)
BallotsFit ==
    /\ \E n \in Nat : DOMAIN ballots = 1 .. n /\ Len(ballots) = n
    /\ \A i \in DOMAIN ballots : ballots[i] \in Seq(Candidates) /\ ballots[i] # <<>>

FullWeight == weight = [i \in DOMAIN ballots |-> Unit]

LEMMA RanksCover ==
    ASSUME NEW s \in Seq([candidate : Candidates, rank : Nat]), ConsecutiveRanks(s)
    PROVE  \A k \in 1 .. Len(s) : \E i \in 1 .. Len(s) : s[i].rank = k
<1> DEFINE f == [i \in 1 .. Len(s) |-> s[i].rank]
<1>1. f \in [1 .. Len(s) -> 1 .. Len(s)]
  BY DEF ConsecutiveRanks
<1>2. \A i, j \in 1 .. Len(s) : f[i] = f[j] => i = j
  BY DEF ConsecutiveRanks
<1>3. f \in Injection(1 .. Len(s), 1 .. Len(s))
  BY <1>1, <1>2 DEF Injection, IsInjective
<1>4. IsFiniteSet(1 .. Len(s))
  BY FS_Interval
<1>5. f \in Surjection(1 .. Len(s), 1 .. Len(s))
  BY <1>3, <1>4, FS_Injection
<1> QED BY <1>5 DEF Surjection

LEMMA PapersAreBallots ==
    ASSUME NEW b \in RankedPapers
    PROVE  InRankOrder(VoteRows("STV", b)) \in Seq(Candidates) \ {<<>>}
<1> DEFINE s == b.ranked
           rows == VoteRows("STV", b)
<1>1. /\ s \in Seq([candidate : Candidates, rank : Nat]) /\ ConsecutiveRanks(s)
      /\ Len(s) \in Nat /\ DOMAIN s = 1 .. Len(s) /\ Len(s) > 0
  <2>1. s \in Seq([candidate : Candidates, rank : Nat]) /\ ValidPayload("STV", b)
    BY PapersAssumption
  <2>2. ConsecutiveRanks(s) /\ s # <<>>
    BY <2>1 DEF ValidPayload, Ranked
  <2> HIDE DEF s
  <2> QED BY <2>1, <2>2
<1>2. rows = {Row(s[i].candidate, None, s[i].rank) : i \in 1 .. Len(s)}
  <2>1. rows = {Row(s[i].candidate, None, s[i].rank) : i \in DOMAIN s}
    BY DEF VoteRows, Ranked
  <2> QED BY <1>1, <2>1
<1> HIDE DEF s, rows
<1> DEFINE f == [i \in 1 .. Len(s) |-> Row(s[i].candidate, None, s[i].rank)]
<1>3. \A i \in 1 .. Len(s) : /\ f[i].rank = s[i].rank /\ f[i].candidate = s[i].candidate
                             /\ s[i].candidate \in Candidates
  <2> SUFFICES ASSUME NEW i \in 1 .. Len(s)
               PROVE  /\ f[i].rank = s[i].rank /\ f[i].candidate = s[i].candidate
                      /\ s[i].candidate \in Candidates
    OBVIOUS
  <2>1. ASSUME NEW P, s \in Seq(P) PROVE s[i] \in P
    BY <2>1
  <2>2. f[i] = Row(s[i].candidate, None, s[i].rank)
    OBVIOUS
  <2>3. s[i] \in [candidate : Candidates, rank : Nat]
    BY <1>1, <2>1
  <2> QED BY <2>2, <2>3 DEF Row
<1>4. \A i, j \in 1 .. Len(s) : f[i] = f[j] => i = j
  BY <1>1, <1>3 DEF ConsecutiveRanks
<1>5. f \in Bijection(1 .. Len(s), rows)
  <2>1. f \in [1 .. Len(s) -> rows] /\ \A row \in rows : \E i \in 1 .. Len(s) : f[i] = row
    BY <1>2
  <2> HIDE DEF f
  <2> QED BY <1>4, <2>1 DEF Bijection, Injection, Surjection, IsInjective
<1>6. Cardinality(rows) = Len(s)
  <2>1. IsFiniteSet(1 .. Len(s)) /\ Cardinality(1 .. Len(s)) = Len(s)
    BY <1>1, FS_Interval
  <2> QED BY <1>5, <2>1, FS_Bijection DEF ExistsBijection
<1>7. ASSUME NEW k \in 1 .. Len(s)
      PROVE  (CHOOSE row \in rows : row.rank = k).candidate \in Candidates
  <2>1. \E row \in rows : row.rank = k
    <3>1. PICK i \in 1 .. Len(s) : s[i].rank = k
      BY <1>1, RanksCover
    <3>2. f[i] \in rows /\ f[i].rank = k
      BY <1>2, <1>3, <3>1
    <3> QED BY <3>2
  <2>2. \A row \in rows : row.candidate \in Candidates
    BY <1>2, <1>3
  <2> QED BY <2>1, <2>2
<1>8. InRankOrder(rows) = [k \in 1 .. Len(s) |-> (CHOOSE row \in rows : row.rank = k).candidate]
  BY <1>6 DEF InRankOrder
<1>9. InRankOrder(rows) \in [1 .. Len(s) -> Candidates]
  BY <1>7, <1>8
<1>10. InRankOrder(rows) \in Seq(Candidates) /\ Len(InRankOrder(rows)) = Len(s)
  BY <1>1, <1>9
<1> QED BY <1>1, <1>10 DEF rows, s

LEMMA BallotsFitInit == Init => BallotsFit /\ FullWeight
<1> SUFFICES ASSUME Init PROVE BallotsFit
  BY DEF Init, FullWeight
<1>1. PICK n \in 1 .. MaxBallots :
        ballots \in [1 .. n -> {InRankOrder(VoteRows("STV", b)) : b \in RankedPapers}]
  BY DEF Init
<1>2. n \in Nat /\ DOMAIN ballots = 1 .. n
  BY <1>1, PapersAssumption
<1>3. \A i \in 1 .. n : ballots[i] \in Seq(Candidates) \ {<<>>}
  BY <1>1, PapersAreBallots
<1>4. ballots \in Seq(Seq(Candidates)) /\ Len(ballots) = n
  BY <1>1, <1>2, <1>3
<1> QED BY <1>2, <1>3, <1>4 DEF BallotsFit

(* A count is the number of ballots, in units.                             *)
LEMMA CountsBallots ==
    ASSUME BallotsFit, FullWeight, NEW B \in SUBSET DOMAIN ballots
    PROVE  /\ IsFiniteSet(B) /\ Cardinality(B) \in Nat /\ Cardinality(B) <= Len(ballots)
           /\ Len(ballots) \in Nat
           /\ WeightOf(B) = Unit * Cardinality(B)
<1>1. PICK n \in Nat : DOMAIN ballots = 1 .. n /\ Len(ballots) = n
  BY DEF BallotsFit
<1>2. IsFiniteSet(1 .. n) /\ Cardinality(1 .. n) = n
  BY FS_Interval
<1>3. IsFiniteSet(B) /\ Cardinality(B) \in Nat /\ Cardinality(B) <= n
  BY <1>1, <1>2, FS_Subset, FS_CardinalityType
<1>4. \A i \in B : weight[i] = Unit
  BY DEF FullWeight
<1> QED BY <1>1, <1>3, <1>4, EqualWeights, SeatsAssumption

(* Multiples of the unit compare as what they are multiples of.            *)
LEMMA UnitsCompare ==
    ASSUME NEW x \in Nat, NEW y \in Nat
    PROVE  /\ Unit * x >= Unit * y <=> x >= y
           /\ Unit * x = Unit * y <=> x = y
           /\ x * Unit = Unit * x
<1>1. Unit \in Nat /\ Unit > 0
  BY SeatsAssumption
<1>2. CASE x < y
  <2>1. Unit * y - Unit * x = Unit * (y - x) /\ Unit * (y - x) > 0
    BY <1>1, <1>2
  <2> QED BY <1>1, <1>2, <2>1
<1>3. CASE x > y
  <2>1. Unit * x - Unit * y = Unit * (x - y) /\ Unit * (x - y) > 0
    BY <1>1, <1>3
  <2> QED BY <1>1, <1>3, <2>1
<1> QED BY <1>1, <1>2, <1>3

(* A ballot counts for one candidate, and for one as long as somebody on   *)
(* it is in the running.                                                   *)
LEMMA CountsForOne ==
    ASSUME NEW p \in Seq(Candidates), NEW out, NEW c, NEW d,
           CountsFor(p, out, c), CountsFor(p, out, d)
    PROVE  c = d
<1>1. PICK k \in DOMAIN p : p[k] = c /\ \A j \in 1 .. k - 1 : p[j] \in out
  BY DEF CountsFor
<1>2. PICK l \in DOMAIN p : p[l] = d /\ \A j \in 1 .. l - 1 : p[j] \in out
  BY DEF CountsFor
<1>3. c \notin out /\ d \notin out
  BY DEF CountsFor
<1>4. k \in 1 .. Len(p) /\ l \in 1 .. Len(p) /\ Len(p) \in Nat
  OBVIOUS
<1>5. ~(k < l) /\ ~(l < k)
  BY <1>1, <1>2, <1>3, <1>4
<1> QED BY <1>1, <1>2, <1>4, <1>5

LEMMA SomebodyCounts ==
    ASSUME BallotsFit, NEW i \in DOMAIN ballots, NEW k \in DOMAIN ballots[i],
           ballots[i][k] \notin Out
    PROVE  \E e \in Counted, j \in DOMAIN ballots[i] :
             j <= k /\ ballots[i][j] = e /\ i \in Backing(e)
<1> DEFINE p == ballots[i]
           in == {j \in DOMAIN p : p[j] \notin Out}
<1>1. p \in Seq(Candidates) /\ DOMAIN p = 1 .. Len(p) /\ Len(p) \in Nat
  BY DEF BallotsFit
<1>2. k \in in /\ in \subseteq Nat
  BY <1>1
<1>3. PICK j \in in : \A l \in in : j <= l
  BY <1>2, LeastNumber
<1>4. /\ j \in DOMAIN p /\ j <= k /\ p[j] \in Candidates /\ p[j] \notin Out
      /\ \A l \in 1 .. j - 1 : p[l] \in Out
  BY <1>1, <1>2, <1>3
<1>5. CountsFor(p, Out, p[j])
  BY <1>4 DEF CountsFor
<1>6. i \in Backing(p[j])
  BY <1>5 DEF Backing
<1> QED BY <1>4, <1>6 DEF Counted

(* Candidates some ballot ranks, and the ballots that count for somebody.  *)
Listed == UNION {Range(ballots[i]) : i \in DOMAIN ballots}
Active == UNION {Backing(d) : d \in Counted}

(* c does not lose to everybody else.                                      *)
HoldsOut(c) ==
    Listed = {c} \/ \E d \in Listed \ {c} : Cardinality(Prefer(c, d)) >= Cardinality(Prefer(d, c))

(* An AV count that has eliminated somebody still has two candidates left, *)
(* and the one it ends with does not lose to everybody else.               *)
AVInv ==
    method = "ALTERNATIVE_VOTE" =>
        /\ ~done => elected = <<>>
        /\ ~done /\ eliminated # {} => \A c \in Counted : \E d \in Counted : d # c
        /\ done => HoldsOut(elected[1])

LEMMA BackedIsListed ==
    ASSUME BallotsFit, NEW c \in Counted PROVE c \in Listed /\ c \notin Out
<1>1. PICK i \in DOMAIN ballots : CountsFor(ballots[i], Out, c)
  BY DEF Counted, Backing
<1>2. PICK k \in DOMAIN ballots[i] : ballots[i][k] = c
  BY <1>1 DEF CountsFor
<1> QED BY <1>1, <1>2 DEF Listed, Range, CountsFor

(* Ballots that count for c prefer it to whoever else is in the running.   *)
LEMMA BackersPrefer ==
    ASSUME BallotsFit, NEW c, NEW d, c # d, d \notin Out
    PROVE  Backing(c) \subseteq Prefer(c, d)
<1> SUFFICES ASSUME NEW i \in Backing(c) PROVE i \in Prefer(c, d)
  OBVIOUS
<1> DEFINE p == ballots[i]
<1>1. i \in DOMAIN ballots /\ p \in Seq(Candidates)
  BY DEF Backing, BallotsFit
<1>2. PICK k \in DOMAIN p : p[k] = c /\ \A j \in 1 .. k - 1 : p[j] \in Out
  BY DEF Backing, CountsFor
<1>3. \A j \in 1 .. k : j \in 1 .. k - 1 \/ j = k
  BY <1>1, <1>2
<1>4. \A j \in 1 .. k : p[j] # d
  BY <1>2, <1>3
<1> QED BY <1>1, <1>2, <1>4 DEF Prefer

(* Ballots that prefer d, in the running, count for d or somebody else     *)
(* than c.                                                                 *)
LEMMA OthersPrefer ==
    ASSUME BallotsFit, NEW c, NEW d, d \notin Out, NEW i \in Prefer(d, c)
    PROVE  \E e \in Counted : e # c /\ i \in Backing(e)
<1>1. i \in DOMAIN ballots
  BY DEF Prefer
<1>2. PICK k \in DOMAIN ballots[i] : ballots[i][k] = d /\ \A j \in 1 .. k : ballots[i][j] # c
  BY DEF Prefer
<1>3. PICK e \in Counted, j \in DOMAIN ballots[i] :
        j <= k /\ ballots[i][j] = e /\ i \in Backing(e)
  BY <1>1, <1>2, SomebodyCounts
<1>4. j \in 1 .. k
  BY <1>1, <1>2, <1>3 DEF BallotsFit
<1> QED BY <1>2, <1>3, <1>4

(* Whoever has a majority of the active ballots wins a duel against        *)
(* anybody in the running.                                                 *)
LEMMA MajorityWinsDuel ==
    ASSUME BallotsFit, FullWeight, NEW c \in Counted, HasMajority(c), NEW d, d # c, d \notin Out
    PROVE  Cardinality(Prefer(c, d)) >= Cardinality(Prefer(d, c))
<1>1. Active \in SUBSET DOMAIN ballots /\ Backing(c) \in SUBSET DOMAIN ballots
      /\ Backing(c) \subseteq Active /\ Prefer(c, d) \in SUBSET DOMAIN ballots
  BY DEF Active, Backing, Prefer
<1>2. Prefer(d, c) \subseteq Active \ Backing(c)
  <2> SUFFICES ASSUME NEW i \in Prefer(d, c) PROVE i \in Active /\ i \notin Backing(c)
    OBVIOUS
  <2>1. PICK e \in Counted : e # c /\ i \in Backing(e)
    BY OthersPrefer
  <2>2. i \notin Backing(c)
    BY <2>1, CountsForOne DEF Backing, BallotsFit
  <2> QED BY <2>1, <2>2 DEF Active
<1>3. Backing(c) \subseteq Prefer(c, d)
  BY BackersPrefer
<1>4. /\ IsFiniteSet(Active) /\ Cardinality(Active) \in Nat /\ Cardinality(Backing(c)) \in Nat
      /\ WeightOf(Active) = Unit * Cardinality(Active)
      /\ WeightOf(Backing(c)) = Unit * Cardinality(Backing(c))
      /\ IsFiniteSet(Prefer(c, d)) /\ Cardinality(Prefer(c, d)) \in Nat
  BY <1>1, CountsBallots
<1>5. 2 * Cardinality(Backing(c)) >= Cardinality(Active)
  <2>1. 2 * (Unit * Cardinality(Backing(c))) >= Unit * Cardinality(Active)
    <3>1. 2 * Count(c) > WeightOf(Active)
      BY DEF HasMajority, Active
    <3>2. Unit * Cardinality(Active) \in Nat /\ Unit * Cardinality(Backing(c)) \in Nat
      BY <1>4, SeatsAssumption
    <3> QED BY <1>4, <3>1, <3>2 DEF Count
  <2>2. Unit * (2 * Cardinality(Backing(c))) = 2 * (Unit * Cardinality(Backing(c)))
    BY <1>4, SeatsAssumption
  <2> QED BY <1>4, <2>1, <2>2, UnitsCompare
<1>6. /\ Cardinality(Prefer(d, c)) \in Nat
      /\ Cardinality(Prefer(d, c)) + Cardinality(Backing(c)) <= Cardinality(Active)
  BY <1>1, <1>2, <1>4, ApartFit
<1>7. Cardinality(Backing(c)) <= Cardinality(Prefer(c, d))
  BY <1>3, <1>4, FS_Subset
<1> QED BY <1>4, <1>5, <1>6, <1>7

(* Of the last two, the one eliminated has no more ballots behind it.      *)
LEMMA LastDuel ==
    ASSUME BallotsFit, FullWeight, NEW c \in Counted, NEW w \in Counted,
           IsLowest(c), OnlyOneLeft(c, w)
    PROVE  HoldsOut(w)
<1>1. w # c /\ Counted = {c, w} /\ c \notin Out /\ w \notin Out /\ c \in Listed
  BY BackedIsListed DEF OnlyOneLeft
<1>2. Backing(w) \subseteq Prefer(w, c)
  BY <1>1, BackersPrefer
<1>3. Prefer(c, w) \subseteq Backing(c)
  BY <1>1, OthersPrefer
<1>4. /\ Backing(c) \in SUBSET DOMAIN ballots /\ Backing(w) \in SUBSET DOMAIN ballots
      /\ Prefer(w, c) \in SUBSET DOMAIN ballots
  BY DEF Backing, Prefer
<1>5. /\ IsFiniteSet(Backing(c)) /\ IsFiniteSet(Prefer(w, c)) /\ Cardinality(Prefer(w, c)) \in Nat
      /\ Cardinality(Backing(c)) \in Nat /\ Cardinality(Backing(w)) \in Nat
      /\ Count(c) = Unit * Cardinality(Backing(c)) /\ Count(w) = Unit * Cardinality(Backing(w))
  BY <1>4, CountsBallots DEF Count
<1>6. Count(c) < Count(w) \/ Count(c) = Count(w)
  BY <1>1 DEF IsLowest
<1>7. Cardinality(Backing(c)) <= Cardinality(Backing(w))
  <2>1. Unit * Cardinality(Backing(c)) \in Nat /\ Unit * Cardinality(Backing(w)) \in Nat
    BY <1>5, SeatsAssumption
  <2>2. Unit * Cardinality(Backing(w)) >= Unit * Cardinality(Backing(c))
    BY <1>5, <1>6, <2>1
  <2> QED BY <1>5, <2>2, UnitsCompare
<1>8. /\ Cardinality(Prefer(c, w)) <= Cardinality(Backing(c)) /\ Cardinality(Prefer(c, w)) \in Nat
      /\ Cardinality(Backing(w)) <= Cardinality(Prefer(w, c))
  BY <1>2, <1>3, <1>5, FS_Subset, FS_CardinalityType
<1>9. Cardinality(Prefer(w, c)) >= Cardinality(Prefer(c, w))
  BY <1>5, <1>7, <1>8
<1> QED BY <1>1, <1>9 DEF HoldsOut

(* An elimination leaves the others the ballots they have.                 *)
LEMMA OthersKeepBackers ==
    ASSUME NEW c, eliminated' = eliminated \cup {c}, UNCHANGED <<ballots, elected>>,
           NEW d \in Counted, d # c
    PROVE  d \in Counted'
<1>1. PICK i \in DOMAIN ballots : CountsFor(ballots[i], Out, d)
  BY DEF Counted, Backing
<1>2. Out' = Out \cup {c}
  BY DEF Out
<1>3. CountsFor(ballots[i], Out', d)
  BY <1>1, <1>2 DEF CountsFor
<1>4. i \in Backing(d)'
  BY <1>1, <1>3 DEF Backing
<1> QED BY <1>4 DEF Counted

LEMMA DuelsStay ==
    ASSUME UNCHANGED ballots, NEW c, HoldsOut(c) PROVE HoldsOut(c)'
<1>1. Listed' = Listed /\ \A a, b : Prefer(a, b)' = Prefer(a, b)
  BY DEF Listed, Prefer
<1> QED BY <1>1 DEF HoldsOut

LEMMA AVInvStep ==
    ASSUME CountInv, BallotsFit, FullWeight, AVInv, Next, method = "ALTERNATIVE_VOTE"
    PROVE  AVInv'
<1>1. ~done /\ elected = <<>> /\ queue = {}
  <2>1. queue = {}
    BY DEF CountInv, SeatsLeft
  <2>2. ~done
    BY <2>1 DEF Next, AVElect, AVEliminate, AVLast, AVRound, STVEliminate, STVElect, STVStop,
                STVRound
  <2> QED BY <2>1, <2>2 DEF AVInv
<1>2. Out = eliminated
  BY <1>1 DEF Out, Range
<1>3. ASSUME NEW c \in Counted, AVElect(c) PROVE AVInv'
  <2>1. elected' = <<c>> /\ elected'[1] = c /\ done' /\ UNCHANGED <<ballots, method>>
        /\ HasMajority(c)
    BY <1>3 DEF AVElect
  <2>2. HoldsOut(c)
    <3>1. c \in Listed
      BY BackedIsListed
    <3>2. CASE \E d \in Listed \ {c} : d \notin Out
      BY <2>1, <3>2, MajorityWinsDuel DEF HoldsOut
    <3>3. CASE \A d \in Listed \ {c} : d \in Out
      <4>1. eliminated = {}
        BY <1>1, <3>3, BackedIsListed DEF AVInv
      <4> QED BY <1>2, <3>1, <3>3, <4>1 DEF HoldsOut
    <3> QED BY <3>2, <3>3
  <2> QED BY <2>1, <2>2, DuelsStay DEF AVInv
<1>4. ASSUME NEW c \in Counted, AVEliminate(c) PROVE AVInv'
  <2>1. /\ eliminated' = eliminated \cup {c} /\ UNCHANGED <<ballots, elected, done, method>>
        /\ Cardinality(Counted) > 2
    BY <1>4 DEF AVEliminate
  <2>2. ASSUME NEW d \in Counted, d # c PROVE \E e \in Counted : e # c /\ e # d
    <3>1. SUFFICES ASSUME Counted = {c, d} PROVE FALSE
      BY <2>2
    <3>2. Cardinality({c}) = 1 /\ IsFiniteSet({c}) /\ {c, d} = {c} \cup {d} /\ d \notin {c}
      BY <2>2, FS_Singleton
    <3>3. Cardinality({c, d}) = 2
      BY <3>2, FS_AddElement
    <3> QED BY <2>1, <3>1, <3>3
  <2>3. \A d \in Counted' : \E e \in Counted' : e # d
    <3>1. SUFFICES ASSUME NEW d \in Counted', \A e \in Counted' : e = d PROVE FALSE
      OBVIOUS
    <3>2. \A e \in Counted : e # c => e = d
      BY <2>1, <3>1, OthersKeepBackers
    <3>3. \E e \in Counted : e # c
      <4>1. SUFFICES ASSUME Counted = {c} PROVE FALSE
        OBVIOUS
      <4>2. Cardinality({c}) = 1
        BY FS_Singleton
      <4> QED BY <2>1, <4>1, <4>2
    <3> QED BY <2>2, <3>2, <3>3
  <2> QED BY <1>1, <2>1, <2>3 DEF AVInv
<1>5. ASSUME NEW c \in Counted, NEW w \in Counted, AVLast(c, w) PROVE AVInv'
  <2>1. /\ elected' = <<w>> /\ elected'[1] = w /\ done' /\ UNCHANGED <<ballots, method>>
        /\ IsLowest(c) /\ OnlyOneLeft(c, w)
    BY <1>5 DEF AVLast
  <2>2. HoldsOut(w)
    BY <2>1, LastDuel
  <2> QED BY <2>1, <2>2, DuelsStay DEF AVInv
<1> QED BY <1>1, <1>3, <1>4, <1>5 DEF Next, STVEliminate, STVElect, STVStop, STVRound

(* The surplus of the elected goes to the ballots that count for them, and *)
(* there are none by then.                                                 *)
LEMMA NoSurplus ==
    ASSUME CountInv, BallotsFit, FullWeight, Next
    PROVE  FullWeight' /\ UNCHANGED ballots
<1>1. CASE UNCHANGED <<ballots, weight>>
  BY <1>1 DEF FullWeight
<1>2. ASSUME NEW q \in queue, STVSeat(q) PROVE UNCHANGED <<ballots, weight>>
  <2>1. weight' = Transferred(q) /\ UNCHANGED ballots
    BY <1>2 DEF STVSeat
  <2>2. \A i \in DOMAIN ballots : ~CountsFor(ballots[i], Out \cup {q.candidate}, q.candidate)
    BY DEF CountsFor
  <2>3. Transferred(q) = [i \in DOMAIN ballots |-> weight[i]]
    BY <2>2 DEF Transferred
  <2>4. weight = [i \in DOMAIN ballots |-> weight[i]]
    BY DEF FullWeight
  <2> QED BY <2>1, <2>3, <2>4
<1> QED BY <1>1, <1>2 DEF Next, AVElect, AVEliminate, AVLast, STVEliminate, STVElect, STVStop

-----------------------------------------------------------------------------
(* The ballots that rank somebody of S first, and the candidates with more *)
(* than one part in Seats + 1 of them.                                     *)
FirstOf(S) == {i \in DOMAIN ballots : ballots[i][1] \in S}
Sure(c) == (Seats + 1) * Cardinality(FirstOf({c})) > Len(ballots)

STVStart == elected = <<>> /\ eliminated = {} /\ queue = {} /\ ~done

(* c waits for its seat among others who have the quota as well, and so    *)
(* had those before it.                                                    *)
WaitsForSeat(c) ==
    /\ ~done
    /\ \E q \in queue : q.candidate = c
    /\ \A q \in queue : Quota <= Cardinality(FirstOf({q.candidate}))
    /\ Quota * Len(elected) <= Cardinality(FirstOf(Range(elected)))

(* Such a candidate is seated in the first round.                          *)
STVInv ==
    method = "STV" =>
        \A c \in Candidates : Sure(c) => c \in Range(elected) \/ STVStart \/ WaitsForSeat(c)

(* The quota is the least number no Seats + 1 candidates can all have.     *)
LEMMA DroopQuota ==
    ASSUME Len(ballots) \in Nat
    PROVE  /\ Quota \in Nat /\ Quota * (Seats + 1) > Len(ballots)
           /\ \A f \in Nat : (Seats + 1) * f > Len(ballots) => f >= Quota
<1> DEFINE n == Len(ballots)
           s == Seats + 1
           t == n \div s
<1>1. n \in Nat /\ s \in Nat /\ s > 0
  BY SeatsAssumption
<1>2. Quota = t + 1
  BY DEF Quota
<1> HIDE DEF n, s
<1>3. t \in Nat /\ n >= s * t /\ n < s * t + s
  BY <1>1
<1> HIDE DEF t
<1>4. (t + 1) * s = s * t + s
  BY <1>1, <1>3
<1>5. ASSUME NEW f \in Nat, s * f > n, f < t + 1 PROVE FALSE
  <2>1. s * t - s * f = s * (t - f) /\ t - f \in Nat
    BY <1>1, <1>3, <1>5
  <2>2. s * (t - f) \in Nat /\ s * t \in Nat /\ s * f \in Nat
    BY <1>1, <1>3, <2>1
  <2> QED BY <1>1, <1>3, <1>5, <2>1, <2>2
<1>6. \A f \in Nat : s * f > n => f >= t + 1
  BY <1>3, <1>5
<1> QED BY <1>1, <1>2, <1>3, <1>4, <1>6 DEF n, s

(* Before anybody is out, a ballot counts for its first candidate.         *)
LEMMA FirstRound ==
    ASSUME BallotsFit, FullWeight, STVStart, NEW c
    PROVE  /\ Backing(c) = FirstOf({c})
           /\ Count(c) = Unit * Cardinality(FirstOf({c}))
           /\ Cardinality(FirstOf({c})) \in Nat
<1>1. Out = {}
  BY DEF STVStart, Out, Range
<1>2. ASSUME NEW i \in DOMAIN ballots
      PROVE  CountsFor(ballots[i], Out, c) <=> ballots[i][1] = c
  <2> DEFINE p == ballots[i]
  <2>1. p \in Seq(Candidates) /\ Len(p) \in Nat /\ Len(p) > 0 /\ DOMAIN p = 1 .. Len(p)
    BY DEF BallotsFit
  <2> HIDE DEF p
  <2>2. 1 \in DOMAIN p /\ 1 .. 0 = {}
    BY <2>1
  <2>3. ASSUME NEW k \in DOMAIN p, \A j \in 1 .. k - 1 : p[j] \in {} PROVE k = 1
    BY <2>1, <2>3
  <2>4. CountsFor(p, {}, c) <=> p[1] = c
    BY <2>2, <2>3 DEF CountsFor
  <2> QED BY <1>1, <2>4 DEF p
<1>3. Backing(c) = FirstOf({c})
  BY <1>2 DEF Backing, FirstOf
<1>4. FirstOf({c}) \in SUBSET DOMAIN ballots
  BY DEF FirstOf
<1> QED BY <1>3, <1>4, CountsBallots DEF Count

LEMMA SureInQueue ==
    ASSUME CountInv, BallotsFit, FullWeight, STVStart, NEW c \in Candidates, Sure(c)
    PROVE  c \in ReachQuota
<1>1. /\ Len(ballots) \in Nat /\ Cardinality(FirstOf({c})) \in Nat
      /\ FirstOf({c}) \in SUBSET DOMAIN ballots
  BY CountsBallots, FirstRound DEF FirstOf
<1>2. Cardinality(FirstOf({c})) >= Quota /\ Quota \in Nat
  BY <1>1, DroopQuota DEF Sure
<1>3. Count(c) >= Quota * Unit
  <2> DEFINE f == Cardinality(FirstOf({c}))
             k == Quota
  <2>1. Count(c) = Unit * f
    BY FirstRound
  <2>2. f \in Nat /\ k \in Nat /\ f >= k
    BY <1>1, <1>2
  <2> HIDE DEF f, k
  <2>3. Unit * f >= Unit * k /\ k * Unit = Unit * k
    BY <2>2, UnitsCompare
  <2> QED BY <2>1, <2>3 DEF k
<1>4. Backing(c) # {}
  <2>1. SUFFICES ASSUME FirstOf({c}) = {} PROVE FALSE
    BY FirstRound
  <2>2. Cardinality(FirstOf({c})) = 0
    BY <2>1, FS_EmptySet
  <2> QED BY <1>1, <2>2, SeatsAssumption DEF Sure
<1> QED BY <1>3, <1>4 DEF ReachQuota, Counted

(* Seats + 1 candidates with the quota would have more ballots than there  *)
(* are.                                                                    *)
LEMMA SeatForAll ==
    ASSUME CountInv, BallotsFit, NEW S \in SUBSET Candidates, NEW c \in Candidates \ S,
           Quota * Seats <= Cardinality(FirstOf(S)), Quota <= Cardinality(FirstOf({c}))
    PROVE  FALSE
<1>1. PICK n \in Nat : DOMAIN ballots = 1 .. n /\ Len(ballots) = n
  BY DEF BallotsFit
<1>2. IsFiniteSet(1 .. n) /\ Cardinality(1 .. n) = n
  BY <1>1, FS_Interval
<1>3. /\ FirstOf(S) \subseteq 1 .. n /\ FirstOf({c}) \subseteq 1 .. n
      /\ FirstOf(S) \cap FirstOf({c}) = {}
  BY <1>1 DEF FirstOf
<1> DEFINE a == Cardinality(FirstOf(S))
           b == Cardinality(FirstOf({c}))
           k == Quota
<1>4. a \in Nat /\ b \in Nat /\ a + b <= n
  BY <1>2, <1>3, ApartFit
<1>5. k \in Nat /\ k * (Seats + 1) > n
  BY <1>1, DroopQuota
<1>6. k * Seats <= a /\ k <= b
  OBVIOUS
<1> HIDE DEF a, b, k
<1>7. k * (Seats + 1) = k * Seats + k /\ k * Seats \in Nat
  BY <1>5, SeatsAssumption
<1> QED BY <1>4, <1>5, <1>6, <1>7

LEMMA ApartSum ==
    ASSUME NEW A, NEW B, IsFiniteSet(A), IsFiniteSet(B), A \cap B = {}
    PROVE  /\ Cardinality(A) \in Nat /\ Cardinality(B) \in Nat
           /\ Cardinality(A \cup B) = Cardinality(A) + Cardinality(B)
<1>1. Cardinality(A \cup B) = Cardinality(A) + Cardinality(B) - Cardinality(A \cap B)
  BY FS_Union
<1>2. Cardinality(A \cap B) = 0 /\ Cardinality(A) \in Nat /\ Cardinality(B) \in Nat
  BY FS_EmptySet, FS_CardinalityType
<1> QED BY <1>1, <1>2

(* A seat given to another leaves one for c.                               *)
LEMMA WaitIsNotInVain ==
    ASSUME CountInv, BallotsFit, NEW q \in queue, STVSeat(q),
           NEW c \in Candidates, WaitsForSeat(c), q.candidate # c
    PROVE  WaitsForSeat(c)'
<1> DEFINE d == q.candidate
           S == Range(elected)
<1>1. /\ elected' = Append(elected, d)
      /\ queue' = IF Len(elected') >= Seats THEN {} ELSE queue \ {q}
      /\ UNCHANGED <<ballots, done>> /\ Quota' = Quota
  BY DEF STVSeat, Quota
<1>2. PICK r \in queue : r.candidate = c
  BY DEF WaitsForSeat
<1>3. /\ d \in Candidates /\ d \notin S /\ c \notin S /\ S \subseteq Candidates
      /\ Quota <= Cardinality(FirstOf({d})) /\ Quota <= Cardinality(FirstOf({c}))
      /\ Quota * Len(elected) <= Cardinality(FirstOf(S))
  BY <1>2 DEF WaitsForSeat, CountInv, QueueWaits, Disjoint, Out, Range
<1>4. /\ Len(elected') = Len(elected) + 1 /\ Range(elected') = S \cup {d}
      /\ Len(elected) \in Nat /\ Len(elected) < Seats
  BY <1>1, <1>3, SeatOne DEF CountInv, Disjoint, SeatsLeft
<1>5. Quota * (Len(elected) + 1) <= Cardinality(FirstOf(S \cup {d}))
  <2>1. PICK n \in Nat : DOMAIN ballots = 1 .. n /\ Len(ballots) = n
    BY DEF BallotsFit
  <2>2. IsFiniteSet(1 .. n)
    BY <2>1, FS_Interval
  <2>3. /\ FirstOf(S) \subseteq 1 .. n /\ FirstOf({d}) \subseteq 1 .. n
        /\ FirstOf(S \cup {d}) = FirstOf(S) \cup FirstOf({d})
        /\ FirstOf(S) \cap FirstOf({d}) = {}
    BY <1>3, <2>1 DEF FirstOf
  <2>4. IsFiniteSet(FirstOf(S)) /\ IsFiniteSet(FirstOf({d}))
    BY <2>2, <2>3, FS_Subset
  <2>5. /\ Cardinality(FirstOf(S)) \in Nat /\ Cardinality(FirstOf({d})) \in Nat
        /\ Cardinality(FirstOf(S) \cup FirstOf({d}))
            = Cardinality(FirstOf(S)) + Cardinality(FirstOf({d}))
    BY <2>3, <2>4, ApartSum
  <2> DEFINE a == Cardinality(FirstOf(S))
             b == Cardinality(FirstOf({d}))
             k == Quota
             l == Len(elected)
  <2>6. a \in Nat /\ b \in Nat /\ k \in Nat /\ l \in Nat /\ k * l <= a /\ k <= b
    BY <1>3, <1>4, <2>1, <2>5, DroopQuota
  <2>7. Cardinality(FirstOf(S \cup {d})) = a + b
    BY <2>3, <2>5
  <2> HIDE DEF a, b, k, l
  <2>8. k * (l + 1) = k * l + k /\ k * l \in Nat
    BY <2>6
  <2>9. k * (l + 1) <= a + b
    BY <2>6, <2>8
  <2> QED BY <2>7, <2>9 DEF k, l
<1>6. Len(elected') < Seats
  <2>1. SUFFICES ASSUME Len(elected) + 1 = Seats PROVE FALSE
    BY <1>4, SeatsAssumption
  <2>2. Quota * Seats <= Cardinality(FirstOf(S \cup {d}))
    BY <1>5, <2>1
  <2>3. S \cup {d} \in SUBSET Candidates /\ c \in Candidates \ (S \cup {d})
    BY <1>3
  <2> HIDE DEF S, d
  <2> QED BY <1>3, <2>2, <2>3, SeatForAll
<1>7. queue' = queue \ {q} /\ r \in queue'
  BY <1>1, <1>2, <1>4, <1>6, SeatsAssumption
<1>8. \A T : FirstOf(T)' = FirstOf(T)
  BY <1>1 DEF FirstOf
<1>9. ASSUME NEW T PROVE Cardinality({i \in DOMAIN ballots : ballots[i][1] \in T})' = Cardinality(FirstOf(T))
  BY <1>1 DEF FirstOf
<1>10. (\A p \in queue : Quota <= Cardinality(FirstOf({p.candidate})))'
  BY <1>1, <1>7, <1>8 DEF WaitsForSeat
<1>11. (Quota * Len(elected) <= Cardinality(FirstOf(Range(elected))))'
  <2>1. FirstOf(Range(elected))' = FirstOf(S \cup {d})
    BY <1>1, <1>4 DEF FirstOf
  <2> QED BY <1>1, <1>4, <1>5, <2>1
<1> QED BY <1>1, <1>2, <1>7, <1>10, <1>11 DEF WaitsForSeat

LEMMA STVInvStep ==
    ASSUME CountInv, BallotsFit, FullWeight, STVInv, Next, method = "STV"
    PROVE  STVInv'
<1>1. UNCHANGED ballots /\ \A c : Sure(c)' = Sure(c)
  BY NoSurplus DEF Sure, FirstOf
<1> SUFFICES ASSUME NEW c \in Candidates, Sure(c)
             PROVE  (c \in Range(elected) \/ STVStart \/ WaitsForSeat(c))'
  BY <1>1 DEF STVInv
<1>2. c \in Range(elected) \/ STVStart \/ WaitsForSeat(c)
  BY DEF STVInv
<1>3. ~AVRound
  BY DEF AVRound
<1>4. CASE c \in Range(elected)
  <2>1. CASE UNCHANGED elected
    BY <1>4, <2>1
  <2>2. ASSUME NEW q \in queue, STVSeat(q) PROVE c \in Range(elected')
    <3>1. Range(elected') = Range(elected) \cup {q.candidate}
      BY <2>2, SeatOne DEF STVSeat, CountInv, Disjoint, QueueWaits, Out
    <3> QED BY <1>4, <3>1
  <2> QED BY <1>3, <2>1, <2>2 DEF Next, AVElect, AVEliminate, AVLast, STVEliminate, STVElect, STVStop
<1>5. CASE STVStart
  <2>1. c \in ReachQuota
    BY <1>5, SureInQueue
  <2>2. Counted # {} /\ Len(elected) < Seats /\ queue = {}
    BY <1>5, <2>1, SeatsAssumption DEF ReachQuota, STVStart
  <2>3. STVElect
    BY <1>3, <2>1, <2>2, SeatsAssumption
       DEF Next, AVElect, AVEliminate, AVLast, STVEliminate, STVStop, STVStart
  <2>4. /\ queue' = {[candidate |-> d, count |-> Count(d), place |-> Place(d)] : d \in ReachQuota}
        /\ UNCHANGED <<elected, done>> /\ elected = <<>> /\ ~done
    BY <1>5, <2>3 DEF STVElect, STVStart
  <2>5. ASSUME NEW d \in ReachQuota PROVE Quota <= Cardinality(FirstOf({d}))
    <3> DEFINE f == Cardinality(FirstOf({d}))
               k == Quota
    <3>1. Count(d) >= k * Unit /\ Count(d) = Unit * f /\ f \in Nat
      BY <1>5, FirstRound DEF ReachQuota
    <3>2. k \in Nat
      BY CountsBallots, DroopQuota
    <3> HIDE DEF f, k
    <3>3. f >= k
      BY <3>1, <3>2, UnitsCompare
    <3> QED BY <3>3 DEF f, k
  <2>6. \E q \in queue' : q.candidate = c
    <3> DEFINE q == [candidate |-> c, count |-> Count(c), place |-> Place(c)]
    <3>1. q \in queue' /\ q.candidate = c
      BY <2>1, <2>4
    <3> QED BY <3>1
  <2>7. \A q \in queue' : Quota <= Cardinality(FirstOf({q.candidate}))
    BY <2>4, <2>5
  <2>8. Quota' = Quota /\ \A T : FirstOf(T)' = FirstOf(T)
    BY <1>1 DEF Quota, FirstOf
  <2>9. (\A q \in queue : Quota <= Cardinality(FirstOf({q.candidate})))'
    BY <2>7, <2>8
  <2>10. (Quota * Len(elected) <= Cardinality(FirstOf(Range(elected))))'
    <3>1. Quota \in Nat
      BY CountsBallots, DroopQuota
    <3>2. FirstOf(Range(elected))' = {}
      BY <2>4 DEF FirstOf, Range
    <3>3. Quota * Len(<<>>) = 0 /\ Cardinality({}) = 0
      BY <3>1, FS_EmptySet
    <3>4. elected' = <<>> /\ Quota' = Quota
      BY <2>4, <2>8
    <3>5. Quota' * Len(elected') <= Cardinality({})
      BY <3>3, <3>4
    <3> QED BY <3>2, <3>5
  <2> QED BY <2>4, <2>6, <2>9, <2>10 DEF WaitsForSeat
<1>6. CASE WaitsForSeat(c)
  <2>1. queue # {} /\ ~STVRound
    BY <1>6 DEF WaitsForSeat, STVRound
  <2>2. PICK q \in queue : STVSeat(q)
    BY <1>3, <2>1 DEF Next, AVElect, AVEliminate, AVLast, STVEliminate, STVElect, STVStop
  <2>3. CASE q.candidate = c
    <3>1. Range(elected') = Range(elected) \cup {c}
      BY <2>2, <2>3, SeatOne DEF STVSeat, CountInv, Disjoint, QueueWaits, Out
    <3> QED BY <3>1
  <2>4. CASE q.candidate # c
    BY <1>6, <2>2, <2>4, WaitIsNotInVain
  <2> QED BY <2>3, <2>4
<1> QED BY <1>2, <1>4, <1>5, <1>6

-----------------------------------------------------------------------------
(* A ranked count, from the ballots to the last seat.                      *)
RankInv ==
    method \notin Plurality => CountInv /\ BallotsFit /\ FullWeight /\ AVInv /\ STVInv

LEMMA RankInvInit == SeatInit => RankInv
<1> SUFFICES ASSUME Init PROVE RankInv
  BY DEF SeatInit, RankInv
<1>1. CountInv /\ BallotsFit /\ FullWeight
  BY CountInvInit, BallotsFitInit
<1>2. AVInv
  BY DEF Init, AVInv
<1>3. STVInv
  BY DEF Init, STVInv, STVStart
<1> QED BY <1>1, <1>2, <1>3 DEF RankInv

LEMMA RankInvStep ==
    ASSUME RankInv, [SeatNext]_<<countVars, seatVars>>
    PROVE  RankInv' /\ UNCHANGED ballots
<1>1. CASE Next /\ method \notin Plurality
  <2>1. CountInv' /\ FullWeight' /\ UNCHANGED ballots
    BY <1>1, CountInvStep, NoSurplus DEF RankInv
  <2>2. method' = method /\ method \in {"STV", "ALTERNATIVE_VOTE"}
    BY <1>1 DEF RankInv, CountInv, SeatsLeft, Next, AVElect, AVEliminate, AVLast, STVEliminate,
       STVSeat, STVElect, STVStop
  <2>3. BallotsFit'
    BY <1>1, <2>1 DEF RankInv, BallotsFit
  <2>4. AVInv'
    <3>1. CASE method = "ALTERNATIVE_VOTE"
      BY <1>1, <3>1, AVInvStep DEF RankInv
    <3> QED BY <2>2, <3>1 DEF AVInv
  <2>5. STVInv'
    <3>1. CASE method = "STV"
      BY <1>1, <3>1, STVInvStep DEF RankInv
    <3> QED BY <2>2, <3>1 DEF STVInv
  <2> QED BY <2>1, <2>3, <2>4, <2>5 DEF RankInv
<1>2. CASE UNCHANGED <<method, ballots>> /\ method \in Plurality
  BY <1>2 DEF RankInv
<1>3. CASE UNCHANGED countVars
  <2>1. UNCHANGED <<method, ballots, weight, elected, eliminated, queue, done>>
    BY <1>3 DEF countVars
  <2>2. Counted' = Counted /\ Out' = Out
    BY <2>1 DEF Counted, Backing, Out
  <2>3. CountInv' <=> CountInv
    BY <2>1, <2>2 DEF CountInv, Disjoint, QueueWaits, SeatsLeft
  <2>4. (BallotsFit /\ FullWeight)' <=> BallotsFit /\ FullWeight
    BY <2>1 DEF BallotsFit, FullWeight
  <2>5. AVInv => AVInv'
    BY <2>1, <2>2, DuelsStay DEF AVInv
  <2>6. STVInv => STVInv'
    <3>1. /\ \A T : FirstOf(T)' = FirstOf(T)
          /\ Quota' = Quota /\ \A c : Sure(c)' = Sure(c)
      BY <2>1 DEF FirstOf, Quota, Sure
    <3>2. STVStart => STVStart'
      BY <2>1 DEF STVStart
    <3>3. ASSUME NEW c, WaitsForSeat(c) PROVE WaitsForSeat(c)'
      BY <2>1, <3>1, <3>3 DEF WaitsForSeat
    <3> QED BY <2>1, <3>1, <3>2, <3>3 DEF STVInv
  <2> QED BY <2>1, <2>3, <2>4, <2>5, <2>6 DEF RankInv
<1>4. CASE Next /\ method \in Plurality
  BY <1>2, <1>4 DEF Next, AVElect, AVEliminate, AVLast, STVEliminate, STVSeat, STVElect, STVStop
<1>5. CASE SeatPlurality
  BY <1>2, <1>5 DEF SeatPlurality
<1>6. ASSUME NEW p \in Parties, GiveTopUp(p)
      PROVE  UNCHANGED countVars
  BY <1>6 DEF GiveTopUp
<1>7. CASE StopSeating
  BY <1>2, <1>7 DEF StopSeating, Seated, Plurality
<1> QED BY <1>1, <1>3, <1>4, <1>5, <1>6, <1>7 DEF SeatNext, countVars

(* Whatever the ballots, the order of eliminations and the ties, the       *)
(* winner of an AV count does not lose to every other candidate in a duel. *)
THEOREM LoserNeverElected == SeatSpec => []LoserNeverWins
<1>1. RankInv => LoserNeverWins
  <2> SUFFICES ASSUME RankInv, done, method = "ALTERNATIVE_VOTE", Listed # {elected[1]}
               PROVE  \E d \in Listed \ {elected[1]} :
                         ~(Cardinality(Prefer(elected[1], d)) < Cardinality(Prefer(d, elected[1])))
    BY DEF LoserNeverWins, Listed
  <2> DEFINE w == elected[1]
  <2>1. BallotsFit /\ FullWeight /\ HoldsOut(w)
    BY DEF RankInv, AVInv, Plurality
  <2>2. PICK d \in Listed \ {w} : Cardinality(Prefer(w, d)) >= Cardinality(Prefer(d, w))
    BY <2>1 DEF HoldsOut
  <2>3. Cardinality(Prefer(w, d)) \in Nat /\ Cardinality(Prefer(d, w)) \in Nat
    <3>1. Prefer(w, d) \in SUBSET DOMAIN ballots /\ Prefer(d, w) \in SUBSET DOMAIN ballots
      BY DEF Prefer
    <3> QED BY <2>1, <3>1, CountsBallots
  <2> QED BY <2>2, <2>3
<1> QED BY RankInvInit, RankInvStep, <1>1, PTL DEF SeatSpec

(* A candidate who is first on more than one part in Seats + 1 of the      *)
(* ballots of an STV count has a seat when it ends.                        *)
THEOREM QuotaIsElected == SeatSpec => []QuotaElects
<1>1. RankInv => QuotaElects
  <2> SUFFICES ASSUME RankInv, done, method = "STV", NEW c \in Candidates,
                      (Seats + 1) * Cardinality({i \in DOMAIN ballots : ballots[i][1] = c}) > Len(ballots)
               PROVE  c \in Range(elected)
    BY DEF QuotaElects
  <2>1. FirstOf({c}) = {i \in DOMAIN ballots : ballots[i][1] = c}
    BY DEF FirstOf
  <2>2. Sure(c)
    BY <2>1 DEF Sure
  <2> QED BY <2>2 DEF RankInv, STVInv, STVStart, WaitsForSeat, Plurality
<1> QED BY RankInvInit, RankInvStep, <1>1, PTL DEF SeatSpec

(* Each ballot counts for one whole vote throughout an STV count.          *)
SurplusStays == method = "STV" => \A i \in DOMAIN ballots : weight[i] = Unit

(* An STV count never moves a surplus, whoever is elected by however many: *)
(* the transfer looks at candidates in the running, which the elected no   *)
(* longer are (_stv_count, result_service.py:465).                         *)
THEOREM NoSurplusMoves == SeatSpec => []SurplusStays
<1>1. RankInv => SurplusStays
  BY DEF RankInv, FullWeight, SurplusStays, Plurality
<1> QED BY RankInvInit, RankInvStep, <1>1, PTL DEF SeatSpec

-----------------------------------------------------------------------------
(* Counts come to an end.  The prover does no fairness; what it shows is   *)
(* that a count that has not ended can go on, and that it goes on only so  *)
(* often.                                                                  *)

(* In a finite set an order has a first element.                           *)
LEMMA SomethingIsFirst ==
    ASSUME NEW S, IsFiniteSet(S), S # {}, NEW R,
           \A x \in S : <<x, x>> \notin R,
           \A x, y, z \in S : <<x, y>> \in R /\ <<y, z>> \in R => <<x, z>> \in R
    PROVE  \E x \in S : \A y \in S : <<y, x>> \notin R
<1> DEFINE before == [x \in S |-> {y \in S : <<y, x>> \in R}]
           size == [x \in S |-> Cardinality(before[x])]
           T == {size[x] : x \in S}
<1>1. ASSUME NEW x \in S
      PROVE  /\ before[x] \subseteq S /\ x \notin before[x]
             /\ \A y \in before[x] : y \in S /\ before[y] \subseteq before[x] \ {y}
  OBVIOUS
<1>2. \A x, y \in S : <<y, x>> \in R => y \in before[x]
  OBVIOUS
<1> HIDE DEF before
<1>3. ASSUME NEW x \in S
      PROVE  size[x] \in Nat /\ \A y \in before[x] : size[y] < size[x]
  <2>1. IsFiniteSet(before[x]) /\ Cardinality(before[x]) \in Nat
    BY <1>1, FS_Subset, FS_CardinalityType
  <2>2. ASSUME NEW y \in before[x]
        PROVE  y \in S /\ Cardinality(before[y]) < Cardinality(before[x])
    <3>1. before[y] \subseteq before[x] \ {y} /\ y \in S
      BY <1>1
    <3>2. /\ IsFiniteSet(before[x] \ {y})
          /\ Cardinality(before[x] \ {y}) = Cardinality(before[x]) - 1
      BY <2>1, FS_RemoveElement
    <3>3. Cardinality(before[y]) <= Cardinality(before[x] \ {y}) /\ IsFiniteSet(before[y])
      BY <3>1, <3>2, FS_Subset
    <3>4. Cardinality(before[y]) \in Nat
      BY <3>3, FS_CardinalityType
    <3> QED BY <2>1, <3>1, <3>2, <3>3, <3>4
  <2> QED BY <2>1, <2>2
<1> HIDE DEF size
<1>4. T \in SUBSET Nat /\ T # {}
  BY <1>3
<1>5. PICK n \in T : \A m \in T : n <= m
  BY <1>4, LeastNumber
<1>6. PICK x \in S : n = size[x]
  BY <1>5
<1>7. ASSUME NEW y \in S, <<y, x>> \in R PROVE FALSE
  <2>1. y \in before[x]
    BY <1>2, <1>7
  <2>2. size[y] < size[x] /\ size[x] \in Nat /\ size[y] \in Nat
    BY <1>3, <2>1
  <2>3. size[x] <= size[y]
    BY <1>5, <1>6
  <2> QED BY <2>2, <2>3
<1> QED BY <1>7

(* The place of a candidate is a ballot of its own.                        *)
LEMMA PlaceIsOwn ==
    ASSUME BallotsFit, NEW c \in Counted
    PROVE  Place(c) \in Backing(c) /\ Place(c) \in Nat
<1>1. Backing(c) \in SUBSET Nat /\ Backing(c) # {}
  BY DEF Counted, Backing, BallotsFit
<1>2. \E n \in Backing(c) : \A m \in Backing(c) : n <= m
  BY <1>1, LeastNumber
<1>3. Place(c) = CHOOSE n \in Backing(c) : \A m \in Backing(c) : n <= m
  BY DEF Place, Min
<1> QED BY <1>1, <1>2, <1>3

(* Somebody is last, whatever the ties.                                    *)
LEMMA SomebodyIsLowest ==
    ASSUME BallotsFit, FullWeight, Counted # {}
    PROVE  \E c \in Counted : IsLowest(c)
<1>1. IsFiniteSet(Counted)
  BY CandidatesAssumption, FS_Subset DEF Counted
<1>2. \A c \in Counted : Count(c) \in Nat /\ Place(c) \in Nat
  <2> SUFFICES ASSUME NEW c \in Counted PROVE Count(c) \in Nat /\ Place(c) \in Nat
    OBVIOUS
  <2>1. Backing(c) \in SUBSET DOMAIN ballots
    BY DEF Backing
  <2>2. Count(c) = Unit * Cardinality(Backing(c)) /\ Cardinality(Backing(c)) \in Nat
    BY <2>1, CountsBallots DEF Count
  <2> QED BY <2>2, PlaceIsOwn, SeatsAssumption
<1>3. ASSUME NEW c \in Counted, NEW d \in Counted, c # d PROVE Place(c) # Place(d)
  <2>1. Place(c) \in Backing(c) /\ Place(d) \in Backing(d)
    BY PlaceIsOwn
  <2> QED BY <1>3, <2>1, CountsForOne DEF Backing, BallotsFit
<1> DEFINE before(c, d) == \/ Count(c) < Count(d)
                           \/ Count(c) = Count(d) /\ Place(c) < Place(d)
           R == {cd \in Counted \X Counted : before(cd[1], cd[2])}
<1>4. \A c, d \in Counted : <<c, d>> \in R <=> before(c, d)
  OBVIOUS
<1> HIDE DEF R
<1>5. PICK c \in Counted : \A d \in Counted : <<d, c>> \notin R
  <2>1. \A d \in Counted : ~before(d, d)
    BY <1>2
  <2>2. \A d, e, f \in Counted : before(d, e) /\ before(e, f) => before(d, f)
    BY <1>2
  <2> HIDE DEF before
  <2>3. \A d \in Counted : <<d, d>> \notin R
    BY <1>4, <2>1
  <2>4. \A d, e, f \in Counted : <<d, e>> \in R /\ <<e, f>> \in R => <<d, f>> \in R
    BY <1>4, <2>2
  <2> QED BY <1>1, <2>3, <2>4, SomethingIsFirst
<1>6. ASSUME NEW d \in Counted \ {c} PROVE before(c, d)
  <2>1. ~before(d, c)
    BY <1>4, <1>5
  <2>2. Place(c) # Place(d) /\ Place(c) \in Nat /\ Place(d) \in Nat
        /\ Count(c) \in Nat /\ Count(d) \in Nat
    BY <1>2, <1>3
  <2> QED BY <2>1, <2>2
<1> QED BY <1>6 DEF IsLowest

(* FPTP ends with the seats of the constituencies.                         *)
PluralityInv == method = "FPTP" /\ ~done => \A a \in Constituencies : won[a] = {}

(* The queue has places, and an AV count always has somebody to count for. *)
StandsInv ==
    method \notin Plurality =>
        /\ \A q \in queue : q.place \in Nat /\ ~done
        /\ method = "ALTERNATIVE_VOTE" /\ ~done => Counted # {}

TotalInv == RankInv /\ SeatInv /\ StandsInv /\ PluralityInv

LEMMA TotalInvInit == SeatInit => TotalInv
<1> SUFFICES ASSUME SeatInit PROVE StandsInv
  BY RankInvInit, SeatInvInit DEF TotalInv, PluralityInv, SeatInit, NoSeats
<1> SUFFICES ASSUME Init PROVE StandsInv
  BY DEF SeatInit, StandsInv
<1>1. BallotsFit
  BY BallotsFitInit
<1>2. PICK n \in 1 .. MaxBallots : DOMAIN ballots = 1 .. n
  BY DEF Init
<1>3. 1 \in DOMAIN ballots
  BY <1>2, PapersAssumption
<1> DEFINE p == ballots[1]
<1>4. p \in Seq(Candidates) /\ p # <<>>
  BY <1>1, <1>3 DEF BallotsFit
<1>5. 1 \in DOMAIN p
  <2> HIDE DEF p
  <2> QED BY <1>4
<1>6. Out = {}
  BY DEF Init, Out, Range
<1>7. Counted # {}
  BY <1>1, <1>3, <1>5, <1>6, SomebodyCounts
<1> QED BY <1>7 DEF Init, StandsInv

LEMMA TotalInvStep ==
    ASSUME TotalInv, [SeatNext]_<<countVars, seatVars>>
    PROVE  TotalInv' /\ method' = method
<1>1. RankInv' /\ SeatInv' /\ method' = method
  BY RankInvStep, SeatInvStep, SeatingStep DEF TotalInv, SeatInv
<1>2. StandsInv'
  <2>1. CASE Next /\ method \notin Plurality
    <3>1. CountInv /\ BallotsFit
      BY <2>1 DEF TotalInv, RankInv
    <3>2. \A q \in queue' : q.place \in Nat /\ ~done'
      <4>1. CASE queue' \subseteq queue /\ UNCHANGED done
        BY <2>1, <4>1 DEF TotalInv, StandsInv
      <4>2. CASE STVElect
        <5>1. queue' = {[candidate |-> c, count |-> Count(c), place |-> Place(c)] : c \in ReachQuota}
          BY <4>2 DEF STVElect
        <5>2. ~done'
          BY <4>2 DEF STVElect, STVRound
        <5>3. \A c \in ReachQuota : Place(c) \in Nat
          BY <3>1, PlaceIsOwn DEF ReachQuota
        <5> QED BY <5>1, <5>2, <5>3
      <4>3. CASE queue' = {}
        BY <4>3
      <4> QED BY <2>1, <3>1, <4>1, <4>2, <4>3
              DEF CountInv, SeatsLeft, Next, AVElect, AVEliminate, AVLast, AVRound, STVEliminate,
                  STVSeat, STVStop
    <3>3. ASSUME method = "ALTERNATIVE_VOTE", ~done' PROVE Counted' # {}
      <4>1. PICK c \in Counted : AVEliminate(c)
        BY <2>1, <3>1, <3>3
           DEF CountInv, SeatsLeft, Next, AVElect, AVLast, STVEliminate, STVElect, STVStop, STVRound
      <4>2. PICK d \in Counted : d # c
        <5>1. Cardinality(Counted) > 2 /\ Cardinality({c}) = 1
          BY <4>1, FS_Singleton DEF AVEliminate
        <5>2. Counted # {c}
          BY <5>1
        <5> QED BY <5>2
      <4> QED BY <4>1, <4>2, OthersKeepBackers DEF AVEliminate
    <3> QED BY <1>1, <3>2, <3>3 DEF StandsInv
  <2>2. CASE method \in Plurality
    BY <1>1, <2>2 DEF StandsInv
  <2>3. CASE UNCHANGED countVars
    <3>1. UNCHANGED <<method, ballots, eliminated, elected, queue, done>> /\ Counted' = Counted
      BY <2>3 DEF countVars, Counted, Backing, Out
    <3> QED BY <3>1 DEF TotalInv, StandsInv
  <2>4. CASE SeatPlurality \/ StopSeating
    BY <2>2, <2>4 DEF SeatPlurality, StopSeating, Seated, Plurality
  <2>5. ASSUME NEW p \in Parties, GiveTopUp(p) PROVE UNCHANGED countVars
    BY <2>5 DEF GiveTopUp
  <2> QED BY <2>1, <2>2, <2>3, <2>4, <2>5 DEF SeatNext, countVars
<1>3. PluralityInv'
  <2>1. CASE SeatPlurality
    BY <2>1 DEF SeatPlurality, PluralityInv
  <2>2. CASE UNCHANGED won /\ (done => done')
    BY <1>1, <2>2 DEF TotalInv, PluralityInv
  <2>3. Next /\ UNCHANGED seatVars => UNCHANGED won /\ (done => done')
    BY DEF seatVars, Next, AVElect, AVEliminate, AVLast, STVEliminate, STVSeat, STVElect, STVStop
  <2>4. ASSUME NEW p \in Parties, GiveTopUp(p) PROVE UNCHANGED won /\ (done => done')
    BY <2>4 DEF GiveTopUp, countVars
  <2> QED BY <2>1, <2>2, <2>3, <2>4 DEF SeatNext, StopSeating, countVars, seatVars
<1> QED BY <1>1, <1>2, <1>3 DEF TotalInv

(* A party with the best claim, and candidates who lead.                   *)
LEMMA SomebodyClaimsMost ==
    ASSUME SeatInv, TopUpDue
    PROVE  \E p \in Parties : lists[p] > 0 /\ \A q \in Parties : ClaimsMore(p, q)
<1>1. \A p \in Parties : lists[p] \in Nat /\ Divisor(p) \in Nat /\ Divisor(p) > 0
  <2> SUFFICES ASSUME NEW p \in Parties
               PROVE  lists[p] \in Nat /\ Divisor(p) \in Nat /\ Divisor(p) > 0
    OBVIOUS
  <2>1. lists[p] \in Nat /\ topup[p] \in Nat /\ Cardinality(Won(p)) \in Nat
    BY SeatsFinite DEF SeatInv, LastClaimStands, TopUpsShared
  <2> QED BY <2>1 DEF Divisor, SeatsHeld
<1>2. PICK r \in Parties : lists[r] > 0
  BY DEF TopUpDue
<1> DEFINE better(p, q) == lists[p] * Divisor(q) > lists[q] * Divisor(p)
           R == {pq \in Parties \X Parties : better(pq[1], pq[2])}
<1>3. \A p, q \in Parties : <<p, q>> \in R <=> better(p, q)
  OBVIOUS
<1> HIDE DEF R
<1>4. ASSUME NEW a \in Nat, NEW b \in Nat, NEW c \in Nat,
             NEW d \in Nat \ {0}, NEW e \in Nat \ {0}, NEW f \in Nat \ {0},
             a * e > b * d, b * f > c * e
      PROVE  a * f > c * d
  <2>1. (a * e) * f > (b * d) * f
    BY <1>4
  <2>2. (b * f) * d > (c * e) * d
    BY <1>4
  <2>3. (b * d) * f = (b * f) * d
    OBVIOUS
  <2>4. (a * f) * e > (c * d) * e
    BY <2>1, <2>2, <2>3
  <2> QED BY <2>4
<1>5. PICK p \in Parties : \A q \in Parties : <<q, p>> \notin R
  <2>1. \A q \in Parties : ~better(q, q)
    BY <1>1
  <2>2. ASSUME NEW q \in Parties, NEW s \in Parties, NEW t \in Parties, better(q, s), better(s, t)
        PROVE  better(q, t)
    BY <1>1, <1>4, <2>2
  <2> HIDE DEF better
  <2>3. \A q \in Parties : <<q, q>> \notin R
    BY <1>3, <2>1
  <2>4. \A q, s, t \in Parties : <<q, s>> \in R /\ <<s, t>> \in R => <<q, t>> \in R
    BY <1>3, <2>2
  <2> QED BY <1>2, <2>3, <2>4, ConstituencyAssumption, SomethingIsFirst
<1>6. ASSUME NEW q \in Parties PROVE lists[p] * Divisor(q) >= lists[q] * Divisor(p)
  <2>1. lists[p] * Divisor(q) \in Nat /\ lists[q] * Divisor(p) \in Nat
    BY <1>1
  <2>2. ~better(q, p)
    BY <1>3, <1>5
  <2> QED BY <2>1, <2>2
<1>7. lists[p] > 0
  <2>1. SUFFICES ASSUME lists[p] = 0 PROVE FALSE
    BY <1>1
  <2>2. 0 * Divisor(r) = 0 /\ lists[r] * Divisor(p) > 0
    BY <1>1, <1>2
  <2>3. lists[p] * Divisor(r) >= lists[r] * Divisor(p) /\ lists[r] * Divisor(p) \in Nat
    BY <1>1, <1>6
  <2> QED BY <2>1, <2>2, <2>3
<1> QED BY <1>6, <1>7 DEF ClaimsMore

LEMMA SomebodyLeads ==
    ASSUME SeatInv, NEW a \in Counting
    PROVE  Leaders(a) # {}
<1>1. a \in Constituencies /\ \A c \in Candidates : votes[a][c] \in Nat
  BY DEF SeatInv, ConstituencySeats, Counting
<1>2. PICK r \in Candidates : votes[a][r] > 0
  BY DEF Counting
<1> DEFINE R == {cd \in Candidates \X Candidates : votes[a][cd[1]] > votes[a][cd[2]]}
<1>3. \A c, d \in Candidates : <<c, d>> \in R <=> votes[a][c] > votes[a][d]
  OBVIOUS
<1> HIDE DEF R
<1>4. PICK c \in Candidates : \A d \in Candidates : <<d, c>> \notin R
  <2>1. \A d \in Candidates : <<d, d>> \notin R
    BY <1>1, <1>3
  <2>2. \A d, e, f \in Candidates : <<d, e>> \in R /\ <<e, f>> \in R => <<d, f>> \in R
    BY <1>1, <1>3
  <2> QED BY <1>2, <2>1, <2>2, CandidatesAssumption, SomethingIsFirst
<1>5. ASSUME NEW d \in Candidates PROVE votes[a][d] <= votes[a][c]
  <2>1. ~(votes[a][d] > votes[a][c])
    BY <1>3, <1>4
  <2>2. votes[a][d] \in Nat /\ votes[a][c] \in Nat
    BY <1>1
  <2> QED BY <2>1, <2>2
<1>6. votes[a][c] > 0
  BY <1>1, <1>2, <1>5
<1> QED BY <1>5, <1>6 DEF Leaders

(* As long as a count has not ended, a step of it can be taken: the guards *)
(* of one of its actions hold.                                             *)
RankedGoesOn ==
    \/ \E q \in queue : \A p \in queue : q.place <= p.place
    \/ /\ method = "STV" /\ queue = {}
       /\ \/ Len(elected) >= Seats \/ Counted = {}
          \/ Len(elected) < Seats /\ ReachQuota # {}
          \/ Len(elected) < Seats /\ ReachQuota = {} /\ \E c \in Counted : IsLowest(c)
    \/ /\ AVRound
       /\ \/ \E c \in Counted : HasMajority(c)
          \/ /\ \A d \in Counted : ~HasMajority(d)
             /\ \E c \in Counted : /\ IsLowest(c)
                                   /\ \/ Cardinality(Counted) > 2
                                      \/ \E w \in Counted : OnlyOneLeft(c, w)

SeatingGoesOn ==
    \/ Counting = {}
    \/ /\ \A a \in Constituencies : won[a] = {}
       /\ \A a \in Counting : Leaders(a) # {}
    \/ Seated /\ ~TopUpDue
    \/ Seated /\ TopUpDue /\ \E p \in Parties : lists[p] > 0 /\ \A q \in Parties : ClaimsMore(p, q)

GoesOn == ~done => IF method \in Plurality THEN SeatingGoesOn ELSE RankedGoesOn

(* The result of an election is never stuck, whatever was voted, under any *)
(* electoral system: until it is there the count can go on.                *)
THEOREM NeverStuck == SeatSpec => []GoesOn
<1>1. ASSUME TotalInv, ~done, method \notin Plurality PROVE RankedGoesOn
  <2>1. CountInv /\ BallotsFit /\ FullWeight /\ \A q \in queue : q.place \in Nat
    BY <1>1 DEF TotalInv, RankInv, StandsInv
  <2>2. CASE queue # {}
    <3> DEFINE T == {q.place : q \in queue}
    <3>1. T \in SUBSET Nat /\ T # {}
      BY <2>1, <2>2
    <3>2. PICK n \in T : \A m \in T : n <= m
      BY <3>1, LeastNumber
    <3> QED BY <3>2 DEF RankedGoesOn
  <2>3. CASE queue = {} /\ method = "STV"
    <3>1. Len(elected) \in Nat
      BY <2>1 DEF CountInv, Disjoint
    <3> QED BY <2>1, <2>3, <3>1, SomebodyIsLowest, SeatsAssumption DEF RankedGoesOn
  <2>4. CASE method = "ALTERNATIVE_VOTE"
    <3>1. Counted # {} /\ IsFiniteSet(Counted) /\ Cardinality(Counted) \in Nat
      BY <1>1, <2>4, CandidatesAssumption, FS_Subset, FS_CardinalityType
         DEF TotalInv, StandsInv, Counted
    <3> SUFFICES ASSUME \A d \in Counted : ~HasMajority(d), Cardinality(Counted) <= 2,
                        NEW c \in Counted, IsLowest(c)
                 PROVE  \E w \in Counted : OnlyOneLeft(c, w)
      BY <1>1, <2>1, <2>4, <3>1, SomebodyIsLowest DEF RankedGoesOn, AVRound
    <3>2. Counted \ {c} # {}
      <4>1. SUFFICES ASSUME Counted = {c} PROVE HasMajority(c)
        OBVIOUS
      <4> DEFINE b == Cardinality(Backing(c))
      <4>2. UNION {Backing(d) : d \in Counted} = Backing(c)
        BY <4>1
      <4>3. Backing(c) \in SUBSET DOMAIN ballots /\ Backing(c) # {}
        BY DEF Counted, Backing
      <4>4. b \in Nat /\ b # 0 /\ WeightOf(Backing(c)) = Unit * b
        BY <2>1, <4>3, CountsBallots, FS_EmptySet
      <4> HIDE DEF b
      <4>5. Unit * b \in Nat /\ Unit * b > 0
        BY <4>4, SeatsAssumption
      <4> QED BY <4>2, <4>4, <4>5 DEF HasMajority, Count
    <3>3. /\ IsFiniteSet(Counted \ {c}) /\ Cardinality(Counted \ {c}) <= 1
          /\ Cardinality(Counted \ {c}) \in Nat
      <4>1. /\ IsFiniteSet(Counted \ {c})
            /\ Cardinality(Counted \ {c}) = Cardinality(Counted) - 1
        BY <3>1, FS_RemoveElement
      <4>2. Cardinality(Counted \ {c}) \in Nat
        BY <4>1, FS_CardinalityType
      <4> QED BY <3>1, <4>1, <4>2
    <3>4. Cardinality(Counted \ {c}) = 1
      BY <3>2, <3>3, FS_EmptySet
    <3>5. PICK w : Counted \ {c} = {w}
      BY <3>3, <3>4, FS_Singleton
    <3> QED BY <3>5 DEF OnlyOneLeft
  <2> QED BY <2>1, <2>2, <2>3, <2>4 DEF CountInv, SeatsLeft
<1>2. ASSUME TotalInv, ~done, method \in Plurality PROVE SeatingGoesOn
  <2>1. SeatInv
    BY <1>2 DEF TotalInv
  <2>2. CASE \A a \in Constituencies : won[a] = {}
    BY <2>1, <2>2, SomebodyLeads DEF SeatingGoesOn
  <2>3. CASE \E a \in Constituencies : won[a] # {}
    <3>1. Seated
      BY <1>2, <2>3 DEF Seated, TotalInv, PluralityInv, Plurality
    <3> QED BY <2>1, <3>1, SomebodyClaimsMost DEF SeatingGoesOn
  <2> QED BY <2>2, <2>3
<1>3. TotalInv => GoesOn
  BY <1>1, <1>2 DEF GoesOn
<1> QED BY TotalInvInit, TotalInvStep, <1>3, PTL DEF SeatSpec

(* How many steps a count can take at most.  Whoever is out takes two, an  *)
(* election and a seat.                                                    *)
StepsLeft ==
    IF done THEN 0
    ELSE IF method \in Plurality
    THEN 1 + (IF \E a \in Constituencies : won[a] # {} THEN 0 ELSE 1) + (Cardinality(Counting) - given)
    ELSE 1 + (IF queue = {} THEN 1 ELSE 0) + 2 * Cardinality(Candidates \ Out)

EveryStepCounts ==
    [](StepsLeft \in Nat) /\ [][StepsLeft' < StepsLeft]_<<countVars, seatVars>>

LEMMA CandidatesLeft ==
    LET left == Cardinality(Candidates \ Out) IN
    /\ left \in Nat
    /\ \A c \in Candidates \ Out : left > 0 /\ Cardinality(Candidates \ (Out \cup {c})) = left - 1
<1>1. IsFiniteSet(Candidates \ Out)
  BY CandidatesAssumption, FS_Subset
<1>2. Cardinality(Candidates \ Out) \in Nat
  BY <1>1, FS_CardinalityType
<1>3. ASSUME NEW c \in Candidates \ Out
      PROVE  /\ Cardinality(Candidates \ Out) > 0
             /\ Cardinality(Candidates \ (Out \cup {c})) = Cardinality(Candidates \ Out) - 1
  <2>1. Candidates \ (Out \cup {c}) = (Candidates \ Out) \ {c}
    OBVIOUS
  <2>2. Cardinality((Candidates \ Out) \ {c}) = Cardinality(Candidates \ Out) - 1
    BY <1>1, FS_RemoveElement
  <2>3. Cardinality(Candidates \ Out) # 0
    BY <1>1, FS_EmptySet
  <2> QED BY <1>2, <2>1, <2>2, <2>3
<1> QED BY <1>2, <1>3

LEMMA StepsLeftNat == TotalInv => StepsLeft \in Nat /\ (~done => StepsLeft > 0)
<1> SUFFICES ASSUME TotalInv PROVE StepsLeft \in Nat /\ (~done => StepsLeft > 0)
  OBVIOUS
<1>1. given \in Nat /\ Cardinality(Counting) \in Nat /\ given <= Cardinality(Counting)
  BY SeatsFinite DEF TotalInv, SeatInv, TopUpsShared
<1>2. Cardinality(Candidates \ Out) \in Nat
  BY CandidatesLeft
<1> QED BY <1>1, <1>2 DEF StepsLeft

LEMMA NextBeforeEnd ==
    ASSUME TotalInv, Next, method \notin Plurality PROVE ~done
BY DEF TotalInv, StandsInv, Next, AVElect, AVEliminate, AVLast, AVRound, STVEliminate, STVRound,
       STVSeat, STVElect, STVStop

(* The steps of a ranked count.                                            *)
LEMMA RankedStepCounts ==
    ASSUME TotalInv, Next, method \notin Plurality, method' = method, ~done'
    PROVE  StepsLeft' < StepsLeft
<1>1. CountInv /\ ~done
  BY NextBeforeEnd DEF TotalInv, RankInv
<1> DEFINE left == Cardinality(Candidates \ Out)
           wait == IF queue = {} THEN 1 ELSE 0
<1>2. StepsLeft = 1 + wait + 2 * left /\ StepsLeft' = 1 + wait' + 2 * left'
  BY <1>1 DEF StepsLeft
<1>3. left \in Nat /\ wait \in {0, 1} /\ wait' \in {0, 1}
  BY CandidatesLeft
<1>4. ASSUME NEW c \in Candidates \ Out, Out' = Out \cup {c} PROVE StepsLeft' < StepsLeft
  <2>1. left' = Cardinality(Candidates \ (Out \cup {c}))
    BY <1>4
  <2>2. left' = left - 1
    BY <2>1, CandidatesLeft
  <2>3. \A l \in Nat, v, w \in {0, 1} : 1 + v + 2 * (l - 1) < 1 + w + 2 * l
    OBVIOUS
  <2> HIDE DEF left, wait
  <2> QED BY <1>2, <1>3, <2>2, <2>3
<1>5. ASSUME NEW c \in Counted, AVEliminate(c) \/ STVEliminate(c) PROVE StepsLeft' < StepsLeft
  <2>1. c \in Candidates \ Out
    BY CountedInRunning DEF Out
  <2>2. Out' = Out \cup {c}
    BY <1>5 DEF AVEliminate, STVEliminate, Out
  <2> QED BY <1>4, <2>1, <2>2
<1>6. ASSUME NEW q \in queue, STVSeat(q) PROVE StepsLeft' < StepsLeft
  <2>1. q.candidate \in Candidates \ Out
    BY <1>1 DEF CountInv, QueueWaits
  <2>2. Range(elected') = Range(elected) \cup {q.candidate}
    BY <1>1, <1>6, <2>1, SeatOne DEF STVSeat, CountInv, Disjoint, Out
  <2>3. Out' = Out \cup {q.candidate}
    BY <1>6, <2>2 DEF STVSeat, Out
  <2> QED BY <1>4, <2>1, <2>3
<1>7. CASE STVElect
  <2>1. queue = {} /\ queue' # {}
    BY <1>7 DEF STVElect, STVRound
  <2>2. Out' = Out
    BY <1>7 DEF STVElect, Out
  <2>3. left' = left
    BY <2>2
  <2>4. wait = 1 /\ wait' = 0
    BY <2>1
  <2> HIDE DEF left, wait
  <2> QED BY <1>2, <1>3, <2>3, <2>4
<1> QED BY <1>5, <1>6, <1>7 DEF Next, AVElect, AVLast, STVStop

LEMMA SeatingStepCounts ==
    ASSUME TotalInv, SeatPlurality \/ \E p \in Parties : GiveTopUp(p), ~done'
    PROVE  StepsLeft' < StepsLeft
<1>1. given \in Nat /\ Cardinality(Counting) \in Nat
  BY SeatsFinite DEF TotalInv, SeatInv, TopUpsShared
<1>2. CASE SeatPlurality
  <2>1. /\ method \in Plurality /\ method' = method /\ ~done /\ UNCHANGED <<votes, given>>
        /\ \A a \in Constituencies : won[a] = {}
    BY <1>2 DEF SeatPlurality
  <2>2. \E a \in Constituencies : won'[a] # {}
    <3>1. PICK a \in Counting : TRUE
      BY <1>2 DEF SeatPlurality
    <3>2. a \in Constituencies /\ \E c \in Leaders(a) : won'[a] = {c}
      BY <1>2, <3>1 DEF SeatPlurality, Counting
    <3> QED BY <3>2
  <2>3. Counting' = Counting
    BY <2>1 DEF Counting
  <2>4. StepsLeft = 1 + 1 + (Cardinality(Counting) - given)
    BY <2>1 DEF StepsLeft
  <2>5. StepsLeft' = 1 + 0 + (Cardinality(Counting) - given)
    BY <2>1, <2>2, <2>3 DEF StepsLeft
  <2> QED BY <1>1, <2>4, <2>5
<1>3. ASSUME NEW p \in Parties, GiveTopUp(p) PROVE StepsLeft' < StepsLeft
  <2>1. /\ method = "AMS" /\ method' = method /\ ~done /\ given' = given + 1
        /\ UNCHANGED <<votes, won>>
    BY <1>3 DEF GiveTopUp, Seated, countVars
  <2>2. Counting' = Counting
    BY <2>1 DEF Counting
  <2> DEFINE w == IF \E a \in Constituencies : won[a] # {} THEN 0 ELSE 1
  <2>3. w' = w /\ w \in {0, 1}
    BY <2>1
  <2>4. /\ StepsLeft = 1 + w + (Cardinality(Counting) - given)
        /\ StepsLeft' = 1 + w' + (Cardinality(Counting) - (given + 1))
    BY <2>1, <2>2 DEF StepsLeft, Plurality
  <2> HIDE DEF w
  <2> QED BY <1>1, <2>3, <2>4
<1> QED BY <1>2, <1>3

(* Every step of a count brings its end nearer: there is a number of steps *)
(* after which it is over.                                                 *)
THEOREM EndsInTime == SeatSpec => EveryStepCounts
<1>1. ASSUME TotalInv, method' = method, SeatNext
      PROVE  StepsLeft' < StepsLeft
  <2>1. Next => method \notin Plurality
    BY <1>1 DEF TotalInv, SeatInv, Seating, Next, AVElect, AVEliminate, AVLast, AVRound, STVEliminate,
       STVRound, STVSeat, STVElect, STVStop, Plurality
  <2>2. CASE done'
    <3>1. ~done
      BY <1>1, <2>1, NextBeforeEnd
         DEF SeatNext, SeatPlurality, GiveTopUp, Seated, StopSeating
    <3>2. StepsLeft > 0 /\ StepsLeft' = 0
      BY <1>1, <2>2, <3>1, StepsLeftNat DEF StepsLeft
    <3> QED BY <3>2
  <2>3. CASE ~done'
    <3>1. ~StopSeating
      BY <2>3 DEF StopSeating
    <3> QED BY <1>1, <2>1, <2>3, <3>1, RankedStepCounts, SeatingStepCounts DEF SeatNext
  <2> QED BY <2>2, <2>3
<1>2. ASSUME TotalInv, [SeatNext]_<<countVars, seatVars>>
      PROVE  TotalInv' /\ [StepsLeft' < StepsLeft]_<<countVars, seatVars>>
  BY <1>1, <1>2, TotalInvStep
<1>3. TotalInv => StepsLeft \in Nat
  BY StepsLeftNat
<1> QED BY TotalInvInit, <1>2, <1>3, PTL DEF SeatSpec, EveryStepCounts

-----------------------------------------------------------------------------
(* Whom a ranked count elects, eliminates or seats next is never a choice: *)
(* the order of the ballots resolves all ties.                             *)
OneWayOn ==
    method \notin Plurality =>
        /\ \A c, d \in Counted : HasMajority(c) /\ HasMajority(d) => c = d
        /\ \A c, d \in Counted : IsLowest(c) /\ IsLowest(d) => c = d
        /\ \A p, q \in queue :
              (\A r \in queue : p.place <= r.place /\ q.place <= r.place) => p = q

(* Nobody in the queue has the place of another.                           *)
PlacesApart ==
    method \notin Plurality =>
        /\ \A q \in queue : q.place \in Nat
        /\ \A p, q \in queue : p.place = q.place => p = q

LEMMA PlacesApartStep ==
    ASSUME RankInv, PlacesApart, [SeatNext]_<<countVars, seatVars>>
    PROVE  PlacesApart'
<1>1. method' = method /\ (method \notin Plurality => BallotsFit)
  BY DEF RankInv, SeatNext, Next, AVElect, AVEliminate, AVLast, STVEliminate, STVSeat, STVElect,
         STVStop, SeatPlurality, GiveTopUp, StopSeating, countVars
<1>2. CASE queue' \subseteq queue
  BY <1>1, <1>2 DEF PlacesApart
<1>3. CASE STVElect /\ method \notin Plurality
  <2>1. queue' = {[candidate |-> c, count |-> Count(c), place |-> Place(c)] : c \in ReachQuota}
    BY <1>3 DEF STVElect
  <2>2. ReachQuota \subseteq Counted
    BY DEF ReachQuota
  <2>3. ASSUME NEW c \in ReachQuota, NEW d \in ReachQuota, Place(c) = Place(d) PROVE c = d
    <3>1. Place(c) \in Backing(c) /\ Place(d) \in Backing(d)
      BY <1>1, <1>3, <2>2, PlaceIsOwn
    <3> QED BY <1>1, <1>3, <2>3, <3>1, CountsForOne DEF Backing, BallotsFit
  <2>4. \A c \in ReachQuota : Place(c) \in Nat
    BY <1>1, <1>3, <2>2, PlaceIsOwn
  <2> QED BY <2>1, <2>3, <2>4 DEF PlacesApart
<1>4. CASE method \in Plurality
  BY <1>1, <1>4 DEF PlacesApart
<1>5. Next => queue' \subseteq queue \/ STVElect
  BY DEF Next, AVElect, AVEliminate, AVLast, STVEliminate, STVSeat, STVStop
<1>6. SeatPlurality \/ StopSeating \/ UNCHANGED countVars => UNCHANGED queue
  BY DEF SeatPlurality, StopSeating, countVars
<1>7. ASSUME NEW p \in Parties, GiveTopUp(p) PROVE UNCHANGED queue
  BY <1>7 DEF GiveTopUp, countVars
<1> QED BY <1>2, <1>3, <1>4, <1>5, <1>6, <1>7 DEF SeatNext, countVars

LEMMA OneMajorityOnly ==
    ASSUME BallotsFit, FullWeight, NEW c \in Counted, NEW d \in Counted, HasMajority(c), HasMajority(d)
    PROVE  c = d
<1> SUFFICES ASSUME c # d PROVE FALSE
  OBVIOUS
<1>1. Active \in SUBSET DOMAIN ballots /\ Backing(c) \subseteq Active /\ Backing(d) \subseteq Active
  BY DEF Active, Backing
<1>2. Backing(c) \cap Backing(d) = {}
  BY CountsForOne DEF Backing, BallotsFit
<1> DEFINE a == Cardinality(Active)
           x == Cardinality(Backing(c))
           y == Cardinality(Backing(d))
<1>3. /\ IsFiniteSet(Active) /\ a \in Nat /\ x \in Nat /\ y \in Nat
      /\ WeightOf(Active) = Unit * a /\ Count(c) = Unit * x /\ Count(d) = Unit * y
  BY <1>1, CountsBallots DEF Count
<1>4. x + y <= a
  BY <1>1, <1>2, <1>3, ApartFit
<1>5. 2 * (Unit * x) > Unit * a /\ 2 * (Unit * y) > Unit * a
  BY <1>3 DEF HasMajority, Active
<1> HIDE DEF a, x, y
<1>6. Unit * x + Unit * y > Unit * a
  <2>1. Unit * x \in Nat /\ Unit * y \in Nat /\ Unit * a \in Nat
    BY <1>3, SeatsAssumption
  <2> QED BY <1>5, <2>1
<1>7. Unit * x + Unit * y = Unit * (x + y)
  BY <1>3, SeatsAssumption
<1>8. Unit * a >= Unit * (x + y)
  BY <1>3, <1>4, UnitsCompare
<1>9. Unit * a \in Nat /\ Unit * (x + y) \in Nat
  BY <1>3, SeatsAssumption
<1> QED BY <1>6, <1>7, <1>8, <1>9

LEMMA OneLowestOnly ==
    ASSUME BallotsFit, FullWeight, NEW c \in Counted, NEW d \in Counted, IsLowest(c), IsLowest(d)
    PROVE  c = d
<1>1. ASSUME NEW e \in Counted PROVE Count(e) \in Nat /\ Place(e) \in Nat
  <2>1. Backing(e) \in SUBSET DOMAIN ballots
    BY DEF Backing
  <2>2. Count(e) = Unit * Cardinality(Backing(e)) /\ Cardinality(Backing(e)) \in Nat
    BY <2>1, CountsBallots DEF Count
  <2> QED BY <2>2, PlaceIsOwn, SeatsAssumption
<1> QED BY <1>1 DEF IsLowest

(* A recount agrees: each step of a ranked count is the only one there is. *)
THEOREM RecountAgrees == SeatSpec => []OneWayOn
<1>1. SeatInit => PlacesApart
  BY DEF SeatInit, Init, PlacesApart
<1>2. RankInv /\ PlacesApart => OneWayOn
  <2> SUFFICES ASSUME RankInv, PlacesApart, method \notin Plurality PROVE OneWayOn
    BY DEF OneWayOn
  <2>1. \A c, d \in Counted : HasMajority(c) /\ HasMajority(d) => c = d
    BY OneMajorityOnly DEF RankInv
  <2>2. \A c, d \in Counted : IsLowest(c) /\ IsLowest(d) => c = d
    BY OneLowestOnly DEF RankInv
  <2>3. ASSUME NEW p \in queue, NEW q \in queue,
               \A r \in queue : p.place <= r.place /\ q.place <= r.place
        PROVE  p = q
    <3>1. p.place <= q.place /\ q.place <= p.place /\ p.place \in Nat /\ q.place \in Nat
      BY <2>3 DEF PlacesApart
    <3>2. p.place = q.place
      BY <3>1
    <3> QED BY <3>2 DEF PlacesApart
  <2> QED BY <2>1, <2>2, <2>3 DEF OneWayOn
<1>3. ASSUME RankInv, [SeatNext]_<<countVars, seatVars>> PROVE RankInv'
  BY <1>3, RankInvStep
<1> QED BY RankInvInit, PlacesApartStep, <1>1, <1>2, <1>3, PTL DEF SeatSpec
=============================================================================
