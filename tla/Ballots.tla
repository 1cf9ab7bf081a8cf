------------------------------- MODULE Ballots -------------------------------
(***************************************************************************)
(* What a ballot holds under each electoral system, which rows it leaves   *)
(* in the vote table and which tally it counts towards: the pure part of   *)
(* app/service/voting_service.py.                                          *)
(*                                                                         *)
(* A ballot is a record.  candidate, party and area are optional; ranked   *)
(* is the list of preferences in the order the client sent it.  On a       *)
(* referendum the candidate is the choice, YES or NO.                      *)
(***************************************************************************)
EXTENDS Integers, Sequences, FiniteSets

None == "none"

Methods == {"FPTP", "AMS", "STV", "ALTERNATIVE_VOTE", "REFERENDUM"}
Ranked(m) == m \in {"STV", "ALTERNATIVE_VOTE"}

(* The ranks, in whatever order they are listed, are exactly 1 .. n.       *)
ConsecutiveRanks(ranked) ==
    /\ \A i \in DOMAIN ranked : ranked[i].rank \in 1 .. Len(ranked)
    /\ \A i, j \in DOMAIN ranked : i # j => ranked[i].rank # ranked[j].rank

ValidPayload(m, b) ==
    CASE m = "FPTP" -> b.candidate # None /\ b.area # None
      [] m = "AMS" -> b.candidate # None \/ b.party # None
      [] Ranked(m) -> b.ranked # <<>> /\ ConsecutiveRanks(b.ranked)
      [] OTHER -> b.candidate # None

(* The candidates whose existence the service looks up.                    *)
Named(m, b) ==
    (IF m = "REFERENDUM" \/ b.candidate = None THEN {} ELSE {b.candidate})
        \cup (IF Ranked(m) THEN {b.ranked[i].candidate : i \in DOMAIN b.ranked} ELSE {})

Row(candidate, party, rank) == [candidate |-> candidate, party |-> party, rank |-> rank]

(* The vote rows of a valid ballot: one per preference, up to two for AMS, *)
(* one otherwise.                                                          *)
VoteRows(m, b) ==
    CASE Ranked(m) -> {Row(b.ranked[i].candidate, None, b.ranked[i].rank) : i \in DOMAIN b.ranked}
      [] m = "AMS" -> (IF b.candidate # None THEN {Row(b.candidate, None, 0)} ELSE {})
                        \cup (IF b.party # None THEN {Row(None, b.party, 0)} ELSE {})
      [] OTHER -> {Row(b.candidate, None, 0)}

NoKey == <<>>

(* The tally the ballot increments, NoKey when it increments none: the     *)
(* first listed preference of a ranked ballot, the candidate of the        *)
(* others.  The party vote of an AMS ballot has no tally.                  *)
TallyKey(m, b) ==
    IF Ranked(m) THEN <<b.area, b.ranked[1].candidate>>
    ELSE IF m = "AMS" /\ b.candidate = None THEN NoKey
    ELSE <<b.area, b.candidate>>
=============================================================================
