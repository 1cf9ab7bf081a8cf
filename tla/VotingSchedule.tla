--------------------------- MODULE VotingSchedule ---------------------------
(***************************************************************************)
(* What a contest (an election or a referendum) persists about its life,   *)
(* and the pure rules the backend applies to it:                           *)
(*   app/application/core/voting_window.py        the scheduled window     *)
(*   app/service/voting_schedule_status_sync.py   when the stored status   *)
(*                                                gives way to the window  *)
(*   app/service/election_service.py, referendum_service.py   the          *)
(*                                                transitions of officials *)
(* Instants are naturals; the clock of the model is coarse, comparisons    *)
(* are those of the code, both ends of the window included.                *)
(***************************************************************************)
EXTENDS Integers

NoTime == -1            \* a NULL voting_opens or voting_closes
NoStatus == "NONE"      \* a status the client did not send, or nothing implied

Statuses == {"DRAFT", "OPEN", "CLOSED", "CANCELLED"}
Instants == Nat \cup {NoTime}

(* A contest row.  "ABSENT" stands for a row that is not in the table yet. *)
Rows == [status : Statuses \cup {"ABSENT"}, opens : Instants, closes : Instants]

(* The body of a PATCH request: NoStatus and NoTime are fields not sent.   *)
Patches == [status : Statuses \cup {NoStatus}, opens : Instants, closes : Instants]

WithinWindow(t, row) ==
    /\ row.opens # NoTime => t >= row.opens
    /\ row.closes # NoTime => t <= row.closes

ImpliedStatus(t, row) ==
    IF row.opens = NoTime /\ row.closes = NoTime THEN NoStatus
    ELSE IF WithinWindow(t, row) THEN "OPEN" ELSE "CLOSED"

InitialStatus(t, row) ==
    IF ImpliedStatus(t, row) = NoStatus THEN "CLOSED" ELSE ImpliedStatus(t, row)

(* The stored status of this row disagrees with its schedule.              *)
SyncNeeded(t, row) ==
    /\ row.status \in {"OPEN", "CLOSED"}
    /\ ImpliedStatus(t, row) \notin {NoStatus, row.status}

Synced(t, row) ==
    IF SyncNeeded(t, row) THEN [row EXCEPT !.status = ImpliedStatus(t, row)] ELSE row

ValidTransitions ==
    [DRAFT     |-> {"OPEN", "CANCELLED"},
     OPEN      |-> {"DRAFT", "CLOSED", "CANCELLED"},
     CLOSED    |-> {"OPEN", "CANCELLED"},
     CANCELLED |-> {}]

-----------------------------------------------------------------------------
(* The UPDATE statement of update_election / update_referendum: only the   *)
(* columns that were sent are written, over the row as it is by then.      *)
Overlay(row, patch) ==
    [status |-> IF patch.status = NoStatus THEN row.status ELSE patch.status,
     opens  |-> IF patch.opens = NoTime THEN row.opens ELSE patch.opens,
     closes |-> IF patch.closes = NoTime THEN row.closes ELSE patch.closes]

SnapNothing(t, row, patch) == patch   \* mutant: the window is left as it is

(* A manual close before the end of the window moves the end to now.       *)
SnapClose(t, row, patch) ==
    IF patch.status = "CLOSED" /\ row.closes # NoTime /\ row.closes > t
    THEN [patch EXCEPT !.closes = t]
    ELSE patch

DropNothing(t, row) == row   \* mutant: the end of voting is left as it is

(* A reopened contest loses a voting_closes that has already passed.       *)
DropPastClose(t, row) ==
    IF row.closes # NoTime /\ row.closes <= t THEN [row EXCEPT !.closes = NoTime] ELSE row
=============================================================================
