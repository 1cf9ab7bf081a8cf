--------------------------- MODULE OfficialsInTurn ---------------------------
(***************************************************************************)
(* What the backend promises to officials who act one after the other: the *)
(* contest rows of ContestStatus, judged until two requests on them first  *)
(* overlap, which the backend does not prevent.                            *)
(***************************************************************************)
EXTENDS ContestStatus

VARIABLE overlapped   \* history: two requests were in progress at once

TurnInit == LifeInit /\ overlapped = FALSE

Overlapping == \E v, w \in Writers : v # w /\ ~Idle(v) /\ ~Idle(w)

TurnNext == LifeNext /\ overlapped' = (overlapped \/ Overlapping')

TurnSpec == TurnInit /\ [][TurnNext]_<<lifeVars, overlapped>>

-----------------------------------------------------------------------------
(* Until two requests overlap, a manual close of a contest with an end of  *)
(* voting is final until an official decides otherwise: no read reopens it *)
(* (the snap of voting_closes, election_service.py:190).                   *)
ManualCloseStaysClosed == ~overlapped => ManualCloseIsStable

(* Until two requests overlap, every change of the committed status is one *)
(* the transition table allows: the reads that sync the status never leave *)
(* the table (election_service.py:22, voting_schedule_status_sync.py:24).  *)
SerialTransitionsAreValid == [][~overlapped' => LegalTransitions]_lifeVars

(* Until two requests overlap, what a reopening writes survives the next   *)
(* read of the contest (election_service.py:198).                          *)
SerialReopenSurvives == [][~overlapped' => ReopenOutlivesItsDay]_lifeVars
=============================================================================
