---------------------------- MODULE ContestStatus ----------------------------
(***************************************************************************)
(* The life of the election and referendum rows under concurrent requests. *)
(*                                                                         *)
(* Every request is one database transaction (dependencies.py get_db) at   *)
(* READ COMMITTED: it reads the committed row, decides, then writes with   *)
(* an UPDATE that waits for the row lock and is applied to the row as it   *)
(* is committed by then.  A writer is such a request in progress:          *)
(*   "update"  PATCH /election/{id} or /referendum/{id} by an official     *)
(*   "sync"    any GET of the contest whose stored status disagrees with   *)
(*             its schedule                                                *)
(* A writer goes through  idle -> decided -> written -> idle, the last     *)
(* step a commit or a rollback.                                            *)
(***************************************************************************)
EXTENDS VotingSchedule

CONSTANTS
    Contests,      \* elections and referendums
    Writers,       \* requests that may write a contest row
    Lockers,       \* every transaction that may lock a contest row
    NoLocker,
    InitialRows,   \* rows the table may hold at the start
    Created,       \* bodies of the POST requests officials send
    Requested,     \* bodies of the PATCH requests officials send
    MaxTime        \* bound of the clock

ASSUME LockerAssumption == Writers \subseteq Lockers /\ NoLocker \notin Lockers
ASSUME ContestAssumption == Contests # {}
ASSUME RowAssumption ==
    InitialRows \subseteq Rows /\ Created \subseteq Patches /\ Requested \subseteq Patches
ASSUME TimeAssumption == MaxTime \in Nat

VARIABLES
    now,           \* the clock all processes of the backend read
    contest,       \* committed election / referendum rows
    rowLock,       \* the transaction holding the row lock of a contest
    writer,        \* requests in progress
    closedByHand   \* history: an official closed this contest last

lifeVars == <<now, contest, rowLock, writer, closedByHand>>

NoPatch == [status |-> NoStatus, opens |-> NoTime, closes |-> NoTime]
AbsentRow == [status |-> "ABSENT", opens |-> NoTime, closes |-> NoTime]

WriterStates ==
    [stage : {"idle", "decided", "written"},
     kind  : {"update", "sync"},
     on    : Contests,
     seen  : Rows,        \* the row the decision was taken on
     at    : Instants,    \* when a manual close was decided
     patch : Patches,     \* the columns it writes
     new   : Rows]        \* the uncommitted row, once written

NoWork == [stage |-> "idle", kind |-> "update", on |-> CHOOSE c \in Contests : TRUE,
           seen |-> AbsentRow, at |-> NoTime, patch |-> NoPatch, new |-> AbsentRow]

Idle(w) == writer[w] = NoWork

LifeTypeOK ==
    /\ now \in 0 .. MaxTime
    /\ contest \in [Contests -> Rows]
    /\ rowLock \in [Contests -> Lockers \cup {NoLocker}]
    /\ writer \in [Writers -> WriterStates]
    /\ closedByHand \in [Contests -> BOOLEAN]

LifeInit ==
    /\ now = 0
    /\ contest \in [Contests -> InitialRows]
    /\ rowLock = [c \in Contests |-> NoLocker]
    /\ writer = [w \in Writers |-> NoWork]
    /\ closedByHand = [c \in Contests |-> FALSE]

-----------------------------------------------------------------------------
Tick ==
    /\ now < MaxTime
    /\ now' = now + 1
    /\ UNCHANGED <<contest, rowLock, writer, closedByHand>>

(* POST: the row is invisible to everyone until its transaction commits.   *)
(* The status is the one the official sent or the one the schedule gives;  *)
(* drafts are not synced.                                                  *)
Create(c, patch) ==
    /\ contest[c] = AbsentRow
    /\ LET given == [Overlay(AbsentRow, patch) EXCEPT !.status =
                        IF patch.status = NoStatus
                        THEN InitialStatus(now, patch) ELSE patch.status]
       IN contest' = [contest EXCEPT ![c] = Synced(now, given)]
    /\ UNCHANGED <<now, rowLock, writer, closedByHand>>

TransitionAllowedAny(row, patch) == TRUE   \* mutant: the transition is not validated
TransitionAllowed(row, patch) ==
    patch.status # NoStatus => patch.status \in ValidTransitions[row.status]

(* The official's request reads the row and validates the transition; a    *)
(* rejected request changes nothing.  A close is snapped to this instant.  *)
BeginUpdate(w, c, patch) ==
    /\ Idle(w)
    /\ contest[c].status # "ABSENT"
    /\ patch # NoPatch
    /\ TransitionAllowed(contest[c], patch)
    /\ now < MaxTime
    /\ writer' = [writer EXCEPT ![w] =
                    [stage |-> "decided", kind |-> "update", on |-> c,
                     seen |-> contest[c],
                     at |-> IF patch.status = "CLOSED" THEN now ELSE NoTime,
                     patch |-> SnapClose(now, contest[c], patch),
                     new |-> AbsentRow]]
    /\ UNCHANGED <<now, contest, rowLock, closedByHand>>

(* A GET that finds the row out of step with its schedule.  Any other GET  *)
(* changes nothing.                                                        *)
BeginSync(w, c) ==
    /\ Idle(w)
    /\ SyncNeeded(now, contest[c])
    /\ now < MaxTime
    /\ writer' = [writer EXCEPT ![w] =
                    [stage |-> "decided", kind |-> "sync", on |-> c,
                     seen |-> contest[c], at |-> NoTime,
                     patch |-> [NoPatch EXCEPT !.status = ImpliedStatus(now, contest[c])],
                     new |-> AbsentRow]]
    /\ UNCHANGED <<now, contest, rowLock, closedByHand>>

(* mutant: the whole row is written back as it was read                    *)
WrittenOverSeen(r, row) == Overlay(r.seen, r.patch)

(* The row this transaction leaves when it writes over row.  What follows  *)
(* the UPDATE is decided on the session's own object, on which the columns *)
(* that were not sent still are as they were read.                         *)
WrittenRow(r, row) ==
    LET laid == Overlay(row, r.patch)
        held == Overlay(r.seen, r.patch)
        reopening == r.seen.status = "CLOSED" /\ r.patch.status = "OPEN"
        onlyTimes == r.patch.status = NoStatus /\ r.seen.status # "DRAFT"
    IN  IF r.kind = "update" /\ reopening /\ DropPastClose(now, held) # held
        THEN [laid EXCEPT !.closes = NoTime]
        ELSE IF r.kind = "update" /\ onlyTimes /\ SyncNeeded(now, held)
        THEN [laid EXCEPT !.status = ImpliedStatus(now, held)]
        ELSE laid

LockFree(c) == rowLock[c] = NoLocker

Write(w) ==
    /\ writer[w].stage = "decided"
    /\ LockFree(writer[w].on)
    /\ rowLock' = [rowLock EXCEPT ![writer[w].on] = w]
    /\ writer' = [writer EXCEPT ![w].stage = "written",
                                ![w].new = WrittenRow(writer[w], contest[writer[w].on])]
    /\ UNCHANGED <<now, contest, closedByHand>>

(* The instant a manual close was decided at lies in the past when its     *)
(* transaction commits: the round trips in between take longer than the    *)
(* resolution of the clock.                                                *)
ClockAdvanced(w) == now > writer[w].at

ReleaseNone(l) == rowLock   \* mutant: locks outlive their transaction
Release(l) == [c \in Contests |-> IF rowLock[c] = l THEN NoLocker ELSE rowLock[c]]

Commit(w) ==
    LET c == writer[w].on IN
    /\ writer[w].stage = "written"
    /\ ClockAdvanced(w)
    /\ contest' = [contest EXCEPT ![c] = writer[w].new]
    /\ closedByHand' = [closedByHand EXCEPT ![c] =
                          IF writer[w].kind = "update"
                          THEN writer[w].patch.status = "CLOSED" ELSE @]
    /\ rowLock' = Release(w)
    /\ writer' = [writer EXCEPT ![w] = NoWork]
    /\ UNCHANGED now

(* A later statement fails (the audit row, the connection) or the process  *)
(* stops: the transaction is rolled back.                                  *)
Rollback(w) ==
    /\ ~Idle(w)
    /\ rowLock' = Release(w)
    /\ writer' = [writer EXCEPT ![w] = NoWork]
    /\ UNCHANGED <<now, contest, closedByHand>>

LifeNext ==
    \/ Tick
    \/ \E c \in Contests, p \in Created : Create(c, p)
    \/ \E w \in Writers, c \in Contests, p \in Requested : BeginUpdate(w, c, p)
    \/ \E w \in Writers, c \in Contests : BeginSync(w, c)
    \/ \E w \in Writers : Write(w) \/ Commit(w) \/ Rollback(w)

LifeSpec == LifeInit /\ [][LifeNext]_lifeVars

-----------------------------------------------------------------------------
(* Once a manual close of a contest with an end of voting is committed,    *)
(* its schedule no longer implies OPEN, so no read of the contest reopens  *)
(* it: what the snap of voting_closes is for (election_service.py:190).    *)
ManualCloseIsStable ==
    \A c \in Contests :
        closedByHand[c] /\ contest[c].closes # NoTime
            => /\ ImpliedStatus(now, contest[c]) = "CLOSED"
               /\ contest[c].status \in {"CLOSED", "CANCELLED"}

(* The times of a contest change only by a request that sends the time, or *)
(* by a reopening that drops the end of voting: what an official commits   *)
(* between the read and the write of another request, or of the sync of a  *)
(* read, is not undone (update_election, election_repo.py:125).            *)
TimesChangeOnlyWhenSent ==
    [][\A w \in Writers :
         LET r == writer[w]
             row == contest[r.on]
         IN  r.stage = "written" /\ contest'[r.on] # row /\ writer'[w].stage = "idle" =>
               /\ \/ contest'[r.on].opens = row.opens
                  \/ r.kind = "update" /\ r.patch.opens # NoTime
               /\ \/ contest'[r.on].closes = row.closes
                  \/ r.kind = "update" /\ r.patch.closes # NoTime
                  \/ /\ r.kind = "update" /\ r.patch.status = "OPEN"
                     /\ contest'[r.on].closes = NoTime]_lifeVars

(* A change of the committed status is one the transition table allows,    *)
(* which holds the moves of the schedule between open and closed too.      *)
LegalTransitions ==
    \A c \in Contests :
        contest[c].status # "ABSENT" /\ contest'[c].status # contest[c].status
          => contest'[c].status \in ValidTransitions[contest[c].status]

(* What a reopening writes is not closed again by the next read: when its  *)
(* opening time has come the schedule does not imply CLOSED at that moment *)
(* (election_service.py:198).                                              *)
ReopenOutlivesItsDay ==
    \A w \in Writers :
        /\ writer[w].stage = "decided" /\ writer'[w].stage = "written"
        /\ writer[w].kind = "update" /\ writer[w].patch.status = "OPEN"
        /\ writer[w].seen.status = "CLOSED"
        /\ writer'[w].new.opens <= now
        => ImpliedStatus(now, writer'[w].new) # "CLOSED"
=============================================================================
