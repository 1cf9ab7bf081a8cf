---------------------------- MODULE VotingProofs ----------------------------
(***************************************************************************)
(* Theorems about the contest rows and what is built on them, each module  *)
(* extending the one before: ContestStatus with OfficialsInTurn, Voting,   *)
(* Results and AuditReport, for any number of voters, contests, requests,  *)
(* tokens and officials.                                                   *)
(***************************************************************************)
EXTENDS AuditReport, OfficialsInTurn, FiniteSetTheorems, TLAPS

(* The rules of VotingSchedule stay within the types of the columns.       *)
LEMMA ImpliedStatusType ==
    ASSUME NEW t, NEW row
    PROVE  ImpliedStatus(t, row) \in {"OPEN", "CLOSED", NoStatus}
BY DEF ImpliedStatus

(* An update overlaid on a row gives a row.                                *)
LEMMA OverlayType ==
    ASSUME NEW row \in Rows, NEW patch \in Patches
    PROVE  Overlay(row, patch) \in Rows
BY DEF Overlay, Rows, Patches, Statuses, NoStatus

(* A snapped close still is the body of a request.                         *)
LEMMA SnapCloseType ==
    ASSUME NEW t \in Nat, NEW row \in Rows, NEW patch \in Patches
    PROVE  SnapClose(t, row, patch) \in Patches
BY DEF SnapClose, Rows, Patches, Instants

(* What a transaction writes over a row is a row.                          *)
LEMMA WrittenRowType ==
    ASSUME NEW r \in WriterStates, NEW row \in Rows
    PROVE  WrittenRow(r, row) \in Rows
<1> DEFINE laid == Overlay(row, r.patch)
           held == Overlay(r.seen, r.patch)
<1>1. r.patch \in Patches
  BY DEF WriterStates
<1>2. laid \in Rows
  BY <1>1, OverlayType
<1>3. [laid EXCEPT !.closes = NoTime] \in Rows
  BY <1>2 DEF Rows, Instants
<1>4. ASSUME SyncNeeded(now, held)
      PROVE  [laid EXCEPT !.status = ImpliedStatus(now, held)] \in Rows
  <2>1. ImpliedStatus(now, held) \in {"OPEN", "CLOSED"}
    BY <1>4, ImpliedStatusType DEF SyncNeeded
  <2> QED BY <1>2, <2>1 DEF Rows, Statuses
<1> QED BY <1>2, <1>3, <1>4 DEF WrittenRow

(* An idle writer has the type of a writer.                                *)
LEMMA NoWorkType == NoWork \in WriterStates /\ NoWork.stage = "idle"
<1>1. (CHOOSE c \in Contests : TRUE) \in Contests
  BY ContestAssumption
<1>2. AbsentRow \in Rows /\ NoPatch \in Patches
  BY DEF AbsentRow, Rows, NoPatch, Patches, Instants, NoStatus
<1> QED BY <1>1, <1>2 DEF NoWork, WriterStates, Instants

(* A POST inserts a row of the table.                                      *)
LEMMA CreatedRowType ==
    ASSUME NEW t \in Nat, NEW patch \in Created
    PROVE  Synced(t, [Overlay(AbsentRow, patch) EXCEPT !.status =
                        IF patch.status = NoStatus
                        THEN InitialStatus(t, patch) ELSE patch.status]) \in Rows
<1> DEFINE given == [Overlay(AbsentRow, patch) EXCEPT !.status =
                        IF patch.status = NoStatus
                        THEN InitialStatus(t, patch) ELSE patch.status]
<1>1. patch \in Patches
  BY RowAssumption
<1>2. InitialStatus(t, patch) \in Statuses
  BY ImpliedStatusType DEF InitialStatus, Statuses
<1>3. AbsentRow \in Rows
  BY DEF AbsentRow, Rows, Instants
<1>4. Overlay(AbsentRow, patch) \in Rows
  BY <1>1, <1>3, OverlayType
<1>5. given \in Rows
  BY <1>1, <1>2, <1>4 DEF Patches, Rows
<1>6. ASSUME SyncNeeded(t, given)
      PROVE  [given EXCEPT !.status = ImpliedStatus(t, given)] \in Rows
  <2>1. ImpliedStatus(t, given) \in Statuses
    BY <1>6, ImpliedStatusType DEF SyncNeeded, Statuses
  <2> QED BY <1>5, <2>1 DEF Rows
<1> QED BY <1>5, <1>6 DEF Synced

-----------------------------------------------------------------------------
(* Every step of the contest rows keeps the types; Voting, whose requests  *)
(* take the same row locks, relies on this lemma too.                      *)
LEMMA LifeTypeStep ==
    ASSUME LifeTypeOK, LifeNext
    PROVE  LifeTypeOK'
<1> USE DEF LifeTypeOK
<1>1. now \in Nat
  BY TimeAssumption
<1>2. CASE Tick
  BY <1>2, TimeAssumption DEF Tick
<1>3. ASSUME NEW c \in Contests, NEW p \in Created, Create(c, p)
      PROVE  LifeTypeOK'
  BY <1>1, <1>3, CreatedRowType DEF Create
<1>4. ASSUME NEW w \in Writers, NEW c \in Contests, NEW p \in Requested, BeginUpdate(w, c, p)
      PROVE  LifeTypeOK'
  <2>1. p \in Patches /\ contest[c] \in Rows
    BY RowAssumption
  <2>2. SnapClose(now, contest[c], p) \in Patches
    BY <1>1, <2>1, SnapCloseType
  <2>3. AbsentRow \in Rows
    BY DEF AbsentRow, Rows, Instants
  <2>4. [stage |-> "decided", kind |-> "update", on |-> c, seen |-> contest[c],
         at |-> IF p.status = "CLOSED" THEN now ELSE NoTime,
         patch |-> SnapClose(now, contest[c], p), new |-> AbsentRow] \in WriterStates
    BY <1>1, <2>1, <2>2, <2>3 DEF WriterStates, Instants
  <2> QED BY <1>4, <2>4 DEF BeginUpdate
<1>5. ASSUME NEW w \in Writers, NEW c \in Contests, BeginSync(w, c)
      PROVE  LifeTypeOK'
  <2>1. ImpliedStatus(now, contest[c]) \in Statuses \cup {NoStatus}
    BY ImpliedStatusType DEF Statuses
  <2>2. [NoPatch EXCEPT !.status = ImpliedStatus(now, contest[c])] \in Patches
    BY <2>1 DEF NoPatch, Patches, Instants
  <2>3. AbsentRow \in Rows /\ contest[c] \in Rows /\ NoTime \in Instants
    BY DEF AbsentRow, Rows, Instants
  <2>4. [stage |-> "decided", kind |-> "sync", on |-> c, seen |-> contest[c], at |-> NoTime,
         patch |-> [NoPatch EXCEPT !.status = ImpliedStatus(now, contest[c])],
         new |-> AbsentRow] \in WriterStates
    BY <2>2, <2>3 DEF WriterStates
  <2> QED BY <1>5, <2>4 DEF BeginSync
<1>6. ASSUME NEW w \in Writers, Write(w)
      PROVE  LifeTypeOK'
  <2>1. writer[w] \in WriterStates /\ writer[w].on \in Contests
    BY DEF WriterStates
  <2>2. WrittenRow(writer[w], contest[writer[w].on]) \in Rows
    BY <2>1, WrittenRowType
  <2>3. writer' \in [Writers -> WriterStates]
    BY <1>6, <2>1, <2>2 DEF Write, WriterStates
  <2>4. w \in Lockers
    BY LockerAssumption
  <2> QED BY <1>6, <2>3, <2>4 DEF Write
<1>7. ASSUME NEW w \in Writers, Commit(w)
      PROVE  LifeTypeOK'
  <2>1. writer[w].new \in Rows
    BY DEF WriterStates
  <2> QED BY <1>7, <2>1, NoWorkType DEF Commit, Release
<1>8. ASSUME NEW w \in Writers, Rollback(w)
      PROVE  LifeTypeOK'
  BY <1>8, NoWorkType DEF Rollback, Release
<1> QED
  BY <1>2, <1>3, <1>4, <1>5, <1>6, <1>7, <1>8 DEF LifeNext

(* The initial states are of these types.                                  *)
LEMMA LifeTypeInit == LifeInit => LifeTypeOK
BY NoWorkType, RowAssumption, TimeAssumption DEF LifeInit, LifeTypeOK

(* The rows, the locks and the requests in progress keep their types.      *)
THEOREM LifeTypeCorrect == LifeSpec => []LifeTypeOK
<1>1. LifeTypeOK /\ [LifeNext]_lifeVars => LifeTypeOK'
  <2> SUFFICES ASSUME LifeTypeOK, UNCHANGED lifeVars PROVE LifeTypeOK'
    BY LifeTypeStep
  <2> QED BY DEF LifeTypeOK, lifeVars
<1> QED BY LifeTypeInit, <1>1, PTL DEF LifeSpec
-----------------------------------------------------------------------------
(* A row lock is held by exactly the writer that has written the row.      *)
LocksMatch ==
    \A w \in Writers, c \in Contests :
        rowLock[c] = w <=> writer[w].stage = "written" /\ writer[w].on = c

(* Every step keeps locks and writers in agreement.                        *)
LEMMA LocksMatchStep ==
    ASSUME LifeTypeOK, LocksMatch, LifeNext
    PROVE  LocksMatch'
<1> SUFFICES ASSUME NEW w \in Writers, NEW c \in Contests
             PROVE  (rowLock[c] = w <=> writer[w].stage = "written" /\ writer[w].on = c)'
  BY DEF LocksMatch
<1>1. /\ rowLock[c] = w <=> writer[w].stage = "written" /\ writer[w].on = c
      /\ writer \in [Writers -> WriterStates] /\ rowLock \in [Contests -> Lockers \cup {NoLocker}]
  BY DEF LocksMatch, LifeTypeOK
<1>2. CASE Tick
  BY <1>1, <1>2 DEF Tick
<1>3. ASSUME NEW d \in Contests, NEW p \in Created, Create(d, p)
      PROVE  (rowLock[c] = w <=> writer[w].stage = "written" /\ writer[w].on = c)'
  BY <1>1, <1>3 DEF Create
<1>4. ASSUME NEW v \in Writers, NEW d \in Contests, NEW p \in Requested, BeginUpdate(v, d, p)
      PROVE  (rowLock[c] = w <=> writer[w].stage = "written" /\ writer[w].on = c)'
  BY <1>1, <1>4, NoWorkType DEF BeginUpdate, Idle
<1>5. ASSUME NEW v \in Writers, NEW d \in Contests, BeginSync(v, d)
      PROVE  (rowLock[c] = w <=> writer[w].stage = "written" /\ writer[w].on = c)'
  BY <1>1, <1>5, NoWorkType DEF BeginSync, Idle
<1>6. ASSUME NEW v \in Writers, Write(v)
      PROVE  (rowLock[c] = w <=> writer[w].stage = "written" /\ writer[w].on = c)'
  <2>1. /\ writer[v].stage = "decided" /\ rowLock[writer[v].on] = NoLocker
        /\ rowLock' = [rowLock EXCEPT ![writer[v].on] = v]
        /\ writer'[v].stage = "written" /\ writer'[v].on = writer[v].on
        /\ w # v => writer'[w] = writer[w]
    BY <1>1, <1>6 DEF Write, LockFree, WriterStates
  <2>2. writer[v].on \in Contests /\ w # NoLocker
    BY <1>1, LockerAssumption DEF WriterStates
  <2> QED BY <1>1, <2>1, <2>2
<1>7. ASSUME NEW v \in Writers, Commit(v)
      PROVE  (rowLock[c] = w <=> writer[w].stage = "written" /\ writer[w].on = c)'
  BY <1>1, <1>7, NoWorkType, LockerAssumption DEF Commit, Release
<1>8. ASSUME NEW v \in Writers, Rollback(v)
      PROVE  (rowLock[c] = w <=> writer[w].stage = "written" /\ writer[w].on = c)'
  BY <1>1, <1>8, NoWorkType, LockerAssumption DEF Rollback, Release
<1> QED
  BY <1>2, <1>3, <1>4, <1>5, <1>6, <1>7, <1>8 DEF LifeNext

(* No lock is held at the start.                                           *)
LEMMA LocksMatchInit == LifeInit => LocksMatch
BY NoWorkType, LockerAssumption DEF LifeInit, LocksMatch

-----------------------------------------------------------------------------
(* The times of a written row are those committed, but for the columns its *)
(* request sends and the end of voting a reopening drops.                  *)
TimesKept(r) ==
    /\ r.patch.opens = NoTime => r.new.opens = contest[r.on].opens
    /\ r.patch.closes = NoTime =>
          \/ r.new.closes = contest[r.on].closes
          \/ r.kind = "update" /\ r.patch.status = "OPEN" /\ r.new.closes = NoTime

(* What a request in progress knows of its row: it is in the table, a sync *)
(* sends no times, and what was written keeps the times it does not send.  *)
Pending(w) ==
    LET r == writer[w] IN
    /\ contest[r.on].status # "ABSENT"
    /\ r.kind = "sync" => r.patch.opens = NoTime /\ r.patch.closes = NoTime
    /\ r.stage = "written" => r.new.status # "ABSENT" /\ TimesKept(r)

PendingInv == \A w \in Writers : ~Idle(w) => Pending(w)

(* A row in the table is never written back as absent.                     *)
LEMMA WrittenRowStatus ==
    ASSUME NEW r \in WriterStates, NEW row \in Rows, row.status # "ABSENT"
    PROVE  WrittenRow(r, row).status # "ABSENT"
<1> DEFINE laid == Overlay(row, r.patch)
           held == Overlay(r.seen, r.patch)
<1>1. r.patch \in Patches
  BY DEF WriterStates
<1>2. laid \in Rows /\ laid.status # "ABSENT"
  BY <1>1, OverlayType DEF Overlay, Patches, Statuses
<1>3. [laid EXCEPT !.closes = NoTime].status # "ABSENT"
  BY <1>2 DEF Rows
<1>4. ASSUME SyncNeeded(now, held)
      PROVE  [laid EXCEPT !.status = ImpliedStatus(now, held)].status # "ABSENT"
  <2>1. ImpliedStatus(now, held) \in {"OPEN", "CLOSED", NoStatus}
    BY ImpliedStatusType
  <2> QED BY <1>2, <2>1 DEF Rows, NoStatus
<1> QED BY <1>2, <1>3, <1>4 DEF WrittenRow

(* A written row keeps the times its request does not send, but for the    *)
(* end of voting of a reopened contest.                                    *)
LEMMA WrittenRowTimes ==
    ASSUME NEW r \in WriterStates, NEW row \in Rows
    PROVE  /\ r.patch.opens = NoTime => WrittenRow(r, row).opens = row.opens
           /\ r.patch.closes = NoTime =>
                 \/ WrittenRow(r, row).closes = row.closes
                 \/ r.kind = "update" /\ r.patch.status = "OPEN"
                                      /\ WrittenRow(r, row).closes = NoTime
<1> DEFINE laid == Overlay(row, r.patch)
           held == Overlay(r.seen, r.patch)
<1>1. r.patch \in Patches
  BY DEF WriterStates
<1>2. laid \in Rows
  BY <1>1, OverlayType
<1>3. /\ r.patch.opens = NoTime => laid.opens = row.opens
      /\ r.patch.closes = NoTime => laid.closes = row.closes
  BY DEF Overlay
<1>4. \/ WrittenRow(r, row) = laid
      \/ /\ r.kind = "update" /\ r.patch.status = "OPEN"
         /\ WrittenRow(r, row) = [laid EXCEPT !.closes = NoTime]
      \/ WrittenRow(r, row) = [laid EXCEPT !.status = ImpliedStatus(now, held)]
  BY DEF WrittenRow
<1> QED BY <1>2, <1>3, <1>4 DEF Rows

(* Every step keeps what is known of the requests in progress.             *)
LEMMA PendingStep ==
    ASSUME LifeTypeOK, LocksMatch, PendingInv, LifeNext
    PROVE  PendingInv'
<1> SUFFICES ASSUME NEW w \in Writers, ~Idle(w)'
             PROVE  Pending(w)'
  BY DEF PendingInv
<1>1. /\ ~Idle(w) => Pending(w)
      /\ writer \in [Writers -> WriterStates] /\ contest \in [Contests -> Rows]
      /\ writer[w] \in WriterStates /\ writer[w].on \in Contests
  BY DEF PendingInv, LifeTypeOK, WriterStates
<1>2. CASE Tick
  BY <1>1, <1>2 DEF Tick, Pending, TimesKept, Idle
<1>3. ASSUME NEW c \in Contests, NEW p \in Created, Create(c, p)
      PROVE  Pending(w)'
  <2>1. writer' = writer /\ Pending(w)
    BY <1>1, <1>3 DEF Create, Idle
  <2>2. c # writer[w].on
    BY <1>3, <2>1 DEF Create, Pending, AbsentRow
  <2>3. contest'[writer[w].on] = contest[writer[w].on]
    BY <1>1, <1>3, <2>2 DEF Create
  <2> QED BY <2>1, <2>3 DEF Pending, TimesKept
<1>4. ASSUME NEW v \in Writers, NEW c \in Contests, NEW p \in Requested, BeginUpdate(v, c, p)
      PROVE  Pending(w)'
  <2>1. CASE w = v
    <3>1. /\ writer'[w].stage = "decided" /\ writer'[w].kind = "update"
          /\ writer'[w].on = c /\ contest' = contest /\ contest[c].status # "ABSENT"
      BY <1>1, <1>4, <2>1 DEF BeginUpdate
    <3> QED BY <3>1 DEF Pending
  <2>2. CASE w # v
    BY <1>1, <1>4, <2>2 DEF BeginUpdate, Pending, TimesKept, Idle
  <2> QED BY <2>1, <2>2
<1>5. ASSUME NEW v \in Writers, NEW c \in Contests, BeginSync(v, c)
      PROVE  Pending(w)'
  <2>1. CASE w = v
    <3>1. /\ writer'[w].stage = "decided" /\ writer'[w].on = c /\ contest' = contest
          /\ writer'[w].patch = [NoPatch EXCEPT !.status = ImpliedStatus(now, contest[c])]
      BY <1>1, <1>5, <2>1 DEF BeginSync
    <3>2. contest[c].status # "ABSENT"
      BY <1>5 DEF BeginSync, SyncNeeded
    <3>3. writer'[w].patch.opens = NoTime /\ writer'[w].patch.closes = NoTime
      BY <3>1 DEF NoPatch
    <3> QED BY <3>1, <3>2, <3>3 DEF Pending
  <2>2. CASE w # v
    BY <1>1, <1>5, <2>2 DEF BeginSync, Pending, TimesKept, Idle
  <2> QED BY <2>1, <2>2
<1>6. ASSUME NEW v \in Writers, Write(v)
      PROVE  Pending(w)'
  <2>1. CASE w = v
    <3> DEFINE row == contest[writer[w].on]
    <3>1. writer[w].stage = "decided" /\ ~Idle(w)
      BY <1>6, <2>1, NoWorkType DEF Write, Idle
    <3>2. row \in Rows /\ row.status # "ABSENT"
      BY <1>1, <3>1 DEF Pending
    <3>3. /\ writer'[w].on = writer[w].on /\ writer'[w].kind = writer[w].kind
          /\ writer'[w].patch = writer[w].patch /\ contest' = contest
          /\ writer'[w].new = WrittenRow(writer[w], row)
      BY <1>1, <1>6, <2>1 DEF Write, WriterStates
    <3>4. WrittenRow(writer[w], row).status # "ABSENT"
      BY <1>1, <3>2, WrittenRowStatus
    <3>5. TimesKept(writer[w])'
      BY <1>1, <3>2, <3>3, WrittenRowTimes DEF TimesKept
    <3> QED BY <1>1, <3>1, <3>2, <3>3, <3>4, <3>5 DEF Pending
  <2>2. CASE w # v
    BY <1>1, <1>6, <2>2 DEF Write, Pending, TimesKept, Idle
  <2> QED BY <2>1, <2>2
<1>7. ASSUME NEW v \in Writers, Commit(v)
      PROVE  Pending(w)'
  <2>1. w # v /\ writer'[w] = writer[w] /\ Pending(w)
    BY <1>1, <1>7 DEF Commit, Idle
  <2>2. /\ writer[v].stage = "written" /\ writer[v].on \in Contests
        /\ contest' = [contest EXCEPT ![writer[v].on] = writer[v].new]
    BY <1>1, <1>7 DEF Commit, WriterStates
  <2>3. writer[v].new.status # "ABSENT"
    BY <2>2, NoWorkType DEF PendingInv, Idle, Pending
  <2>4. writer[w].stage = "written" => writer[w].on # writer[v].on
    BY <1>1, <2>1, <2>2 DEF LocksMatch
  <2> QED BY <1>1, <2>1, <2>2, <2>3, <2>4 DEF Pending, TimesKept
<1>8. ASSUME NEW v \in Writers, Rollback(v)
      PROVE  Pending(w)'
  BY <1>1, <1>8 DEF Rollback, Pending, TimesKept, Idle
<1> QED
  BY <1>2, <1>3, <1>4, <1>5, <1>6, <1>7, <1>8 DEF LifeNext

(* No request is in progress at the start.                                 *)
LEMMA PendingInit == LifeInit => PendingInv
BY DEF LifeInit, PendingInv, Idle

(* A time an official committed is changed only by a request that sends    *)
(* it, or dropped by a reopening, however requests and syncs overlap.      *)
THEOREM OfficialTimesStand == LifeSpec => TimesChangeOnlyWhenSent
<1> DEFINE TimesOf(w) ==
      LET r == writer[w]
          row == contest[r.on]
      IN  r.stage = "written" /\ contest'[r.on] # row /\ writer'[w].stage = "idle" =>
            /\ \/ contest'[r.on].opens = row.opens
               \/ r.kind = "update" /\ r.patch.opens # NoTime
            /\ \/ contest'[r.on].closes = row.closes
               \/ r.kind = "update" /\ r.patch.closes # NoTime
               \/ /\ r.kind = "update" /\ r.patch.status = "OPEN"
                  /\ contest'[r.on].closes = NoTime
<1>1. LifeTypeOK /\ LocksMatch /\ [LifeNext]_lifeVars => LocksMatch'
  <2> SUFFICES ASSUME LifeTypeOK, LocksMatch, UNCHANGED lifeVars PROVE LocksMatch'
    BY LocksMatchStep
  <2> QED BY DEF LocksMatch, lifeVars
<1>2. LifeTypeOK /\ LocksMatch /\ PendingInv /\ [LifeNext]_lifeVars => PendingInv'
  <2> SUFFICES ASSUME PendingInv, UNCHANGED lifeVars PROVE PendingInv'
    BY PendingStep
  <2> QED BY DEF PendingInv, Pending, TimesKept, Idle, lifeVars
<1>3. ASSUME LifeTypeOK, LocksMatch, PendingInv, [LifeNext]_lifeVars
      PROVE  [\A w \in Writers : TimesOf(w)]_lifeVars
  <2> SUFFICES ASSUME LifeNext, NEW w \in Writers,
                      writer[w].stage = "written", writer'[w].stage = "idle",
                      contest'[writer[w].on] # contest[writer[w].on]
               PROVE  TimesOf(w)
    BY <1>3
  <2>1. /\ writer \in [Writers -> WriterStates] /\ contest \in [Contests -> Rows]
        /\ writer[w] \in WriterStates /\ writer[w].on \in Contests
    BY <1>3 DEF LifeTypeOK, WriterStates
  <2>2. Pending(w)
    BY <1>3, NoWorkType DEF PendingInv, Idle
  <2>3. ASSUME NEW v \in Writers, Commit(v)
        PROVE  TimesOf(w)
    <3>1. v = w
      BY <2>1, <2>3 DEF Commit
    <3>2. contest'[writer[w].on] = writer[w].new
      BY <2>1, <2>3, <3>1 DEF Commit
    <3>3. writer[w].kind \in {"update", "sync"}
      BY <2>1 DEF WriterStates
    <3> QED BY <2>1, <2>2, <3>2, <3>3 DEF Pending, TimesKept
  <2>4. ASSUME NEW d \in Contests, NEW p \in Created
        PROVE  ~Create(d, p)
    BY DEF Create
  <2>5. ASSUME ~\E v \in Writers : Commit(v)
        PROVE  contest' = contest
    BY <2>4, <2>5 DEF LifeNext, Tick, BeginUpdate, BeginSync, Write, Rollback
  <2> QED BY <2>3, <2>5
<1> QED
  BY LocksMatchInit, PendingInit, <1>1, <1>2, <1>3, LifeTypeCorrect, PTL
     DEF LifeSpec, TimesChangeOnlyWhenSent
-----------------------------------------------------------------------------
(***************************************************************************)
(* Officials in turn: until two requests overlap, the row a request writes *)
(* over is the row it has read.                                            *)
(***************************************************************************)
OneAtATime == \A v, w \in Writers : v # w => Idle(v) \/ Idle(w)

(* A sync moves the status the way the table allows.                       *)
Moves == {<<"OPEN", "CLOSED">>, <<"CLOSED", "OPEN">>}

(* What the one request in progress knows of its row.                      *)
Undisturbed(w) ==
    LET r == writer[w] IN
    /\ contest[r.on] = r.seen /\ r.seen.status # "ABSENT"
    /\ r.kind = "update" => TransitionAllowed(r.seen, r.patch)
    /\ r.kind = "sync" => <<r.seen.status, r.patch.status>> \in Moves
    /\ r.stage = "written" => \/ r.new.status = r.seen.status
                              \/ r.new.status \in ValidTransitions[r.seen.status]

TurnInv == ~overlapped => OneAtATime /\ \A w \in Writers : ~Idle(w) => Undisturbed(w)

(* What holds of the contest rows whoever overlaps holds here.             *)
LEMMA TurnIsLife == TurnSpec => LifeSpec
<1>1. TurnInit => LifeInit
  BY DEF TurnInit
<1>2. [TurnNext]_<<lifeVars, overlapped>> => [LifeNext]_lifeVars
  BY DEF TurnNext
<1> QED BY <1>1, <1>2, PTL DEF TurnSpec, LifeSpec

(* A row is written back with its status, or with one the table allows.    *)
LEMMA WrittenLegal ==
    ASSUME NEW r \in WriterStates, r.seen \in Rows, r.seen.status # "ABSENT",
           r.kind = "update" => TransitionAllowed(r.seen, r.patch),
           r.kind = "sync" => <<r.seen.status, r.patch.status>> \in Moves
    PROVE  LET status == WrittenRow(r, r.seen).status
           IN  status = r.seen.status \/ status \in ValidTransitions[r.seen.status]
<1> DEFINE laid == Overlay(r.seen, r.patch)
<1>1. r.patch \in Patches /\ r.kind \in {"update", "sync"}
  BY DEF WriterStates
<1>2. laid \in Rows /\ laid.status = IF r.patch.status = NoStatus THEN r.seen.status ELSE r.patch.status
  BY <1>1, OverlayType DEF Overlay
<1>3. laid.status = r.seen.status \/ laid.status \in ValidTransitions[r.seen.status]
  <2>1. CASE r.kind = "update"
    BY <1>2, <2>1 DEF TransitionAllowed
  <2>2. CASE r.kind = "sync"
    BY <1>2, <2>2 DEF Moves, ValidTransitions, NoStatus
  <2> QED BY <1>1, <2>1, <2>2
<1>4. [laid EXCEPT !.closes = NoTime].status = laid.status
  BY <1>2 DEF Rows
<1>5. ASSUME r.patch.status = NoStatus, SyncNeeded(now, laid)
      PROVE  [laid EXCEPT !.status = ImpliedStatus(now, laid)].status
                \in ValidTransitions[r.seen.status]
  <2>1. laid.status = r.seen.status /\ laid.status \in {"OPEN", "CLOSED"}
    BY <1>2, <1>5 DEF SyncNeeded
  <2>2. ImpliedStatus(now, laid) \in {"OPEN", "CLOSED"} \ {laid.status}
    BY <1>5, ImpliedStatusType DEF SyncNeeded
  <2> QED BY <1>2, <2>1, <2>2 DEF Rows, ValidTransitions
<1> QED BY <1>3, <1>4, <1>5 DEF WrittenRow

(* It holds at the start.                                                  *)
LEMMA TurnInvInit == TurnInit => TurnInv
BY DEF TurnInit, LifeInit, TurnInv, OneAtATime, Idle

(* Every step keeps it.                                                    *)
LEMMA TurnInvStep ==
    ASSUME LifeTypeOK, TurnInv, TurnNext
    PROVE  TurnInv'
<1> SUFFICES ASSUME ~overlapped' PROVE TurnInv'
  BY DEF TurnInv
<1>1. ~overlapped /\ OneAtATime /\ OneAtATime' /\ LifeNext
  BY DEF TurnNext, Overlapping, OneAtATime, TurnInv
<1> SUFFICES ASSUME NEW w \in Writers, ~Idle(w)'
             PROVE  Undisturbed(w)'
  BY <1>1 DEF TurnInv
<1>2. /\ ~Idle(w) => Undisturbed(w)
      /\ writer \in [Writers -> WriterStates] /\ contest \in [Contests -> Rows]
      /\ writer[w] \in WriterStates /\ writer[w].on \in Contests
  BY <1>1 DEF TurnInv, LifeTypeOK, WriterStates
<1>3. CASE Tick
  BY <1>2, <1>3 DEF Tick, Undisturbed, Idle, TransitionAllowed
<1>4. ASSUME NEW c \in Contests, NEW p \in Created, Create(c, p)
      PROVE  Undisturbed(w)'
  <2>1. writer' = writer /\ Undisturbed(w)
    BY <1>2, <1>4 DEF Create, Idle
  <2>2. c # writer[w].on
    BY <1>4, <2>1 DEF Create, Undisturbed, AbsentRow
  <2>3. contest'[writer[w].on] = contest[writer[w].on]
    BY <1>2, <1>4, <2>2 DEF Create
  <2> QED BY <2>1, <2>3 DEF Undisturbed, TransitionAllowed
<1>5. ASSUME NEW v \in Writers, NEW c \in Contests, NEW p \in Requested, BeginUpdate(v, c, p)
      PROVE  Undisturbed(w)'
  <2>1. CASE w = v
    <3>1. /\ writer'[w].stage = "decided" /\ writer'[w].kind = "update"
          /\ writer'[w].on = c /\ contest' = contest /\ contest[c].status # "ABSENT"
          /\ writer'[w].seen = contest[c] /\ TransitionAllowed(contest[c], p)
          /\ writer'[w].patch = SnapClose(now, contest[c], p) /\ p \in Patches
      BY <1>2, <1>5, <2>1, RowAssumption DEF BeginUpdate
    <3>2. SnapClose(now, contest[c], p).status = p.status
      BY <3>1 DEF SnapClose, Patches
    <3> QED BY <3>1, <3>2 DEF Undisturbed, TransitionAllowed
  <2>2. CASE w # v
    BY <1>2, <1>5, <2>2 DEF BeginUpdate, Undisturbed, Idle, TransitionAllowed
  <2> QED BY <2>1, <2>2
<1>6. ASSUME NEW v \in Writers, NEW c \in Contests, BeginSync(v, c)
      PROVE  Undisturbed(w)'
  <2>1. CASE w = v
    <3>1. /\ writer'[w].stage = "decided" /\ writer'[w].kind = "sync"
          /\ writer'[w].on = c /\ contest' = contest /\ writer'[w].seen = contest[c]
          /\ writer'[w].patch.status = ImpliedStatus(now, contest[c])
          /\ SyncNeeded(now, contest[c])
      BY <1>2, <1>6, <2>1 DEF BeginSync, NoPatch
    <3>2. <<contest[c].status, ImpliedStatus(now, contest[c])>> \in Moves
      BY <3>1, ImpliedStatusType DEF SyncNeeded, Moves
    <3>3. contest[c].status # "ABSENT"
      BY <3>1 DEF SyncNeeded
    <3> QED BY <3>1, <3>2, <3>3 DEF Undisturbed
  <2>2. CASE w # v
    BY <1>2, <1>6, <2>2 DEF BeginSync, Undisturbed, Idle, TransitionAllowed
  <2> QED BY <2>1, <2>2
<1>7. ASSUME NEW v \in Writers, Write(v)
      PROVE  Undisturbed(w)'
  <2>1. CASE w = v
    <3>1. writer[w].stage = "decided" /\ ~Idle(w)
      BY <1>7, <2>1, NoWorkType DEF Write, Idle
    <3>2. /\ writer'[w].on = writer[w].on /\ writer'[w].kind = writer[w].kind
          /\ writer'[w].patch = writer[w].patch /\ writer'[w].seen = writer[w].seen
          /\ contest' = contest /\ writer'[w].new = WrittenRow(writer[w], contest[writer[w].on])
      BY <1>2, <1>7, <2>1 DEF Write, WriterStates
    <3>3. LET status == WrittenRow(writer[w], writer[w].seen).status
          IN  status = writer[w].seen.status \/ status \in ValidTransitions[writer[w].seen.status]
      BY <1>2, <3>1, WrittenLegal DEF Undisturbed
    <3> QED BY <1>2, <3>1, <3>2, <3>3 DEF Undisturbed, TransitionAllowed
  <2>2. CASE w # v
    BY <1>2, <1>7, <2>2 DEF Write, Undisturbed, Idle, TransitionAllowed
  <2> QED BY <2>1, <2>2
<1>8. ASSUME NEW v \in Writers, Commit(v) \/ Rollback(v)
      PROVE  FALSE
  <2>1. ~Idle(v) /\ writer' = [writer EXCEPT ![v] = NoWork]
    BY <1>8, NoWorkType DEF Commit, Rollback, Idle
  <2>2. w # v /\ ~Idle(w)
    BY <1>2, <2>1 DEF Idle
  <2> QED BY <1>1, <2>1, <2>2 DEF OneAtATime
<1> QED
  BY <1>1, <1>3, <1>4, <1>5, <1>6, <1>7, <1>8 DEF LifeNext

(* The invariant of officials in turn.                                     *)
LEMMA TurnInvariant == TurnSpec => [](LifeTypeOK /\ TurnInv)
<1>1. LifeTypeOK /\ TurnInv /\ [TurnNext]_<<lifeVars, overlapped>> => TurnInv'
  <2> SUFFICES ASSUME LifeTypeOK, TurnInv, UNCHANGED <<lifeVars, overlapped>> PROVE TurnInv'
    BY TurnInvStep
  <2> QED BY DEF TurnInv, OneAtATime, Undisturbed, Idle, TransitionAllowed, lifeVars
<1> QED BY TurnInvInit, TurnIsLife, LifeTypeCorrect, <1>1, PTL DEF TurnSpec

(* Officials who act in turn never see a status change the transition      *)
(* table does not hold, whatever reads sync the status in between.         *)
THEOREM TransitionsAreLegal == TurnSpec => SerialTransitionsAreValid
<1>1. ASSUME LifeTypeOK, TurnInv, [TurnNext]_<<lifeVars, overlapped>>
      PROVE  [~overlapped' => LegalTransitions]_lifeVars
  <2> SUFFICES ASSUME TurnNext, ~overlapped', NEW c \in Contests, contest[c].status # "ABSENT",
                      contest'[c].status # contest[c].status
               PROVE  contest'[c].status \in ValidTransitions[contest[c].status]
    BY <1>1 DEF LegalTransitions
  <2>1. ~overlapped /\ LifeNext /\ contest \in [Contests -> Rows]
    BY <1>1 DEF TurnNext, LifeTypeOK
  <2>2. ASSUME NEW d \in Contests, NEW p \in Created, Create(d, p)
        PROVE  FALSE
    BY <2>1, <2>2 DEF Create, AbsentRow
  <2>3. ASSUME NEW v \in Writers, Commit(v)
        PROVE  contest'[c].status \in ValidTransitions[contest[c].status]
    <3>1. /\ writer[v].stage = "written" /\ ~Idle(v)
          /\ contest' = [contest EXCEPT ![writer[v].on] = writer[v].new]
      BY <2>3, NoWorkType DEF Commit, Idle
    <3>2. writer[v].on = c /\ contest'[c] = writer[v].new
      BY <2>1, <3>1
    <3> QED BY <1>1, <2>1, <3>1, <3>2 DEF TurnInv, Undisturbed
  <2>4. ASSUME Tick \/ (\E w \in Writers : Write(w) \/ Rollback(w))
                 \/ (\E w \in Writers, d \in Contests, p \in Requested : BeginUpdate(w, d, p))
                 \/ (\E w \in Writers, d \in Contests : BeginSync(w, d))
        PROVE  contest' = contest
    BY <2>4 DEF Tick, Write, Rollback, BeginUpdate, BeginSync
  <2> QED BY <2>1, <2>2, <2>3, <2>4 DEF LifeNext
<1> QED BY TurnInvariant, <1>1, PTL DEF TurnSpec, SerialTransitionsAreValid

(* A reopening that is written outlives the next read: the end of voting   *)
(* that has passed was dropped from the row it was read as.                *)
THEOREM ReopenSurvives == TurnSpec => SerialReopenSurvives
<1>1. ASSUME LifeTypeOK, TurnInv, [TurnNext]_<<lifeVars, overlapped>>
      PROVE  [~overlapped' => ReopenOutlivesItsDay]_lifeVars
  <2> SUFFICES ASSUME TurnNext, ~overlapped', NEW w \in Writers,
                      writer[w].stage = "decided", writer'[w].stage = "written",
                      writer[w].kind = "update", writer[w].patch.status = "OPEN",
                      writer[w].seen.status = "CLOSED", writer'[w].new.opens <= now
               PROVE  ImpliedStatus(now, writer'[w].new) # "CLOSED"
    BY <1>1 DEF ReopenOutlivesItsDay
  <2> DEFINE r == writer[w]
             laid == Overlay(r.seen, r.patch)
  <2>1. /\ ~overlapped /\ LifeNext /\ writer \in [Writers -> WriterStates]
        /\ r \in WriterStates /\ r.seen \in Rows /\ r.patch \in Patches /\ now \in Nat
    <3>1. ~overlapped /\ LifeNext
      BY DEF TurnNext
    <3>2. writer \in [Writers -> WriterStates] /\ now \in Nat
      BY <1>1, TimeAssumption DEF LifeTypeOK
    <3>3. r \in WriterStates
      BY <3>2
    <3> QED BY <3>1, <3>2, <3>3 DEF WriterStates
  <2>2. Write(w)
    <3>1. ASSUME NEW v \in Writers, Write(v)
          PROVE  v = w
      BY <2>1, <3>1 DEF Write
    <3>2. ASSUME NEW v \in Writers, Commit(v) \/ Rollback(v)
          PROVE  FALSE
      BY <2>1, <3>2, NoWorkType DEF Commit, Rollback
    <3>3. ASSUME NEW v \in Writers, NEW c \in Contests, NEW p \in Requested,
                 BeginUpdate(v, c, p) \/ BeginSync(v, c)
          PROVE  FALSE
      BY <2>1, <3>3, NoWorkType DEF BeginUpdate, BeginSync, Idle
    <3>4. ASSUME NEW v \in Writers, NEW c \in Contests, BeginSync(v, c)
          PROVE  FALSE
      BY <2>1, <3>4, NoWorkType DEF BeginSync, Idle
    <3>5. ~Tick /\ \A c \in Contests, p \in Created : ~Create(c, p)
      BY DEF Tick, Create
    <3> QED BY <2>1, <3>1, <3>2, <3>3, <3>4, <3>5 DEF LifeNext
  <2>3. ~Idle(w)
    BY NoWorkType DEF Idle
  <2>4. contest[r.on] = r.seen
    BY <1>1, <2>1, <2>3 DEF TurnInv, Undisturbed
  <2>5. writer'[w].new = WrittenRow(r, r.seen)
    BY <2>1, <2>2, <2>4 DEF Write, WriterStates
  <2>6. laid \in Rows /\ laid.opens \in Instants /\ \A t \in Instants : t <= now <=> now >= t
    BY <2>1, OverlayType DEF Rows, Instants, NoTime
  <2>7. CASE DropPastClose(now, laid) # laid
    <3>1. writer'[w].new = [laid EXCEPT !.closes = NoTime]
      BY <2>5, <2>7 DEF WrittenRow
    <3>2. writer'[w].new.closes = NoTime /\ writer'[w].new.opens = laid.opens
      BY <2>6, <3>1 DEF Rows
    <3>3. WithinWindow(now, writer'[w].new)
      BY <2>6, <3>2 DEF WithinWindow
    <3> QED BY <3>3 DEF ImpliedStatus, NoStatus
  <2>8. CASE DropPastClose(now, laid) = laid
    <3>1. writer'[w].new = laid
      BY <2>5, <2>8 DEF WrittenRow, NoStatus
    <3>2. laid.closes = NoTime \/ now <= laid.closes
      BY <2>1, <2>6, <2>8 DEF DropPastClose, Rows, Instants, NoTime
    <3>3. WithinWindow(now, laid)
      BY <2>6, <3>1, <3>2 DEF WithinWindow
    <3> QED BY <3>1, <3>3 DEF ImpliedStatus, NoStatus
  <2> QED BY <2>7, <2>8
<1> QED BY TurnInvariant, <1>1, PTL DEF TurnSpec, SerialReopenSurvives

-----------------------------------------------------------------------------
(* A manual close moves the end of voting to the instant it was decided at *)
(* and so is safe from syncs, if the request that closes does not send an  *)
(* end of voting of its own (the buttons of the portal send the status).   *)
ClosesAlone == \A p \in Requested : p.status = "CLOSED" => p.closes = NoTime

ByHand(r) == r.kind = "update" /\ r.patch.status = "CLOSED"

EndsBy(t, closes) == closes = NoTime \/ closes <= t

(* What the one request in progress knows of the end of voting.            *)
EndSettled(w) ==
    LET r == writer[w] IN
    /\ r.kind = "sync" => ~closedByHand[r.on] \/ r.seen.closes = NoTime
    /\ ByHand(r) => r.at \in Nat /\ EndsBy(r.at, Overlay(r.seen, r.patch).closes)
    /\ r.kind = "sync" => r.patch.closes = NoTime
    /\ r.stage = "written" =>
          /\ r.kind = "sync" => r.new.closes = r.seen.closes
          /\ ByHand(r) => r.new.status = "CLOSED" /\ EndsBy(r.at, r.new.closes)

ClosedBehind ==
    \A c \in Contests : closedByHand[c] =>
        /\ contest[c].status # "ABSENT"
        /\ contest[c].closes # NoTime =>
              contest[c].closes < now /\ contest[c].status \in {"CLOSED", "CANCELLED"}

CloseInv == ~overlapped => ClosedBehind /\ \A w \in Writers : ~Idle(w) => EndSettled(w)

(* It holds at the start.                                                  *)
LEMMA CloseInvInit == TurnInit => CloseInv
BY DEF TurnInit, LifeInit, CloseInv, ClosedBehind, Idle

(* What a request that does not reopen writes over the row it has read.    *)
LEMMA WrittenEnd ==
    ASSUME NEW r \in WriterStates
    PROVE  /\ r.kind = "sync" /\ r.patch.closes = NoTime
                => WrittenRow(r, r.seen).closes = r.seen.closes
           /\ ByHand(r) => WrittenRow(r, r.seen) = Overlay(r.seen, r.patch)
                           /\ Overlay(r.seen, r.patch).status = "CLOSED"
BY DEF WrittenRow, Overlay, ByHand, NoStatus

(* Every step keeps it.                                                    *)
LEMMA CloseInvStep ==
    ASSUME ClosesAlone, LifeTypeOK, TurnInv, CloseInv, TurnNext
    PROVE  CloseInv'
<1> SUFFICES ASSUME ~overlapped' PROVE CloseInv'
  BY DEF CloseInv
<1>1. ~overlapped /\ LifeNext /\ ClosedBehind
  BY DEF TurnNext, CloseInv
<1>2. /\ writer \in [Writers -> WriterStates] /\ contest \in [Contests -> Rows]
      /\ closedByHand \in [Contests -> BOOLEAN]
      /\ now \in Nat /\ NoTime \notin Nat
      /\ \A w \in Writers : writer[w] \in WriterStates /\ writer[w].on \in Contests
      /\ \A c \in Contests : contest[c] \in Rows /\ contest[c].closes \in Instants
  BY TimeAssumption DEF LifeTypeOK, WriterStates, Rows, NoTime
<1>3. \A w \in Writers : ~Idle(w) => Undisturbed(w) /\ EndSettled(w)
  BY <1>1 DEF TurnInv, CloseInv
<1>4. ASSUME NEW w \in Writers, ~Idle(w), UNCHANGED <<writer[w], contest[writer[w].on]>>,
             closedByHand' = closedByHand
      PROVE  EndSettled(w)'
  BY <1>3, <1>4 DEF EndSettled, ByHand
<1>5. CASE Tick
  <2>1. ClosedBehind'
    BY <1>1, <1>2, <1>5 DEF Tick, ClosedBehind, Instants
  <2> QED BY <1>4, <1>5, <2>1 DEF Tick, CloseInv, Idle
<1>6. ASSUME NEW c \in Contests, NEW p \in Created, Create(c, p)
      PROVE  CloseInv'
  <2>1. /\ UNCHANGED <<now, writer, closedByHand>> /\ contest[c] = AbsentRow
        /\ \A d \in Contests \ {c} : contest'[d] = contest[d]
    BY <1>2, <1>6 DEF Create
  <2>2. ~closedByHand[c]
    BY <1>1, <2>1 DEF ClosedBehind, AbsentRow
  <2>3. ClosedBehind'
    BY <1>1, <2>1, <2>2 DEF ClosedBehind
  <2>4. ASSUME NEW w \in Writers, ~Idle(w)
        PROVE  writer[w].on # c
    <3>1. contest[writer[w].on] = writer[w].seen /\ writer[w].seen.status # "ABSENT"
      BY <1>3, <2>4 DEF Undisturbed
    <3> QED BY <2>1, <3>1 DEF AbsentRow
  <2> QED BY <1>2, <1>4, <2>1, <2>3, <2>4 DEF CloseInv, Idle
<1>7. ASSUME NEW v \in Writers, NEW c \in Contests, NEW p \in Requested, BeginUpdate(v, c, p)
      PROVE  CloseInv'
  <2>1. UNCHANGED <<now, contest, closedByHand>>
    BY <1>7 DEF BeginUpdate
  <2>2. /\ writer'[v].kind = "update" /\ writer'[v].stage = "decided"
        /\ writer'[v].seen = contest[c] /\ writer'[v].patch = SnapClose(now, contest[c], p)
        /\ writer'[v].at = IF p.status = "CLOSED" THEN now ELSE NoTime
        /\ \A w \in Writers \ {v} : writer'[w] = writer[w]
    BY <1>2, <1>7 DEF BeginUpdate
  <2>3. p \in Patches /\ SnapClose(now, contest[c], p).status = p.status
    BY RowAssumption DEF SnapClose, Patches
  <2>4. ASSUME p.status = "CLOSED"
        PROVE  EndsBy(now, Overlay(contest[c], SnapClose(now, contest[c], p)).closes)
    <3>1. p.closes = NoTime
      BY <2>4 DEF ClosesAlone
    <3>2. CASE contest[c].closes # NoTime /\ contest[c].closes > now
      BY <1>2, <2>3, <2>4, <3>2 DEF SnapClose, Overlay, EndsBy, Patches
    <3>3. CASE contest[c].closes = NoTime \/ contest[c].closes <= now
      BY <1>2, <2>3, <2>4, <3>1, <3>3 DEF SnapClose, Overlay, EndsBy
    <3> QED BY <1>2, <3>2, <3>3 DEF Instants
  <2>5. EndSettled(v)'
    BY <1>2, <2>2, <2>3, <2>4 DEF EndSettled, ByHand
  <2> QED BY <1>1, <1>4, <2>1, <2>2, <2>5 DEF CloseInv, ClosedBehind, Idle
<1>8. ASSUME NEW v \in Writers, NEW c \in Contests, BeginSync(v, c)
      PROVE  CloseInv'
  <2>1. UNCHANGED <<now, contest, closedByHand>> /\ SyncNeeded(now, contest[c])
    BY <1>8 DEF BeginSync
  <2>2. /\ writer'[v].kind = "sync" /\ writer'[v].stage = "decided" /\ writer'[v].on = c
        /\ writer'[v].seen = contest[c] /\ writer'[v].patch.closes = NoTime
        /\ \A w \in Writers \ {v} : writer'[w] = writer[w]
    BY <1>2, <1>8 DEF BeginSync, NoPatch
  <2>3. closedByHand[c] => contest[c].closes = NoTime
    <3> SUFFICES ASSUME closedByHand[c], contest[c].closes # NoTime PROVE FALSE
      OBVIOUS
    <3>1. contest[c].closes < now /\ contest[c].status \in {"CLOSED", "CANCELLED"}
      BY <1>1 DEF ClosedBehind
    <3>2. ImpliedStatus(now, contest[c]) = "CLOSED"
      BY <1>2, <3>1 DEF ImpliedStatus, WithinWindow, Instants
    <3> QED BY <2>1, <3>1, <3>2 DEF SyncNeeded
  <2>4. EndSettled(v)'
    BY <2>1, <2>2, <2>3 DEF EndSettled, ByHand
  <2> QED BY <1>1, <1>4, <2>1, <2>2, <2>4 DEF CloseInv, ClosedBehind, Idle
<1>9. ASSUME NEW v \in Writers, Write(v)
      PROVE  CloseInv'
  <2>1. UNCHANGED <<now, contest, closedByHand>> /\ writer[v].stage = "decided" /\ ~Idle(v)
    BY <1>9, NoWorkType DEF Write, Idle
  <2>2. /\ \A w \in Writers \ {v} : writer'[w] = writer[w]
        /\ writer'[v].kind = writer[v].kind /\ writer'[v].on = writer[v].on
        /\ writer'[v].seen = writer[v].seen /\ writer'[v].at = writer[v].at
        /\ writer'[v].patch = writer[v].patch
        /\ writer'[v].new = WrittenRow(writer[v], writer[v].seen)
    BY <1>2, <1>3, <1>9, <2>1 DEF Write, WriterStates, Undisturbed
  <2>3. EndSettled(v)'
    BY <1>2, <1>3, <2>1, <2>2, WrittenEnd DEF EndSettled, ByHand
  <2> QED BY <1>1, <1>4, <2>1, <2>2, <2>3 DEF CloseInv, ClosedBehind, Idle
<1>10. ASSUME NEW v \in Writers, Commit(v)
       PROVE  CloseInv'
  <2> DEFINE r == writer[v]
             c == r.on
  <2>1. /\ r.stage = "written" /\ now > r.at /\ ~Idle(v)
        /\ contest' = [contest EXCEPT ![c] = r.new]
        /\ closedByHand' = [closedByHand EXCEPT ![c] =
                              IF r.kind = "update" THEN r.patch.status = "CLOSED" ELSE @]
        /\ writer' = [writer EXCEPT ![v] = NoWork] /\ now' = now
    BY <1>10, NoWorkType DEF Commit, ClockAdvanced, Idle
  <2>2. \A w \in Writers : Idle(w)'
    BY <1>1, <1>2, <2>1 DEF TurnInv, OneAtATime, Idle
  <2>3. /\ contest'[c] = r.new /\ r.new \in Rows /\ r.kind \in {"update", "sync"}
        /\ r.new.status # "ABSENT"
        /\ \A d \in Contests \ {c} : contest'[d] = contest[d] /\ closedByHand'[d] = closedByHand[d]
    <3>1. r.new.status = r.seen.status \/ r.new.status \in ValidTransitions[r.seen.status]
      BY <1>3, <2>1 DEF Undisturbed
    <3>2. r.seen.status \in Statuses
      BY <1>2, <1>3, <2>1 DEF Undisturbed, Rows
    <3>3. r.new.status # "ABSENT"
      BY <3>1, <3>2 DEF ValidTransitions, Statuses
    <3> QED BY <1>2, <2>1, <3>3 DEF WriterStates
  <2>4. ASSUME closedByHand'[c], contest'[c].closes # NoTime
        PROVE  contest'[c].closes < now /\ contest'[c].status \in {"CLOSED", "CANCELLED"}
    <3>1. CASE ByHand(r)
      <4>1. r.at \in Nat /\ r.new.status = "CLOSED" /\ EndsBy(r.at, r.new.closes)
        BY <1>3, <2>1, <3>1 DEF EndSettled
      <4>2. r.new.closes \in Instants
        BY <2>3 DEF Rows
      <4> QED BY <1>2, <2>1, <2>3, <2>4, <4>1, <4>2 DEF EndsBy, Instants
    <3>2. CASE r.kind = "sync"
      <4>1. closedByHand[c] /\ r.new.closes = r.seen.closes /\ r.seen.closes = NoTime
        BY <1>2, <1>3, <2>1, <2>4, <3>2 DEF EndSettled
      <4> QED BY <2>3, <2>4, <4>1
    <3> QED BY <1>2, <2>1, <2>3, <2>4, <3>1, <3>2 DEF ByHand
  <2>5. ClosedBehind'
    BY <1>1, <2>1, <2>3, <2>4 DEF ClosedBehind
  <2> QED BY <2>2, <2>5 DEF CloseInv
<1>11. ASSUME NEW v \in Writers, Rollback(v)
       PROVE  CloseInv'
  <2>1. UNCHANGED <<now, contest, closedByHand>> /\ \A w \in Writers : w # v => writer'[w] = writer[w]
    BY <1>2, <1>11 DEF Rollback
  <2>2. Idle(v)'
    BY <1>2, <1>11 DEF Rollback, Idle
  <2> QED BY <1>1, <1>4, <2>1, <2>2 DEF CloseInv, ClosedBehind, Idle
<1> QED
  BY <1>1, <1>5, <1>6, <1>7, <1>8, <1>9, <1>10, <1>11 DEF LifeNext

(* A manual close stays until an official decides otherwise, whatever the  *)
(* schedule says and whoever reads the contest, for officials who act in   *)
(* turn and do not send an end of voting with the close.                   *)
THEOREM ManualCloseStays ==
    ASSUME ClosesAlone
    PROVE  TurnSpec => []ManualCloseStaysClosed
<1>1. LifeTypeOK /\ TurnInv /\ CloseInv /\ [TurnNext]_<<lifeVars, overlapped>> => CloseInv'
  <2> SUFFICES ASSUME CloseInv, UNCHANGED <<lifeVars, overlapped>> PROVE CloseInv'
    BY CloseInvStep
  <2> QED BY DEF CloseInv, ClosedBehind, EndSettled, ByHand, Idle, lifeVars
<1>2. LifeTypeOK /\ CloseInv => ManualCloseStaysClosed
  <2> SUFFICES ASSUME LifeTypeOK, CloseInv, ~overlapped, NEW c \in Contests,
                      closedByHand[c], contest[c].closes # NoTime
               PROVE  /\ ImpliedStatus(now, contest[c]) = "CLOSED"
                      /\ contest[c].status \in {"CLOSED", "CANCELLED"}
    BY DEF ManualCloseStaysClosed, ManualCloseIsStable
  <2>1. contest[c].closes < now /\ contest[c].status \in {"CLOSED", "CANCELLED"}
    BY DEF CloseInv, ClosedBehind
  <2>2. now \in Nat /\ contest[c].closes \in Instants
    BY TimeAssumption DEF LifeTypeOK, Rows
  <2> QED BY <2>1, <2>2 DEF ImpliedStatus, WithinWindow, Instants
<1> QED BY CloseInvInit, TurnInvariant, <1>1, <1>2, PTL DEF TurnSpec
-----------------------------------------------------------------------------
(* Rows an official or a request commits are rows of the table.            *)
LEMMA ContestAfterType ==
    ASSUME NEW r, contest \in [Contests -> Rows]
    PROVE  ContestAfter(r) \in [Contests -> Rows]
BY DEF ContestAfter, Rows, Statuses

(* Giving locks back leaves locks.                                         *)
LEMMA ReleaseType ==
    ASSUME NEW l, rowLock \in [Contests -> Lockers \cup {NoLocker}]
    PROVE  Release(l) \in [Contests -> Lockers \cup {NoLocker}]
BY DEF Release

(* The types hold at the start.                                            *)
LEMMA TypeInit == Init => TypeOK
BY LifeTypeInit DEF Init, TypeOK, Stages, NoBody, Bodies, Instants, NotIssued, AbsentRow, Rows

(* The part of TypeOK that is about one request.                           *)
LEMMA RequestStepType ==
    ASSUME TypeOK, NEW r \in Requests, RequestStep(r)
    PROVE  TypeOK'
<1> USE DEF TypeOK
<1>1. /\ r \in Lockers /\ now \in Nat
      /\ pc[r] # "idle" => body[r] \in Bodies /\ body[r].contest \in Contests
  BY RequestAssumption, TimeAssumption DEF LifeTypeOK, Bodies
<1>2. ASSUME NEW s \in Stages \ {"idle"}, pc[r] # "idle", Goto(r, s), body' = body
      PROVE  /\ pc' \in [Requests -> Stages]
             /\ \A q \in Requests : body'[q] = NoBody <=> pc'[q] = "idle"
  BY <1>2 DEF Goto
<1>3. ASSUME NEW s \in Stages \ {"idle"}, NEW ok, pc[r] # "idle", GotoIf(r, ok, s),
             UNCHANGED <<othersVars, body>>
      PROVE  /\ pc' \in [Requests -> Stages] /\ LifeTypeOK'
             /\ \A q \in Requests : body'[q] = NoBody <=> pc'[q] = "idle"
  <2>1. Goto(r, s) \/ Goto(r, "refused")
    BY <1>3 DEF GotoIf
  <2>2. /\ pc' \in [Requests -> Stages]
        /\ \A q \in Requests : body'[q] = NoBody <=> pc'[q] = "idle"
    BY <1>2, <1>3, <2>1 DEF Stages
  <2>3. rowLock' = rowLock \/ rowLock' = Release(r)
    BY <1>3 DEF GotoIf
  <2>4. LifeTypeOK'
    BY <1>3, <2>3, ReleaseType DEF LifeTypeOK, othersVars
  <2> QED BY <2>2, <2>4
<1>4. CASE IssueOwnToken(r)
  BY <1>3, <1>4 DEF IssueOwnToken, Stages, boxVars
<1>5. CASE Begin(r)
  BY <1>1, <1>2, <1>5 DEF Begin, Stages, boxVars, lifeVars, LifeTypeOK, Instants
<1>6. CASE ReadContest(r)
  <2>1. contest[body[r].contest] \in Rows
    BY <1>1, <1>6 DEF ReadContest, LifeTypeOK
  <2> QED BY <1>3, <1>6, <2>1 DEF ReadContest, Stages, boxVars
<1>7. CASE CheckOpen(r)
  BY <1>3, <1>7 DEF CheckOpen, Stages, boxVars
<1>8. CASE SyncThenCheck(r)
  <2>1. /\ pc[r] = "seen" /\ UNCHANGED <<othersVars, body, at, seenRow, target, count, issued, boxVars>>
        /\ Goto(r, "open") \/ Goto(r, "refused")
    BY <1>8 DEF SyncThenCheck
  <2>2. LifeTypeOK'
    BY <1>1, <1>8 DEF SyncThenCheck, LifeTypeOK, othersVars
  <2> QED BY <1>2, <2>1, <2>2 DEF Stages, boxVars
<1>9. CASE CheckVoter(r)
  BY <1>3, <1>9 DEF CheckVoter, Stages, boxVars
<1>10. CASE CheckToken(r)
  BY <1>3, <1>10 DEF CheckToken, Stages, boxVars
<1>11. CASE MarkToken(r)
  BY <1>2, <1>11 DEF MarkToken, Stages, boxVars, lifeVars, LifeTypeOK
<1>12. CASE FindTally(r)
  <2>1. CASE KeyOf(r) = NoKey
    BY <1>2, <1>12, <2>1 DEF FindTally, Stages, boxVars, othersVars, LifeTypeOK
  <2>2. CASE KeyOf(r) # NoKey
    <3>1. /\ GotoIf(r, Cardinality(TallyRowsFor(r)) <= 1, "counted")
          /\ target' = [target EXCEPT ![r] =
                          IF TallyRowsFor(r) = {} THEN NoRow ELSE CHOOSE q \in TallyRowsFor(r) : TRUE]
          /\ count' = [count EXCEPT ![r] = IF target'[r] = NoRow THEN 0 ELSE tally[target'[r]]]
          /\ UNCHANGED <<othersVars, body, at, seenRow, issued, boxVars>>
          /\ pc[r] = "marked"
      BY <1>12, <2>2 DEF FindTally
    <3>2. TallyRowsFor(r) # {} => (CHOOSE q \in TallyRowsFor(r) : TRUE) \in Requests
      BY DEF TallyRowsFor
    <3>3. target' \in [Requests -> Requests \cup {NoRow}]
      BY <3>1, <3>2
    <3>4. count' \in [Requests -> Nat]
      <4>1. target'[r] \in Requests \cup {NoRow}
        BY <3>3
      <4>2. (IF target'[r] = NoRow THEN 0 ELSE tally[target'[r]]) \in Nat
        BY <4>1
      <4> QED BY <3>1, <4>2
    <3>5. /\ pc' \in [Requests -> Stages] /\ LifeTypeOK'
          /\ \A q \in Requests : body'[q] = NoBody <=> pc'[q] = "idle"
      BY <1>3, <3>1 DEF Stages
    <3> QED BY <3>1, <3>3, <3>4, <3>5 DEF boxVars
  <2> QED BY <2>1, <2>2
<1>13. CASE WriteTally(r)
  <2>1. count' \in [Requests -> Nat]
    BY <1>13 DEF WriteTally, Incremented
  <2> QED BY <1>2, <1>13, <2>1 DEF WriteTally, Stages, boxVars, lifeVars, LifeTypeOK
<1>14. CASE CommitVote(r)
  <2>1. TallyAfter(r) \in [Requests -> Nat]
    BY DEF TallyAfter, RowOf
  <2>2. LifeTypeOK'
    BY <1>14, ContestAfterType, ReleaseType DEF CommitVote, LifeTypeOK
  <2>3. TokenOf(r) \in Tokens \cup Requests
    BY <1>1, <1>14 DEF TokenOf, CommitVote, Bodies
  <2> QED BY <1>2, <1>14, <2>1, <2>2, <2>3 DEF CommitVote, Stages
<1> QED
  BY <1>4, <1>5, <1>6, <1>7, <1>8, <1>9, <1>10, <1>11, <1>12, <1>13, <1>14 DEF RequestStep

(* Officials, the clock and failures keep the types.                       *)
LEMMA EnvironmentType ==
    ASSUME TypeOK, Environment
    PROVE  TypeOK'
<1> USE DEF TypeOK
<1>1. CASE LifeNext /\ UNCHANGED <<reqVars, issued, boxVars>>
  BY <1>1, LifeTypeStep DEF reqVars, boxVars
<1>2. ASSUME NEW t \in Tokens, NEW c \in Contests, NEW a \in Areas \cup {None}, IssueToken(t, c, a)
      PROVE  TypeOK'
  BY <1>2 DEF IssueToken, Issues, lifeVars, reqVars, boxVars, LifeTypeOK
<1>3. ASSUME NEW r \in Requests, Fail(r)
      PROVE  TypeOK'
  <2>1. LifeTypeOK'
    BY <1>3, ReleaseType DEF Fail, othersVars, LifeTypeOK
  <2> QED BY <1>3, <2>1 DEF Fail, InFlight, Goto, Stages, boxVars
<1> QED BY <1>1, <1>2, <1>3 DEF Environment

(* A request that arrives keeps the types.                                 *)
LEMMA SubmitType ==
    ASSUME TypeOK, NEW r \in Requests, NEW b \in Bodies, Submit(r, b)
    PROVE  TypeOK'
<1>1. b # NoBody
  BY DEF Bodies, NoBody, None
<1> QED BY <1>1 DEF TypeOK, Submit, Goto, Stages, lifeVars, boxVars, LifeTypeOK

(* Nothing but the variables matters.                                      *)
LEMMA StutterType == TypeOK /\ UNCHANGED vars => TypeOK'
BY DEF TypeOK, vars, lifeVars, reqVars, boxVars, LifeTypeOK

(* Whatever requests overlap, every variable keeps its type; in particular *)
(* an update of a tally starts from a row of the table.                    *)
THEOREM TypeCorrect == Spec => []TypeOK
<1>1. TypeOK /\ [Next]_vars => TypeOK'
  BY RequestStepType, EnvironmentType, SubmitType, StutterType DEF Next
<1> QED BY TypeInit, <1>1, PTL DEF Spec
(* The same for one request at a time.                                     *)
LEMMA SerialTypeCorrect == SerialSpec => []TypeOK
<1>1. TypeOK /\ [SerialNext]_vars => TypeOK'
  BY RequestStepType, EnvironmentType, SubmitType, StutterType DEF SerialNext
<1> QED BY TypeInit, <1>1, PTL DEF SerialSpec

-----------------------------------------------------------------------------
(***************************************************************************)
(* One request at a time.  A vote is safe from a second one because the    *)
(* ledger and the token were looked up while no rival was in flight, and   *)
(* none can enter until this request ends.                                 *)
(***************************************************************************)
PastLedger == {"eligible", "admitted", "marked", "counted", "tallied"}
PastToken == {"admitted", "marked", "counted", "tallied"}

(* The three tables are written together.                                  *)
WrittenTogether ==
    /\ votes = {r \in Requests : pc[r] = "committed"}
    /\ ledger = votes
    /\ used = {TokenOf(r) : r \in votes}

Rivals(r, q) == SameVoter(r, q) \/ TokenOf(r) = TokenOf(q)

NoRivals == \A r, q \in Requests : r # q /\ InFlight(r) /\ InFlight(q) => ~Rivals(r, q)

Checked ==
    \A r \in Requests :
        /\ pc[r] \in PastLedger => Entitled(r) /\ \A q \in votes : ~SameVoter(r, q)
        /\ pc[r] \in PastToken => TokenOf(r) \notin used

VotesApart == \A r, q \in votes : r # q => ~Rivals(r, q)

SerialInv == WrittenTogether /\ NoRivals /\ Checked /\ VotesApart

(* It holds at the start.                                                  *)
LEMMA SerialInit == Init => SerialInv
BY DEF Init, SerialInv, WrittenTogether, NoRivals, Checked, VotesApart, InFlight, PastLedger,
       PastToken

(* It says nothing of other variables.                                     *)
LEMMA SerialFrame ==
    ASSUME SerialInv, UNCHANGED <<pc, body, used, votes, ledger>>
    PROVE  SerialInv'
BY DEF SerialInv, WrittenTogether, NoRivals, Checked, VotesApart, Rivals, SameVoter, TokenOf,
       InFlight, Entitled

(* A request that moves on and changes no table keeps it, provided it has  *)
(* checked what its new stage says it has.                                 *)
LEMMA SerialAdvance ==
    ASSUME TypeOK, SerialInv, NEW r \in Requests, NEW s \in Stages \ {"committed", "idle"},
           InFlight(r), Goto(r, s), UNCHANGED <<body, used, votes, ledger>>,
           s \in PastLedger => Entitled(r) /\ \A q \in votes : ~SameVoter(r, q),
           s \in PastToken => TokenOf(r) \notin used
    PROVE  SerialInv'
<1>1. /\ pc' = [pc EXCEPT ![r] = s] /\ pc \in [Requests -> Stages]
      /\ pc[r] \notin {"idle", "committed", "refused"}
  BY DEF Goto, TypeOK, InFlight
<1>2. WrittenTogether'
  BY <1>1 DEF SerialInv, WrittenTogether, TokenOf
<1>3. NoRivals'
  BY <1>1 DEF SerialInv, NoRivals, Rivals, SameVoter, TokenOf, InFlight
<1>4. Checked'
  BY <1>1 DEF SerialInv, Checked, SameVoter, TokenOf, Entitled
<1>5. VotesApart'
  BY DEF SerialInv, VotesApart, Rivals, SameVoter, TokenOf
<1> QED BY <1>2, <1>3, <1>4, <1>5 DEF SerialInv

(* The same for a check that may refuse the request.                       *)
LEMMA SerialCheck ==
    ASSUME TypeOK, SerialInv, NEW r \in Requests, NEW s \in Stages \ {"committed", "idle"},
           NEW ok \in BOOLEAN, InFlight(r), GotoIf(r, ok, s),
           UNCHANGED <<body, used, votes, ledger>>,
           ok /\ s \in PastLedger => Entitled(r) /\ \A q \in votes : ~SameVoter(r, q),
           ok /\ s \in PastToken => TokenOf(r) \notin used
    PROVE  SerialInv'
<1>1. CASE ok
  BY <1>1, SerialAdvance DEF GotoIf
<1>2. CASE ~ok
  <2>1. Goto(r, "refused")
    BY <1>2 DEF GotoIf
  <2> QED BY <2>1, SerialAdvance DEF Stages, PastLedger, PastToken
<1> QED BY <1>1, <1>2

(* A commit writes the three tables at once.                               *)
LEMMA SerialCommit ==
    ASSUME TypeOK, SerialInv, NEW r \in Requests, CommitVote(r)
    PROVE  SerialInv'
<1>1. /\ pc[r] = "tallied" /\ InFlight(r) /\ pc' = [pc EXCEPT ![r] = "committed"]
      /\ pc \in [Requests -> Stages] /\ body' = body
      /\ votes' = votes \cup {r} /\ ledger' = ledger \cup {r} /\ used' = used \cup {TokenOf(r)}
  BY DEF CommitVote, Goto, TypeOK, InFlight
<1>2. /\ \A q : TokenOf(q)' = TokenOf(q)
      /\ \A p, q : SameVoter(p, q)' <=> SameVoter(p, q)
      /\ \A q : Entitled(q)' <=> Entitled(q)
  BY <1>1 DEF TokenOf, SameVoter, Entitled
<1>3. \A q \in votes : ~Rivals(r, q) /\ ~Rivals(q, r)
  BY <1>1 DEF SerialInv, Checked, WrittenTogether, Rivals, SameVoter, PastLedger, PastToken
<1>4. WrittenTogether'
  BY <1>1, <1>2 DEF SerialInv, WrittenTogether
<1>5. NoRivals'
  BY <1>1, <1>2 DEF SerialInv, NoRivals, Rivals, InFlight
<1>6. Checked'
  <2> SUFFICES ASSUME NEW q \in Requests
               PROVE  /\ pc'[q] \in PastLedger
                           => Entitled(q)' /\ \A p \in votes' : ~SameVoter(q, p)'
                      /\ pc'[q] \in PastToken => TokenOf(q)' \notin used'
    BY DEF Checked
  <2>1. CASE q = r
    BY <1>1, <2>1 DEF PastLedger, PastToken
  <2>2. CASE q # r
    <3>1. InFlight(q) => ~SameVoter(q, r) /\ TokenOf(q) # TokenOf(r)
      BY <1>1, <2>2 DEF SerialInv, NoRivals, Rivals
    <3>2. pc'[q] = pc[q] /\ (pc[q] \in PastLedger \cup PastToken => InFlight(q))
      BY <1>1, <2>2 DEF InFlight, PastLedger, PastToken
    <3> QED BY <1>1, <1>2, <3>1, <3>2 DEF SerialInv, Checked
  <2> QED BY <2>1, <2>2
<1>7. VotesApart'
  BY <1>1, <1>2, <1>3 DEF SerialInv, VotesApart, Rivals
<1> QED BY <1>4, <1>5, <1>6, <1>7 DEF SerialInv

(* Every step of a request keeps it.                                       *)
LEMMA SerialRequestStep ==
    ASSUME TypeOK, SerialInv, NEW r \in Requests, RequestStep(r)
    PROVE  SerialInv'
<1> USE DEF Stages, PastLedger, PastToken, InFlight
<1>1. pc[r] \in PastLedger => Entitled(r) /\ \A q \in votes : ~SameVoter(r, q)
  BY DEF SerialInv, Checked
<1>2. pc[r] \in PastToken => TokenOf(r) \notin used
  BY DEF SerialInv, Checked
<1>3. CASE IssueOwnToken(r)
  BY <1>3, SerialCheck DEF IssueOwnToken, boxVars
<1>4. CASE Begin(r)
  BY <1>4, SerialAdvance DEF Begin, boxVars
<1>5. CASE ReadContest(r)
  BY <1>5, SerialCheck DEF ReadContest, boxVars
<1>6. CASE CheckOpen(r)
  <2>1. OpenFor(r, seenRow[r]) \in BOOLEAN
    BY DEF OpenFor
  <2> QED BY <1>6, <2>1, SerialCheck DEF CheckOpen, boxVars
<1>7. CASE SyncThenCheck(r)
  <2>1. /\ Goto(r, "open") \/ Goto(r, "refused")
        /\ pc[r] = "seen" /\ UNCHANGED <<body, used, votes, ledger>>
    BY <1>7 DEF SyncThenCheck, boxVars
  <2> QED BY <2>1, SerialAdvance
<1>8. CASE CheckVoter(r)
  <2>1. LedgerRows(r) = {} => \A q \in votes : ~SameVoter(r, q)
    BY DEF LedgerRows, SerialInv, WrittenTogether, SameVoter
  <2>2. /\ pc[r] = "open" /\ UNCHANGED <<body, used, votes, ledger>>
        /\ GotoIf(r, Entitled(r) /\ LedgerRows(r) = {}, "eligible")
    BY <1>8 DEF CheckVoter, boxVars
  <2> QED BY <2>1, <2>2, SerialCheck
<1>9. CASE CheckToken(r)
  BY <1>1, <1>9, SerialCheck DEF CheckToken, TokenUnused, boxVars
<1>10. CASE MarkToken(r)
  BY <1>1, <1>2, <1>10, SerialAdvance DEF MarkToken, boxVars
<1>11. CASE FindTally(r)
  <2>1. pc[r] = "marked" /\ UNCHANGED <<body, used, votes, ledger>>
    BY <1>11 DEF FindTally, boxVars
  <2>2. Goto(r, "tallied") \/ Goto(r, "counted") \/ Goto(r, "refused")
    BY <1>11 DEF FindTally, GotoIf
  <2> QED BY <1>1, <1>2, <2>1, <2>2, SerialAdvance
<1>12. CASE WriteTally(r)
  BY <1>1, <1>2, <1>12, SerialAdvance DEF WriteTally, boxVars
<1>13. CASE CommitVote(r)
  BY <1>13, SerialCommit
<1> QED
  BY <1>3, <1>4, <1>5, <1>6, <1>7, <1>8, <1>9, <1>10, <1>11, <1>12, <1>13 DEF RequestStep

(* The discipline keeps rivals out.                                        *)
LEMMA SerialSubmit ==
    ASSUME TypeOK, SerialInv, NEW r \in Requests, NEW b \in Bodies, Apart(r, b), Submit(r, b)
    PROVE  SerialInv'
<1>1. /\ pc[r] = "idle" /\ pc' = [pc EXCEPT ![r] = "received"] /\ body' = [body EXCEPT ![r] = b]
      /\ pc \in [Requests -> Stages] /\ body \in [Requests -> Bodies \cup {NoBody}]
      /\ UNCHANGED <<used, votes, ledger>>
  BY DEF Submit, Goto, TypeOK, boxVars
<1>2. \A q \in Requests : q # r => body'[q] = body[q] /\ pc'[q] = pc[q]
  BY <1>1
<1>3. r \notin votes /\ votes \subseteq Requests
  BY <1>1 DEF SerialInv, WrittenTogether
<1>4. \A q \in Requests : q # r => TokenOf(q)' = TokenOf(q)
  BY <1>2 DEF TokenOf
<1>5. \A p, q \in Requests \ {r} : (SameVoter(p, q)' <=> SameVoter(p, q))
                                    /\ (Rivals(p, q)' <=> Rivals(p, q))
  BY <1>2, <1>4 DEF SameVoter, Rivals
<1>6. ASSUME NEW q \in Requests, q # r, InFlight(q)
      PROVE  ~Rivals(r, q)' /\ ~Rivals(q, r)'
  <2>1. body'[r] = b /\ body'[q] = body[q] /\ body[q] \in Bodies
    BY <1>1, <1>2, <1>6 DEF InFlight, TypeOK
  <2>2. ~(body[q].voter = b.voter /\ body[q].contest = b.contest)
    BY <1>6 DEF Apart
  <2>3. TokenOf(r)' # TokenOf(q)'
    <3>1. b.kind = "cast" => b.token \in Tokens /\ body[q].token # b.token
      BY <1>6 DEF Apart, Bodies
    <3>2. body[q].kind = "cast" => body[q].token \in Tokens
      BY <2>1 DEF Bodies
    <3>3. b.kind \in {"vote", "cast"} /\ body[q].kind \in {"vote", "cast"}
      BY <2>1 DEF Bodies
    <3> QED BY <1>6, <2>1, <3>1, <3>2, <3>3, TokenAssumption DEF TokenOf
  <2> QED BY <2>1, <2>2, <2>3 DEF Rivals, SameVoter
<1>7. WrittenTogether'
  <2>1. \A q \in votes : TokenOf(q)' = TokenOf(q)
    BY <1>3, <1>4
  <2> QED BY <1>1, <1>3, <2>1 DEF SerialInv, WrittenTogether
<1>8. NoRivals'
  <2> SUFFICES ASSUME NEW p \in Requests, NEW q \in Requests, p # q, InFlight(p)', InFlight(q)'
               PROVE  ~Rivals(p, q)'
    BY DEF NoRivals
  <2>1. CASE p = r
    BY <1>2, <1>6, <2>1 DEF InFlight
  <2>2. CASE q = r
    BY <1>2, <1>6, <2>2 DEF InFlight
  <2>3. CASE p # r /\ q # r
    BY <1>2, <1>5, <2>3 DEF SerialInv, NoRivals, InFlight
  <2> QED BY <2>1, <2>2, <2>3
<1>9. Checked'
  <2> SUFFICES ASSUME NEW q \in Requests
               PROVE  /\ pc'[q] \in PastLedger
                           => Entitled(q)' /\ \A p \in votes' : ~SameVoter(q, p)'
                      /\ pc'[q] \in PastToken => TokenOf(q)' \notin used'
    BY DEF Checked
  <2>1. CASE q = r
    BY <1>1, <2>1 DEF PastLedger, PastToken
  <2>2. CASE q # r
    <3>1. Entitled(q)' <=> Entitled(q)
      BY <1>2, <2>2 DEF Entitled
    <3> QED BY <1>1, <1>2, <1>3, <1>4, <1>5, <2>2, <3>1 DEF SerialInv, Checked
  <2> QED BY <2>1, <2>2
<1>10. VotesApart'
  BY <1>1, <1>3, <1>5 DEF SerialInv, VotesApart
<1> QED BY <1>7, <1>8, <1>9, <1>10 DEF SerialInv

(* Every step of the system keeps it.                                      *)
LEMMA SerialStep ==
    ASSUME TypeOK, SerialInv, [SerialNext]_vars
    PROVE  SerialInv'
<1>1. CASE UNCHANGED vars
  BY <1>1, SerialFrame DEF vars, reqVars, boxVars
<1>2. CASE LifeNext /\ UNCHANGED <<reqVars, issued, boxVars>>
  BY <1>2, SerialFrame DEF reqVars, boxVars
<1>3. ASSUME NEW t \in Tokens, NEW c \in Contests, NEW a \in Areas \cup {None}, IssueToken(t, c, a)
      PROVE  SerialInv'
  BY <1>3, SerialFrame DEF IssueToken, reqVars, boxVars
<1>4. ASSUME NEW r \in Requests, Fail(r)
      PROVE  SerialInv'
  BY <1>4, SerialAdvance DEF Fail, boxVars, Stages, PastLedger, PastToken
<1> QED
  BY <1>1, <1>2, <1>3, <1>4, SerialRequestStep, SerialSubmit DEF SerialNext, Environment

(* The invariant of the discipline.                                        *)
LEMMA SerialInvariant == SerialSpec => [](TypeOK /\ SerialInv)
<1>1. TypeOK /\ SerialInv /\ [SerialNext]_vars => SerialInv'
  BY SerialStep
<1> QED BY SerialInit, SerialTypeCorrect, <1>1, PTL DEF SerialSpec

(* No voter votes twice in a contest, with any number of voters, contests, *)
(* tokens and requests, failures, retries and officials at work meanwhile, *)
(* as long as the requests of one voter do not overlap.                    *)
THEOREM NoDoubleVote == SerialSpec => []OneVotePerVoter
<1>1. SerialInv => OneVotePerVoter
  BY DEF SerialInv, WrittenTogether, VotesApart, Rivals, OneVotePerVoter
<1> QED BY SerialInvariant, <1>1, PTL

(* No ballot token pays for two votes, under the same discipline.          *)
THEOREM NoTokenReplay == SerialSpec => []TokenSpentOnce
<1>1. SerialInv => TokenSpentOnce
  BY DEF SerialInv, VotesApart, Rivals, TokenSpentOnce
<1> QED BY SerialInvariant, <1>1, PTL
-----------------------------------------------------------------------------
(* The ballot box as OneVote sees it does not change while no vote is      *)
(* committed and the requests that hold votes stay as they are.            *)
LEMMA BoxFrame ==
    ASSUME votes' = votes, \A r \in votes : body'[r] = body[r]
    PROVE  castBy' = castBy
<1>1. \A v, c : VotesOf(v, c)' = VotesOf(v, c)
  BY DEF VotesOf
<1>2. ASSUME NEW v, NEW c, VotesOf(v, c) # {}
      PROVE  (CHOOSE r \in VotesOf(v, c) : TRUE) \in votes
  BY <1>2 DEF VotesOf
<1>3. ASSUME NEW vc \in Voters \X Contests
      PROVE  (IF VotesOf(vc[1], vc[2]) = {} THEN NoBallot
              ELSE body[CHOOSE r \in VotesOf(vc[1], vc[2]) : TRUE].ballot)' =
             (IF VotesOf(vc[1], vc[2]) = {} THEN NoBallot
              ELSE body[CHOOSE r \in VotesOf(vc[1], vc[2]) : TRUE].ballot)
  <2>1. VotesOf(vc[1], vc[2])' = VotesOf(vc[1], vc[2])
    BY <1>1
  <2>2. CASE VotesOf(vc[1], vc[2]) = {}
    BY <2>1, <2>2 DEF NoBallot
  <2>3. CASE VotesOf(vc[1], vc[2]) # {}
    <3>1. (CHOOSE r \in VotesOf(vc[1], vc[2]) : TRUE) \in votes
      BY <1>2, <2>3
    <3> QED BY <2>1, <2>3, <3>1
  <2> QED BY <2>2, <2>3
<1> QED BY <1>3 DEF castBy

(* A commit casts the ballot of the request.                               *)
LEMMA BoxCommit ==
    ASSUME TypeOK, SerialInv, NEW r \in Requests, CommitVote(r)
    PROVE  Box!Next
<1> DEFINE v == body[r].voter
           c == body[r].contest
           b == body[r].ballot
<1>1. /\ pc[r] = "tallied" /\ votes' = votes \cup {r} /\ body' = body
      /\ body[r] \in Bodies
  BY DEF CommitVote, TypeOK
<1>2. v \in Voters /\ c \in Contests /\ b \in BallotPapers
  BY <1>1 DEF Bodies
<1>3. Entitled(r) /\ \A q \in votes : ~SameVoter(r, q)
  BY <1>1 DEF SerialInv, Checked, PastLedger
<1>4. VotesOf(v, c) = {} /\ VotesOf(v, c)' = {r}
  BY <1>1, <1>3 DEF VotesOf, SameVoter
<1>5. ASSUME NEW w, NEW d, w # v \/ d # c
      PROVE  VotesOf(w, d)' = VotesOf(w, d)
  BY <1>1, <1>5 DEF VotesOf
<1>6. castBy[<<v, c>>] = NoBallot
  BY <1>2, <1>4 DEF castBy
<1>7. castBy' = [castBy EXCEPT ![<<v, c>>] = b]
  <2> DEFINE Paper(w, d) == IF VotesOf(w, d) = {} THEN NoBallot
                            ELSE body[CHOOSE q \in VotesOf(w, d) : TRUE].ballot
  <2>1. ASSUME NEW vc \in Voters \X Contests
        PROVE  Paper(vc[1], vc[2])' = IF vc = <<v, c>> THEN b ELSE castBy[vc]
    <3>1. CASE vc = <<v, c>>
      <4>1. (CHOOSE q \in {r} : TRUE) = r
        OBVIOUS
      <4>2. vc[1] = v /\ vc[2] = c
        BY <3>1
      <4> QED BY <1>1, <1>4, <3>1, <4>1, <4>2
    <3>2. CASE vc # <<v, c>>
      <4>1. vc[1] # v \/ vc[2] # c
        BY <3>2
      <4>2. VotesOf(vc[1], vc[2])' = VotesOf(vc[1], vc[2])
        BY <1>5, <4>1
      <4>3. castBy[vc] = Paper(vc[1], vc[2])
        BY DEF castBy
      <4> QED BY <1>1, <3>2, <4>2, <4>3 DEF NoBallot
    <3> QED BY <3>1, <3>2
  <2>2. castBy' = [vc \in Voters \X Contests |-> Paper(vc[1], vc[2])']
    BY DEF castBy
  <2>3. DOMAIN castBy = Voters \X Contests
    BY DEF castBy
  <2> QED BY <2>1, <2>2, <2>3
<1>8. <<v, c>> \notin Barred /\ ValidPayload(Method[c], b)
  BY <1>3 DEF Entitled
<1>9. Box!Cast(v, c, b)
  BY <1>6, <1>7, <1>8 DEF Box!Cast, Box!ValidPayload, ValidPayload, Box!Ranked, Ranked,
     Box!ConsecutiveRanks, ConsecutiveRanks, Box!None, None
<1> QED BY <1>2, <1>9 DEF Box!Next

(* The requests, ledger rows, tokens and transactions of the service       *)
(* implement the abstract ballot box: an entitled voter casts one valid    *)
(* ballot in one step, and it stands.                                      *)
THEOREM Refinement == SerialSpec => ImplementsOneVote
<1>1. Init => Box!Init
  <2> SUFFICES ASSUME Init PROVE castBy = [vc \in Voters \X Contests |-> NoBallot]
    BY DEF Box!Init
  <2>1. \A v, c : VotesOf(v, c) = {}
    BY DEF Init, VotesOf
  <2> QED BY <2>1 DEF castBy
<1>2. TypeOK /\ SerialInv /\ [SerialNext]_vars => [Box!Next]_castBy
  <2> SUFFICES ASSUME TypeOK, SerialInv, [SerialNext]_vars
               PROVE  Box!Next \/ castBy' = castBy
    OBVIOUS
  <2>1. CASE UNCHANGED <<votes, body>>
    BY <2>1, BoxFrame
  <2>2. ASSUME NEW r \in Requests, NEW b \in Bodies, Submit(r, b)
        PROVE  castBy' = castBy
    <3>1. r \notin votes
      BY <2>2 DEF Submit, SerialInv, WrittenTogether
    <3>2. votes' = votes /\ \A q \in votes : body'[q] = body[q]
      BY <2>2, <3>1 DEF Submit, boxVars, TypeOK
    <3> QED BY <3>2, BoxFrame
  <2>3. ASSUME NEW r \in Requests, RequestStep(r)
        PROVE  CommitVote(r) \/ UNCHANGED <<votes, body>>
    BY <2>3 DEF RequestStep, IssueOwnToken, Begin, ReadContest, CheckOpen, SyncThenCheck,
       CheckVoter, CheckToken, MarkToken, FindTally, WriteTally, boxVars
  <2>4. ASSUME Environment
        PROVE  UNCHANGED <<votes, body>>
    BY <2>4 DEF Environment, IssueToken, Fail, reqVars, boxVars
  <2>5. CASE UNCHANGED vars
    BY <2>1, <2>5 DEF vars, reqVars, boxVars
  <2> QED BY <2>1, <2>2, <2>3, <2>4, <2>5, BoxCommit DEF SerialNext
<1> QED BY <1>1, <1>2, SerialInvariant, PTL DEF SerialSpec, ImplementsOneVote, Box!Spec
-----------------------------------------------------------------------------
(***************************************************************************)
(* Requests that overlap as they like.  What follows holds of Spec, and so *)
(* without the discipline.                                                 *)
(***************************************************************************)

(* A tally row in use, or about to be incremented, was inserted by a       *)
(* request that is committed.                                              *)
RowsCommitted ==
    /\ \A q \in Requests : tally[q] > 0 => pc[q] = "committed"
    /\ \A r \in Requests : target[r] # NoRow => pc[target[r]] = "committed"

(* A request that locks a contest row has passed the check of its status.  *)
PastOpen == {"open", "eligible", "admitted", "marked", "counted", "tallied"}
LocksInFlight == \A c \in Contests, r \in Requests : rowLock[c] = r => pc[r] \in PastOpen

LeavesInv == WrittenTogether /\ RowsCommitted /\ LocksInFlight

(* It holds at the start.                                                  *)
LEMMA LeavesInit == Init => LeavesInv
BY LockerAssumption, RequestAssumption
   DEF Init, LifeInit, LeavesInv, WrittenTogether, RowsCommitted, LocksInFlight

(* A request that moves on and commits nothing leaves the tables as they   *)
(* were; refused, it has given its locks back.                             *)
LEMMA LeavesAdvance ==
    ASSUME TypeOK, LeavesInv, NEW r \in Requests, NEW s \in Stages \ {"committed", "idle"},
           pc[r] # "committed", Goto(r, s),
           \A q \in Requests : q # r => body'[q] = body[q],
           pc[r] # "idle" => body'[r] = body[r],
           UNCHANGED <<used, votes, ledger, tally>>,
           \A q \in Requests : q # r => target'[q] = target[q],
           target'[r] # NoRow => target'[r] \in Requests /\ pc[target'[r]] = "committed",
           \A c \in Contests : rowLock'[c] \in {rowLock[c], r, NoLocker},
           s \notin PastOpen => \A c \in Contests : rowLock'[c] # r
    PROVE  LeavesInv'
<1>1. /\ pc' = [pc EXCEPT ![r] = s] /\ pc \in [Requests -> Stages]
      /\ target \in [Requests -> Requests \cup {NoRow}]
  BY DEF Goto, TypeOK
<1>2. WrittenTogether'
  <2>1. r \notin votes /\ \A q \in votes : q \in Requests /\ body'[q] = body[q]
    BY DEF LeavesInv, WrittenTogether
  <2>2. \A q \in votes : TokenOf(q)' = TokenOf(q)
    BY <2>1 DEF TokenOf
  <2>3. votes' = {q \in Requests : pc'[q] = "committed"}
    BY <1>1 DEF LeavesInv, WrittenTogether
  <2> QED BY <2>2, <2>3 DEF LeavesInv, WrittenTogether
<1>3. RowsCommitted'
  <2>1. \A q \in Requests : pc[q] = "committed" => pc'[q] = "committed"
    BY <1>1
  <2>2. \A q \in Requests : tally'[q] > 0 => pc'[q] = "committed"
    BY <2>1 DEF LeavesInv, RowsCommitted
  <2>3. ASSUME NEW q \in Requests, target'[q] # NoRow
        PROVE  pc'[target'[q]] = "committed"
    BY <1>1, <2>1, <2>3 DEF LeavesInv, RowsCommitted
  <2> QED BY <2>2, <2>3 DEF RowsCommitted
<1>4. LocksInFlight'
  <2> SUFFICES ASSUME NEW c \in Contests, NEW q \in Requests, rowLock'[c] = q
               PROVE  pc'[q] \in PastOpen
    BY DEF LocksInFlight
  <2>1. q # NoLocker
    BY LockerAssumption, RequestAssumption
  <2>2. CASE q = r
    BY <1>1, <2>2
  <2>3. CASE q # r
    <3>1. pc[q] \in PastOpen
      BY <2>1, <2>3 DEF LeavesInv, LocksInFlight
    <3> QED BY <1>1, <2>3, <3>1
  <2> QED BY <2>2, <2>3
<1> QED BY <1>2, <1>3, <1>4 DEF LeavesInv

(* Locks given back are not held.                                          *)
LEMMA ReleaseGives ==
    ASSUME NEW r \in Requests
    PROVE  \A c \in Contests : Release(r)[c] \in {rowLock[c], NoLocker} /\ Release(r)[c] # r
BY LockerAssumption, RequestAssumption DEF Release

(* The same for a check that may refuse the request.                       *)
LEMMA LeavesCheck ==
    ASSUME TypeOK, LeavesInv, NEW r \in Requests, NEW s \in Stages \ {"committed", "idle", "refused"},
           NEW ok, pc[r] \notin {"committed", "idle"}, pc[r] \in PastOpen => s \in PastOpen,
           GotoIf(r, ok, s),
           UNCHANGED <<body, target, used, votes, ledger, tally>>
    PROVE  LeavesInv'
<1>1. target[r] # NoRow => target[r] \in Requests /\ pc[target[r]] = "committed"
  BY DEF TypeOK, LeavesInv, RowsCommitted
<1>2. CASE ok
  <2>1. s \notin PastOpen => \A c \in Contests : rowLock[c] # r
    BY DEF LeavesInv, LocksInFlight
  <2> QED BY <1>1, <1>2, <2>1, LeavesAdvance DEF GotoIf
<1>3. CASE ~ok
  <2>1. Goto(r, "refused") /\ rowLock' = Release(r)
    BY <1>3 DEF GotoIf
  <2> QED BY <1>1, <2>1, ReleaseGives, LeavesAdvance DEF Stages
<1> QED BY <1>2, <1>3

(* The commit of a vote.                                                   *)
LEMMA LeavesCommit ==
    ASSUME TypeOK, LeavesInv, NEW r \in Requests, CommitVote(r)
    PROVE  LeavesInv'
<1>1. /\ pc[r] = "tallied" /\ pc' = [pc EXCEPT ![r] = "committed"]
      /\ pc \in [Requests -> Stages] /\ UNCHANGED <<body, target>>
      /\ votes' = votes \cup {r} /\ ledger' = ledger \cup {r} /\ used' = used \cup {TokenOf(r)}
      /\ tally' = TallyAfter(r) /\ rowLock' = Release(r)
      /\ tally \in [Requests -> Nat] /\ target \in [Requests -> Requests \cup {NoRow}]
  BY DEF CommitVote, Goto, TypeOK
<1>2. \A q : TokenOf(q)' = TokenOf(q)
  BY <1>1 DEF TokenOf
<1>3. WrittenTogether'
  <2>1. votes' = {q \in Requests : pc'[q] = "committed"}
    BY <1>1 DEF LeavesInv, WrittenTogether
  <2> QED BY <1>1, <1>2, <2>1 DEF LeavesInv, WrittenTogether
<1>4. \A q \in Requests : pc[q] = "committed" => pc'[q] = "committed"
  BY <1>1
<1>5. RowsCommitted'
  <2>1. ASSUME NEW q \in Requests, tally'[q] > 0
        PROVE  pc'[q] = "committed"
    <3>1. CASE q = r
      BY <1>1, <3>1
    <3>2. CASE q # r /\ q = target[r]
      BY <1>4, <3>2, TokenAssumption DEF LeavesInv, RowsCommitted
    <3>3. CASE q # r /\ q # target[r]
      <4>1. tally'[q] = tally[q]
        BY <1>1, <3>3 DEF TallyAfter, RowOf
      <4> QED BY <1>4, <2>1, <4>1 DEF LeavesInv, RowsCommitted
    <3> QED BY <3>1, <3>2, <3>3
  <2>2. \A q \in Requests : target'[q] # NoRow => pc'[target'[q]] = "committed"
    BY <1>1, <1>4 DEF LeavesInv, RowsCommitted
  <2> QED BY <2>1, <2>2 DEF RowsCommitted
<1>6. LocksInFlight'
  <2> SUFFICES ASSUME NEW c \in Contests, NEW q \in Requests, rowLock'[c] = q
               PROVE  pc'[q] \in PastOpen
    BY DEF LocksInFlight
  <2>1. q # r /\ rowLock[c] = q
    BY <1>1, ReleaseGives, LockerAssumption, RequestAssumption
  <2>2. pc[q] \in PastOpen
    BY <2>1 DEF LeavesInv, LocksInFlight
  <2> QED BY <1>1, <2>1, <2>2
<1> QED BY <1>3, <1>5, <1>6 DEF LeavesInv

(* Every step of a request keeps it.                                       *)
LEMMA LeavesRequestStep ==
    ASSUME TypeOK, LeavesInv, NEW r \in Requests, RequestStep(r)
    PROVE  LeavesInv'
<1> USE DEF Stages, PastOpen
<1>0. pc[r] \notin PastOpen => \A c \in Contests : rowLock[c] # r
  BY DEF LeavesInv, LocksInFlight
<1>1. target[r] # NoRow => target[r] \in Requests /\ pc[target[r]] = "committed"
  BY DEF TypeOK, LeavesInv, RowsCommitted
<1>2. CASE IssueOwnToken(r)
  BY <1>2, LeavesCheck DEF IssueOwnToken, boxVars
<1>3. CASE Begin(r)
  BY <1>0, <1>1, <1>3, LeavesAdvance DEF Begin, boxVars, lifeVars
<1>4. CASE ReadContest(r)
  BY <1>4, LeavesCheck DEF ReadContest, boxVars
<1>5. CASE CheckOpen(r)
  BY <1>5, LeavesCheck DEF CheckOpen, boxVars
<1>6. CASE SyncThenCheck(r)
  <2> DEFINE c == body[r].contest
             row == [seenRow[r] EXCEPT !.status = ImpliedStatus(now, seenRow[r])]
  <2>1. /\ pc[r] = "seen" /\ rowLock[c] = NoLocker
        /\ Goto(r, IF OpenFor(r, row) THEN "open" ELSE "refused")
        /\ rowLock' = [rowLock EXCEPT ![c] = IF OpenFor(r, row) THEN r ELSE @]
        /\ UNCHANGED <<body, target, used, votes, ledger, tally>>
    BY <1>6 DEF SyncThenCheck, LockFree, boxVars
  <2>2. rowLock \in [Contests -> Lockers \cup {NoLocker}] /\ r # NoLocker
    BY LockerAssumption, RequestAssumption DEF TypeOK, LifeTypeOK
  <2>3. CASE OpenFor(r, row)
    BY <1>1, <2>1, <2>2, <2>3, LeavesAdvance
  <2>4. CASE ~OpenFor(r, row)
    <3>1. rowLock' = rowLock /\ Goto(r, "refused")
      BY <2>1, <2>2, <2>4
    <3> QED BY <1>0, <1>1, <2>1, <3>1, LeavesAdvance
  <2> QED BY <2>3, <2>4
<1>7. CASE CheckVoter(r)
  BY <1>7, LeavesCheck DEF CheckVoter, boxVars
<1>8. CASE CheckToken(r)
  BY <1>8, LeavesCheck DEF CheckToken, boxVars
<1>9. CASE MarkToken(r)
  BY <1>1, <1>9, LeavesAdvance DEF MarkToken, boxVars, lifeVars
<1>10. CASE FindTally(r)
  <2>1. CASE KeyOf(r) = NoKey
    BY <1>1, <1>10, <2>1, LeavesAdvance DEF FindTally, boxVars
  <2>2. CASE KeyOf(r) # NoKey
    <3>1. /\ pc[r] = "marked" /\ GotoIf(r, Cardinality(TallyRowsFor(r)) <= 1, "counted")
          /\ target' = [target EXCEPT ![r] =
                          IF TallyRowsFor(r) = {} THEN NoRow ELSE CHOOSE q \in TallyRowsFor(r) : TRUE]
          /\ UNCHANGED <<body, used, votes, ledger, tally>>
      BY <1>10, <2>2 DEF FindTally, boxVars
    <3>2. TallyRowsFor(r) # {} => (CHOOSE q \in TallyRowsFor(r) : TRUE) \in TallyRowsFor(r)
      OBVIOUS
    <3>3. target'[r] # NoRow => target'[r] \in Requests /\ pc[target'[r]] = "committed"
      BY <3>1, <3>2 DEF TallyRowsFor, LeavesInv, RowsCommitted, TypeOK
    <3>4. \A q \in Requests : q # r => target'[q] = target[q]
      BY <3>1 DEF TypeOK
    <3>5. CASE Cardinality(TallyRowsFor(r)) <= 1
      BY <3>1, <3>3, <3>4, <3>5, LeavesAdvance DEF GotoIf
    <3>6. CASE ~(Cardinality(TallyRowsFor(r)) <= 1)
      <4>1. Goto(r, "refused") /\ rowLock' = Release(r)
        BY <3>1, <3>6 DEF GotoIf
      <4> QED BY <3>1, <3>3, <3>4, <4>1, ReleaseGives, LeavesAdvance
    <3> QED BY <3>5, <3>6
  <2> QED BY <2>1, <2>2
<1>11. CASE WriteTally(r)
  BY <1>1, <1>11, LeavesAdvance DEF WriteTally, boxVars, lifeVars
<1>12. CASE CommitVote(r)
  BY <1>12, LeavesCommit
<1> QED
  BY <1>2, <1>3, <1>4, <1>5, <1>6, <1>7, <1>8, <1>9, <1>10, <1>11, <1>12 DEF RequestStep

(* Officials and syncs lock rows in their own names only.                  *)
LEMMA LeavesLife ==
    ASSUME TypeOK, LeavesInv, LifeNext, UNCHANGED <<reqVars, issued, boxVars>>
    PROVE  LeavesInv'
<1>1. \A c \in Contests, r \in Requests : rowLock'[c] = r => rowLock[c] = r
  <2>1. rowLock \in [Contests -> Lockers \cup {NoLocker}]
    BY DEF TypeOK, LifeTypeOK
  <2>2. ASSUME NEW w \in Writers, Write(w)
        PROVE  rowLock' = [rowLock EXCEPT ![writer[w].on] = w]
    BY <2>2 DEF Write
  <2>3. ASSUME NEW w \in Writers, Commit(w) \/ Rollback(w)
        PROVE  rowLock' = Release(w)
    BY <2>3 DEF Commit, Rollback
  <2>4. \/ rowLock' = rowLock
        \/ \E w \in Writers : rowLock' = Release(w) \/ rowLock' = [rowLock EXCEPT ![writer[w].on] = w]
    BY <2>2, <2>3 DEF LifeNext, Tick, Create, BeginUpdate, BeginSync
  <2> QED BY <2>1, <2>4, RequestAssumption, LockerAssumption DEF Release
<1>2. WrittenTogether' /\ RowsCommitted'
  BY DEF LeavesInv, WrittenTogether, RowsCommitted, TokenOf, reqVars, boxVars
<1>3. LocksInFlight'
  BY <1>1 DEF LeavesInv, LocksInFlight, reqVars
<1> QED BY <1>2, <1>3 DEF LeavesInv

(* Every step of the system keeps it.                                      *)
LEMMA LeavesStep ==
    ASSUME TypeOK, LeavesInv, [Next]_vars
    PROVE  LeavesInv'
<1>1. ASSUME UNCHANGED <<rowLock, reqVars, boxVars>>
      PROVE  LeavesInv'
  BY <1>1 DEF LeavesInv, WrittenTogether, RowsCommitted, LocksInFlight, TokenOf,
     reqVars, boxVars
<1>2. CASE UNCHANGED vars
  BY <1>1, <1>2 DEF vars, lifeVars
<1>3. ASSUME NEW t \in Tokens, NEW c \in Contests, NEW a \in Areas \cup {None}, IssueToken(t, c, a)
      PROVE  LeavesInv'
  BY <1>1, <1>3 DEF IssueToken, lifeVars
<1>4. ASSUME NEW r \in Requests, Fail(r)
      PROVE  LeavesInv'
  <2>1. target[r] # NoRow => target[r] \in Requests /\ pc[target[r]] = "committed"
    BY DEF TypeOK, LeavesInv, RowsCommitted
  <2>2. /\ pc[r] \notin {"idle", "committed"} /\ Goto(r, "refused") /\ rowLock' = Release(r)
        /\ UNCHANGED <<body, target, used, votes, ledger, tally>>
    BY <1>4 DEF Fail, InFlight, boxVars
  <2> QED BY <2>1, <2>2, ReleaseGives, LeavesAdvance DEF Stages
<1>5. ASSUME NEW r \in Requests, NEW b \in Bodies, Submit(r, b)
      PROVE  LeavesInv'
  <2>1. target[r] # NoRow => target[r] \in Requests /\ pc[target[r]] = "committed"
    BY DEF TypeOK, LeavesInv, RowsCommitted
  <2>2. /\ pc[r] = "idle" /\ Goto(r, "received") /\ body' = [body EXCEPT ![r] = b]
        /\ UNCHANGED <<rowLock, target, used, votes, ledger, tally>>
    BY <1>5 DEF Submit, lifeVars, boxVars
  <2>3. \A q \in Requests : q # r => body'[q] = body[q]
    BY <2>2 DEF TypeOK
  <2>4. \A c \in Contests : rowLock[c] # r
    BY <2>2 DEF LeavesInv, LocksInFlight, PastOpen
  <2> QED BY <2>1, <2>2, <2>3, <2>4, LeavesAdvance DEF Stages
<1> QED
  BY <1>2, <1>3, <1>4, <1>5, LeavesRequestStep, LeavesLife DEF Next, Environment

(* A request that ends refused leaves nothing behind, at whatever stage it *)
(* was refused, failed or was cut off, and with whatever others meanwhile: *)
(* no vote, ledger row, tally row or used token, and no lock.              *)
THEOREM NothingLeftBehind == Spec => []RefusedLeavesNothing
<1>1. TypeOK /\ LeavesInv => RefusedLeavesNothing
  <2> SUFFICES ASSUME TypeOK, LeavesInv, NEW r \in Requests, pc[r] = "refused"
               PROVE  /\ r \notin votes \cup ledger \cup used /\ tally[r] = 0
                      /\ \A c \in Contests : rowLock[c] # r
                      /\ \A q \in Requests : target[q] # r
    BY DEF RefusedLeavesNothing
  <2>1. r \notin votes \cup ledger
    BY DEF LeavesInv, WrittenTogether
  <2>2. ASSUME NEW q \in votes
        PROVE  TokenOf(q) # r
    <3>1. q \in Requests /\ pc[q] = "committed" /\ body[q] \in Bodies
      BY DEF LeavesInv, WrittenTogether, TypeOK
    <3>2. body[q].kind # "vote" => body[q].token \in Tokens
      BY <3>1 DEF Bodies
    <3> QED BY <3>1, <3>2, TokenAssumption DEF TokenOf
  <2>3. r \notin used
    BY <2>2 DEF LeavesInv, WrittenTogether
  <2>4. tally[r] = 0
    BY DEF LeavesInv, RowsCommitted, TypeOK
  <2>5. \A c \in Contests : rowLock[c] # r
    BY DEF LeavesInv, LocksInFlight, PastOpen
  <2>6. \A q \in Requests : target[q] # r
    BY TokenAssumption DEF LeavesInv, RowsCommitted
  <2> QED BY <2>1, <2>3, <2>4, <2>5, <2>6
<1>2. TypeOK /\ LeavesInv /\ [Next]_vars => LeavesInv'
  BY LeavesStep
<1> QED BY LeavesInit, TypeCorrect, <1>1, <1>2, PTL DEF Spec
-----------------------------------------------------------------------------
(***************************************************************************)
(* Nobody waits for ever because everybody waits for everybody: a request  *)
(* takes the contest row before the row of its token, and that before the  *)
(* tally row, and an official takes one row alone.                         *)
(***************************************************************************)
Rank(stage) ==
    CASE stage = "idle" -> 0 [] stage = "received" -> 1 [] stage = "issued" -> 2
      [] stage = "begun" -> 3 [] stage = "seen" -> 4 [] stage = "open" -> 5
      [] stage = "eligible" -> 6 [] stage = "admitted" -> 7 [] stage = "marked" -> 8
      [] stage = "counted" -> 9 [] stage = "tallied" -> 10
      [] stage \in {"committed", "refused"} -> 11

(* The guards of the step a request takes next.                            *)
Ready(r) ==
    \/ pc[r] \in {"received", "issued", "begun", "open", "eligible", "marked", "tallied"}
    \/ pc[r] = "seen" /\ (SyncNeeded(now, seenRow[r]) => LockFree(body[r].contest))
    \/ /\ pc[r] = "admitted"
       /\ \A q \in Requests :
             pc[q] \in {"marked", "counted", "tallied"} => TokenOf(q) # TokenOf(r)
    \/ pc[r] = "counted" /\ (target[r] # NoRow => TallyRowFree(r))

(* r waits for a row that q holds.                                         *)
WaitsFor(r, q) ==
    \/ /\ pc[r] = "seen" /\ SyncNeeded(now, seenRow[r]) /\ rowLock[body[r].contest] = q
    \/ /\ pc[r] = "admitted" /\ pc[q] \in {"marked", "counted", "tallied"}
       /\ TokenOf(q) = TokenOf(r)
    \/ pc[r] = "counted" /\ target[r] # NoRow /\ pc[q] = "tallied" /\ target[q] = target[r]

(* r waits for an official's request or a sync, which has written its row  *)
(* and commits now, or when the clock has moved on.                        *)
WaitsForWriter(r, w) ==
    /\ pc[r] = "seen" /\ SyncNeeded(now, seenRow[r]) /\ rowLock[body[r].contest] = w
    /\ writer[w].stage = "written" /\ (ClockAdvanced(w) \/ now < MaxTime)

(* Who waits waits for somebody further on, or for a writer that can go    *)
(* on; so somebody can.                                                    *)
NoCircle ==
    \A r \in Requests : InFlight(r) =>
        /\ \/ Ready(r)
           \/ \E q \in Requests : WaitsFor(r, q)
           \/ \E w \in Writers : WaitsForWriter(r, w)
        /\ \A q \in Requests : WaitsFor(r, q) => InFlight(q) /\ Rank(pc[q]) > Rank(pc[r])

SomebodyGoesOn ==
    (\E r \in Requests : InFlight(r)) =>
        \/ \E q \in Requests : InFlight(q) /\ Ready(q)
        \/ \E r \in Requests, w \in Writers : WaitsForWriter(r, w)

(* A row lock is held by a request, or by a writer that has written its    *)
(* row; a writer has decided before the clock of the model stops.          *)
LocksKnown ==
    \A c \in Contests :
        \/ rowLock[c] \in Requests \cup {NoLocker}
        \/ \E w \in Writers : rowLock[c] = w /\ writer[w].stage = "written"

DecidedInTime == \A w \in Writers : writer[w].stage # "idle" => writer[w].at < MaxTime

OrderInv == LocksKnown /\ DecidedInTime

LEMMA OrderInit == Init => OrderInv
BY NoWorkType DEF Init, LifeInit, OrderInv, LocksKnown, DecidedInTime

(* Steps of requests take and give back locks of their own.                *)
LEMMA OrderRequest ==
    ASSUME TypeOK, OrderInv, NEW r \in Requests, RequestStep(r) \/ Fail(r)
    PROVE  OrderInv'
<1>1. rowLock \in [Contests -> Lockers \cup {NoLocker}]
  BY DEF TypeOK, LifeTypeOK
<1>2. \A c \in Contests : Release(r)[c] \in {rowLock[c], NoLocker}
  BY DEF Release
<1>3. ASSUME NEW ok, NEW s, GotoIf(r, ok, s)
      PROVE  \A c \in Contests : rowLock'[c] \in {rowLock[c], NoLocker, r}
  BY <1>2, <1>3 DEF GotoIf
<1>4. writer' = writer /\ \A c \in Contests : rowLock'[c] \in {rowLock[c], NoLocker, r}
  <2>1. CASE IssueOwnToken(r) \/ ReadContest(r) \/ CheckOpen(r) \/ CheckVoter(r) \/ CheckToken(r)
    BY <2>1, <1>3 DEF IssueOwnToken, ReadContest, CheckOpen, CheckVoter, CheckToken, othersVars
  <2>2. CASE SyncThenCheck(r)
    BY <2>2, <1>1 DEF SyncThenCheck, othersVars
  <2>3. CASE Begin(r) \/ MarkToken(r) \/ WriteTally(r)
    BY <2>3 DEF Begin, MarkToken, WriteTally, lifeVars
  <2>4. CASE FindTally(r)
    BY <2>4, <1>3 DEF FindTally, othersVars
  <2>5. CASE CommitVote(r) \/ Fail(r)
    BY <2>5, <1>2 DEF CommitVote, Fail, othersVars
  <2> QED BY <2>1, <2>2, <2>3, <2>4, <2>5 DEF RequestStep
<1> QED BY <1>4 DEF OrderInv, LocksKnown, DecidedInTime

LEMMA OrderLife ==
    ASSUME TypeOK, OrderInv, LifeNext
    PROVE  OrderInv'
<1>1. /\ rowLock \in [Contests -> Lockers \cup {NoLocker}]
      /\ writer \in [Writers -> WriterStates] /\ now \in 0 .. MaxTime
      /\ MaxTime \in Nat
  BY TimeAssumption DEF TypeOK, LifeTypeOK
<1>2. CASE Tick \/ \E c \in Contests, p \in Created : Create(c, p)
  BY <1>2 DEF Tick, Create, OrderInv, LocksKnown, DecidedInTime
<1>3. ASSUME NEW w \in Writers, NEW c \in Contests,
             BeginSync(w, c) \/ \E p \in Requested : BeginUpdate(w, c, p)
      PROVE  OrderInv'
  <2>1. /\ writer[w].stage # "written" /\ rowLock' = rowLock
        /\ \A v \in Writers \ {w} : writer'[v] = writer[v]
        /\ writer'[w].at \in {now, NoTime} /\ now < MaxTime
    BY <1>1, <1>3, NoWorkType DEF BeginSync, BeginUpdate, Idle
  <2>2. writer'[w].at < MaxTime
    BY <1>1, <2>1 DEF NoTime
  <2> QED BY <2>1, <2>2 DEF OrderInv, LocksKnown, DecidedInTime
<1>4. ASSUME NEW w \in Writers, Write(w)
      PROVE  OrderInv'
  <2>1. /\ writer[w].stage = "decided" /\ writer'[w].stage = "written"
        /\ writer'[w].at = writer[w].at
        /\ \A v \in Writers \ {w} : writer'[v] = writer[v]
        /\ \A c \in Contests : rowLock'[c] \in {rowLock[c], w}
    BY <1>1, <1>4 DEF Write, WriterStates
  <2> QED BY <2>1 DEF OrderInv, LocksKnown, DecidedInTime
<1>5. ASSUME NEW w \in Writers, Commit(w) \/ Rollback(w)
      PROVE  OrderInv'
  <2>1. /\ rowLock' = Release(w) /\ writer'[w].stage = "idle"
        /\ \A v \in Writers \ {w} : writer'[v] = writer[v]
    BY <1>1, <1>5, NoWorkType DEF Commit, Rollback
  <2>2. \A c \in Contests : rowLock'[c] = NoLocker \/ (rowLock'[c] = rowLock[c] /\ rowLock[c] # w)
    BY <2>1 DEF Release
  <2> QED BY <2>1, <2>2 DEF OrderInv, LocksKnown, DecidedInTime
<1> QED BY <1>2, <1>3, <1>4, <1>5 DEF LifeNext

LEMMA OrderStep ==
    ASSUME TypeOK, OrderInv, [Next]_vars
    PROVE  OrderInv'
<1>1. ASSUME UNCHANGED lifeVars PROVE OrderInv'
  BY <1>1 DEF lifeVars, OrderInv, LocksKnown, DecidedInTime
<1>2. CASE UNCHANGED vars
  BY <1>1, <1>2 DEF vars
<1>3. CASE \E t \in Tokens, c \in Contests, a \in Areas \cup {None} : IssueToken(t, c, a)
  BY <1>1, <1>3 DEF IssueToken
<1>4. CASE \E r \in Requests, b \in Bodies : Submit(r, b)
  BY <1>1, <1>4 DEF Submit
<1> QED BY <1>2, <1>3, <1>4, OrderRequest, OrderLife DEF Next, Environment

(* No set of requests and officials waits for each other's row locks,      *)
(* whatever overlaps: who cannot go on waits for one further on, or for a  *)
(* writer that can, and at the end of the chain is somebody who can go on  *)
(* (the row locks of voting_service.py:131, :171 and tally_result_repo.py).*)
THEOREM NobodyWaitsInACircle == Spec => [](NoCircle /\ SomebodyGoesOn)
<1>1. ASSUME TypeOK, LeavesInv, OrderInv, NEW r \in Requests, InFlight(r)
      PROVE  \/ Ready(r)
             \/ \E q \in Requests : WaitsFor(r, q)
             \/ \E w \in Writers : WaitsForWriter(r, w)
  <2> SUFFICES ASSUME ~Ready(r)
               PROVE  \/ \E q \in Requests : WaitsFor(r, q)
                      \/ \E w \in Writers : WaitsForWriter(r, w)
    OBVIOUS
  <2>1. pc[r] \in {"seen", "admitted", "counted"}
    BY <1>1 DEF TypeOK, Stages, InFlight, Ready
  <2>2. CASE pc[r] = "seen"
    <3> DEFINE c == body[r].contest
    <3>1. SyncNeeded(now, seenRow[r]) /\ rowLock[c] # NoLocker
      BY <2>2 DEF Ready, LockFree
    <3>2. c \in Contests
      BY <1>1, <2>2 DEF TypeOK, Bodies
    <3>3. CASE rowLock[c] \in Requests
      BY <2>2, <3>1, <3>3 DEF WaitsFor
    <3>4. ASSUME NEW w \in Writers, rowLock[c] = w, writer[w].stage = "written"
          PROVE  WaitsForWriter(r, w)
      <4>1. writer[w].at < MaxTime /\ writer[w].at \in Int /\ now \in Int /\ MaxTime \in Int
        BY <1>1, <3>4, TimeAssumption
           DEF OrderInv, DecidedInTime, TypeOK, LifeTypeOK, WriterStates, Instants, NoTime
      <4>2. now > writer[w].at \/ now < MaxTime
        BY <4>1
      <4> QED BY <2>2, <3>1, <3>4, <4>2 DEF WaitsForWriter, ClockAdvanced
    <3> QED BY <1>1, <3>1, <3>2, <3>3, <3>4 DEF OrderInv, LocksKnown
  <2>3. CASE pc[r] = "admitted"
    BY <2>3 DEF Ready, WaitsFor
  <2>4. CASE pc[r] = "counted"
    BY <2>4 DEF Ready, WaitsFor, TallyRowFree
  <2> QED BY <2>1, <2>2, <2>3, <2>4
<1>2. ASSUME TypeOK, LeavesInv, NEW r \in Requests, NEW q \in Requests, WaitsFor(r, q)
      PROVE  InFlight(q) /\ Rank(pc[q]) > Rank(pc[r])
  <2>1. CASE pc[r] = "seen" /\ rowLock[body[r].contest] = q
    <3>1. body[r].contest \in Contests
      BY <1>2, <2>1 DEF TypeOK, Bodies
    <3>2. pc[q] \in PastOpen
      BY <1>2, <2>1, <3>1 DEF LeavesInv, LocksInFlight
    <3> QED BY <2>1, <3>2 DEF PastOpen, Rank, InFlight
  <2>2. CASE pc[r] = "admitted" /\ pc[q] \in {"marked", "counted", "tallied"}
    BY <2>2 DEF Rank, InFlight
  <2>3. CASE pc[r] = "counted" /\ pc[q] = "tallied"
    BY <2>3 DEF Rank, InFlight
  <2> QED BY <1>2, <2>1, <2>2, <2>3 DEF WaitsFor
<1>3. ASSUME TypeOK, LeavesInv, OrderInv PROVE NoCircle
  BY <1>1, <1>2, <1>3 DEF NoCircle
<1>4. ASSUME TypeOK, LeavesInv, OrderInv PROVE SomebodyGoesOn
  <2> DEFINE Somebody == \/ \E q \in Requests : InFlight(q) /\ Ready(q)
                         \/ \E r \in Requests, w \in Writers : WaitsForWriter(r, w)
  <2>1. ASSUME NEW r \in Requests, pc[r] = "tallied" PROVE Somebody
    BY <2>1 DEF InFlight, Ready
  <2>2. ASSUME NEW r \in Requests, pc[r] = "counted" PROVE Somebody
    <3>1. Ready(r) \/ \E q \in Requests : pc[q] = "tallied"
      BY <2>2 DEF Ready, TallyRowFree
    <3> QED BY <2>1, <2>2, <3>1 DEF InFlight
  <2>3. ASSUME NEW r \in Requests, pc[r] = "admitted" PROVE Somebody
    <3>1. Ready(r) \/ \E q \in Requests : pc[q] \in {"marked", "counted", "tallied"}
      BY <2>3 DEF Ready
    <3>2. \A q \in Requests : pc[q] = "marked" => Somebody
      BY DEF Ready, InFlight
    <3> QED BY <2>1, <2>2, <2>3, <3>1, <3>2 DEF InFlight
  <2>4. ASSUME NEW r \in Requests, pc[r] \in PastOpen PROVE Somebody
    BY <2>1, <2>2, <2>3, <2>4 DEF PastOpen, InFlight, Ready
  <2>5. ASSUME NEW r \in Requests, InFlight(r) PROVE Somebody
    <3>1. CASE Ready(r) \/ \E w \in Writers : WaitsForWriter(r, w)
      BY <2>5, <3>1
    <3>2. ASSUME NEW q \in Requests, WaitsFor(r, q) PROVE Somebody
      <4>1. CASE pc[q] \in PastOpen
        BY <2>4, <4>1
      <4>2. CASE pc[r] = "seen" /\ rowLock[body[r].contest] = q
        <5>1. body[r].contest \in Contests
          BY <1>4, <4>2 DEF TypeOK, Bodies
        <5> QED BY <1>4, <4>1, <4>2, <5>1 DEF LeavesInv, LocksInFlight
      <4> QED BY <3>2, <4>1, <4>2 DEF WaitsFor, PastOpen
    <3> QED BY <1>1, <1>4, <2>5, <3>1, <3>2
  <2> QED BY <2>5 DEF SomebodyGoesOn
<1> QED
  BY OrderInit, OrderStep, LeavesInit, LeavesStep, TypeCorrect, <1>3, <1>4, PTL DEF Spec

(* A request never goes back: each of its steps, a failure among them,     *)
(* brings its answer nearer, so ten at most lie before it; others do not   *)
(* move it.                                                                *)
THEOREM AnswersComeNearer ==
    Spec => [][(\A r \in Requests : pc'[r] # pc[r] => Rank(pc'[r]) > Rank(pc[r]))]_vars
<1> DEFINE Nearer == \A r \in Requests : pc'[r] # pc[r] => Rank(pc'[r]) > Rank(pc[r])
<1>1. ASSUME TypeOK, [Next]_vars PROVE [Nearer]_vars
  <2> SUFFICES ASSUME Next, NEW r \in Requests, pc'[r] # pc[r]
               PROVE  Rank(pc'[r]) > Rank(pc[r])
    BY <1>1
  <2>1. pc \in [Requests -> Stages]
    BY <1>1 DEF TypeOK
  <2>2. \A q \in Requests : \A s : Goto(q, s) => r = q /\ pc'[r] = s
    BY <2>1 DEF Goto
  <2>3. \A q \in Requests : \A s, ok : GotoIf(q, ok, s) => r = q /\ pc'[r] \in {s, "refused"}
    BY <2>2 DEF GotoIf
  <2>4. ASSUME NEW q \in Requests, NEW b \in Bodies, Submit(q, b)
        PROVE  Rank(pc'[r]) > Rank(pc[r])
    BY <2>2, <2>4 DEF Submit, Rank
  <2>5. ASSUME NEW q \in Requests, Fail(q)
        PROVE  Rank(pc'[r]) > Rank(pc[r])
    <3>1. r = q /\ pc'[r] = "refused" /\ pc[r] \in Stages \ {"idle", "committed", "refused"}
      BY <2>1, <2>2, <2>5 DEF Fail, InFlight
    <3> QED BY <3>1 DEF Stages, Rank
  <2>6. ASSUME NEW q \in Requests, RequestStep(q)
        PROVE  Rank(pc'[r]) > Rank(pc[r])
    <3>1. r = q
      BY <2>2, <2>3, <2>6 DEF RequestStep, IssueOwnToken, Begin, ReadContest, CheckOpen,
         SyncThenCheck, CheckVoter, CheckToken, MarkToken, FindTally, WriteTally, CommitVote
    <3>2. CASE IssueOwnToken(q) \/ Begin(q) \/ ReadContest(q)
      BY <2>2, <2>3, <3>1, <3>2 DEF IssueOwnToken, Begin, ReadContest, Rank
    <3>3. CASE CheckOpen(q) \/ SyncThenCheck(q)
      <4>1. pc[q] = "seen" /\ pc'[r] \in {"open", "refused"}
        BY <2>2, <2>3, <3>3 DEF CheckOpen, SyncThenCheck
      <4> QED BY <3>1, <4>1 DEF Rank
    <3>4. CASE CheckVoter(q) \/ CheckToken(q) \/ MarkToken(q)
      <4>1. \/ pc[q] = "open" /\ pc'[r] \in {"eligible", "refused"}
            \/ pc[q] = "eligible" /\ pc'[r] \in {"admitted", "refused"}
            \/ pc[q] = "admitted" /\ pc'[r] = "marked"
        BY <2>2, <2>3, <3>4 DEF CheckVoter, CheckToken, MarkToken
      <4> QED BY <3>1, <4>1 DEF Rank
    <3>5. CASE FindTally(q)
      <4>1. pc[q] = "marked" /\ pc'[r] \in {"tallied", "counted", "refused"}
        BY <2>2, <2>3, <3>5 DEF FindTally
      <4> QED BY <3>1, <4>1 DEF Rank
    <3>6. CASE WriteTally(q) \/ CommitVote(q)
      BY <2>2, <3>1, <3>6 DEF WriteTally, CommitVote, Rank
    <3> QED BY <2>6, <3>2, <3>3, <3>4, <3>5, <3>6 DEF RequestStep
  <2>7. ASSUME pc' = pc PROVE FALSE
    BY <2>7
  <2>8. ASSUME Environment, \A q \in Requests : ~Fail(q) PROVE pc' = pc
    BY <2>8 DEF Environment, IssueToken, reqVars
  <2> HIDE DEF Nearer
  <2> QED BY <2>4, <2>5, <2>6, <2>7, <2>8 DEF Next
<1> QED BY TypeCorrect, <1>1, PTL DEF Spec
-----------------------------------------------------------------------------
(* The stages in which a request has taken its instant, has found the      *)
(* contest open, has been found entitled, and has had its token checked;   *)
(* the commit is the last of each.                                         *)
Begun == {"begun", "seen"} \cup PastOpen \cup {"committed"}
FoundOpen == PastOpen \cup {"committed"}
FoundEntitled == PastLedger \cup {"committed"}
TokenChecked == PastToken \cup {"committed"}

NamesKnown(r) == Named(Method[body[r].contest], body[r].ballot) \subseteq Candidates

(* What a request has found out stays true until it ends and after.        *)
Judged ==
    \A r \in Requests :
        /\ pc[r] \in Begun => at[r] # NoTime
        /\ pc[r] \in FoundOpen => WithinWindow(at[r], seenRow[r])
        /\ pc[r] \in FoundEntitled => Entitled(r)
        /\ pc[r] \in TokenChecked => TokenMatches(r) /\ NamesKnown(r)

(* A token for a referendum names no constituency.                         *)
TokensSound == \A t \in Tokens : Method[issued[t].contest] = "REFERENDUM" => issued[t].area = None

JudgedInv == Judged /\ TokensSound /\ votes \subseteq {r \in Requests : pc[r] = "committed"}

(* It holds at the start.                                                  *)
LEMMA JudgedInit == Init => JudgedInv
BY DEF Init, JudgedInv, Judged, TokensSound, NotIssued, Begun, FoundOpen, FoundEntitled,
   TokenChecked, PastOpen, PastLedger, PastToken

(* A request that moves on keeps it, provided it has found out what its    *)
(* new stage says it has.                                                  *)
LEMMA JudgedAdvance ==
    ASSUME TypeOK, JudgedInv, NEW r \in Requests, NEW s \in Stages, Goto(r, s),
           UNCHANGED <<body, issued>>, pc[r] # "committed",
           votes' = IF s = "committed" THEN votes \cup {r} ELSE votes,
           \A q \in Requests \ {r} : at'[q] = at[q] /\ seenRow'[q] = seenRow[q],
           s \in Begun => at'[r] # NoTime,
           s \in FoundOpen => WithinWindow(at'[r], seenRow'[r]),
           s \in FoundEntitled => Entitled(r),
           s \in TokenChecked => TokenMatches(r) /\ NamesKnown(r)
    PROVE  JudgedInv'
<1>1. pc' = [pc EXCEPT ![r] = s] /\ pc \in [Requests -> Stages]
  BY DEF Goto, TypeOK
<1>2. ASSUME NEW q \in Requests
      PROVE  /\ Entitled(q) => Entitled(q)'
             /\ TokenMatches(q) => TokenMatches(q)'
             /\ NamesKnown(q) => NamesKnown(q)'
  BY DEF Entitled, TokenMatches, NamesKnown
<1>3. Judged'
  <2> SUFFICES ASSUME NEW q \in Requests
               PROVE  /\ pc'[q] \in Begun => at'[q] # NoTime
                      /\ pc'[q] \in FoundOpen => WithinWindow(at'[q], seenRow'[q])
                      /\ pc'[q] \in FoundEntitled => Entitled(q)'
                      /\ pc'[q] \in TokenChecked => TokenMatches(q)' /\ NamesKnown(q)'
    BY DEF Judged, WithinWindow
  <2>1. CASE q = r
    BY <1>1, <1>2, <2>1
  <2>2. CASE q # r
    BY <1>1, <1>2, <2>2 DEF JudgedInv, Judged
  <2> QED BY <2>1, <2>2
<1>4. TokensSound'
  BY DEF JudgedInv, TokensSound
<1>5. votes' \subseteq {q \in Requests : pc'[q] = "committed"}
  BY <1>1 DEF JudgedInv
<1> QED BY <1>3, <1>4, <1>5 DEF JudgedInv

(* The same for a check that may refuse the request.                       *)
LEMMA JudgedCheck ==
    ASSUME TypeOK, JudgedInv, NEW r \in Requests, NEW s \in Stages \ {"committed"}, NEW ok,
           GotoIf(r, ok, s), UNCHANGED <<body, issued, votes>>, pc[r] # "committed",
           \A q \in Requests \ {r} : at'[q] = at[q] /\ seenRow'[q] = seenRow[q],
           ok /\ s \in Begun => at'[r] # NoTime,
           ok /\ s \in FoundOpen => WithinWindow(at'[r], seenRow'[r]),
           ok /\ s \in FoundEntitled => Entitled(r),
           ok /\ s \in TokenChecked => TokenMatches(r) /\ NamesKnown(r)
    PROVE  JudgedInv'
<1>1. CASE ok
  BY <1>1, JudgedAdvance DEF GotoIf
<1>2. CASE ~ok
  <2>1. Goto(r, "refused") /\ "refused" \in Stages
    BY <1>2 DEF GotoIf, Stages
  <2>2. "refused" \notin Begun \cup FoundOpen \cup FoundEntitled \cup TokenChecked
    BY DEF Begun, FoundOpen, FoundEntitled, TokenChecked, PastOpen, PastLedger, PastToken
  <2> QED BY <2>1, <2>2, JudgedAdvance
<1> QED BY <1>1, <1>2

(* Every step of a request keeps it.                                       *)
LEMMA JudgedRequestStep ==
    ASSUME TypeOK, JudgedInv, NEW r \in Requests, RequestStep(r)
    PROVE  JudgedInv'
<1> USE DEF Stages, Begun, FoundOpen, FoundEntitled, TokenChecked, PastOpen, PastLedger, PastToken
<1>1. /\ pc[r] \in Begun => at[r] # NoTime
      /\ pc[r] \in FoundOpen => WithinWindow(at[r], seenRow[r])
      /\ pc[r] \in FoundEntitled => Entitled(r)
      /\ pc[r] \in TokenChecked => TokenMatches(r) /\ NamesKnown(r)
  BY DEF JudgedInv, Judged
<1>2. CASE IssueOwnToken(r)
  BY <1>1, <1>2, JudgedCheck DEF IssueOwnToken, boxVars
<1>3. CASE Begin(r)
  <2>1. /\ at' = [at EXCEPT ![r] = now] /\ at \in [Requests -> Instants] /\ now \in Nat
        /\ pc[r] \in {"received", "issued"} /\ Goto(r, "begun")
        /\ UNCHANGED <<body, issued, votes, seenRow>>
    BY <1>3, TimeAssumption DEF Begin, boxVars, TypeOK, LifeTypeOK
  <2>2. at'[r] # NoTime /\ \A q \in Requests \ {r} : at'[q] = at[q]
    BY <2>1 DEF NoTime
  <2> QED BY <2>1, <2>2, JudgedAdvance
<1>4. CASE ReadContest(r)
  <2>1. /\ pc[r] = "begun" /\ seenRow' = [seenRow EXCEPT ![r] = contest[body[r].contest]]
        /\ GotoIf(r, contest[body[r].contest].status # "ABSENT", "seen")
        /\ UNCHANGED <<body, issued, votes, at>> /\ seenRow \in [Requests -> Rows]
    BY <1>4 DEF ReadContest, boxVars, TypeOK
  <2>2. \A q \in Requests \ {r} : seenRow'[q] = seenRow[q]
    BY <2>1
  <2> QED BY <1>1, <2>1, <2>2, JudgedCheck
<1>5. CASE CheckOpen(r)
  BY <1>1, <1>5, JudgedCheck DEF CheckOpen, OpenFor, boxVars
<1>6. CASE SyncThenCheck(r)
  <2> DEFINE row == [seenRow[r] EXCEPT !.status = ImpliedStatus(now, seenRow[r])]
  <2>1. /\ pc[r] = "seen" /\ UNCHANGED <<body, issued, votes, at, seenRow>>
        /\ \/ Goto(r, "refused")
           \/ Goto(r, "open") /\ OpenFor(r, row)
    BY <1>6 DEF SyncThenCheck, boxVars
  <2>2. OpenFor(r, row) => WithinWindow(at[r], seenRow[r])
    BY DEF OpenFor, WithinWindow, TypeOK, Rows
  <2> QED BY <1>1, <2>1, <2>2, JudgedAdvance
<1>7. CASE CheckVoter(r)
  BY <1>1, <1>7, JudgedCheck DEF CheckVoter, boxVars
<1>8. CASE CheckToken(r)
  BY <1>1, <1>8, JudgedCheck DEF CheckToken, NamesKnown, boxVars
<1>9. CASE MarkToken(r)
  BY <1>1, <1>9, JudgedAdvance DEF MarkToken, boxVars
<1>10. CASE FindTally(r)
  <2>1. pc[r] = "marked" /\ UNCHANGED <<body, issued, votes, at, seenRow>>
    BY <1>10 DEF FindTally, boxVars
  <2>2. Goto(r, "tallied") \/ Goto(r, "counted") \/ Goto(r, "refused")
    BY <1>10 DEF FindTally, GotoIf
  <2> QED BY <1>1, <2>1, <2>2, JudgedAdvance
<1>11. CASE WriteTally(r)
  BY <1>1, <1>11, JudgedAdvance DEF WriteTally, boxVars
<1>12. CASE CommitVote(r)
  BY <1>1, <1>12, JudgedAdvance DEF CommitVote
<1> QED
  BY <1>2, <1>3, <1>4, <1>5, <1>6, <1>7, <1>8, <1>9, <1>10, <1>11, <1>12 DEF RequestStep

(* A token that is issued leaves the tokens that were matched as they are. *)
LEMMA JudgedIssue ==
    ASSUME TypeOK, JudgedInv, NEW t \in Tokens, NEW c \in Contests, NEW a \in Areas \cup {None},
           IssueToken(t, c, a)
    PROVE  JudgedInv'
<1>1. /\ issued[t] = NotIssued /\ issued' = [issued EXCEPT ![t] = [contest |-> c, area |-> a]]
      /\ a = None <=> Method[c] = "REFERENDUM"
      /\ UNCHANGED <<pc, body, at, seenRow, votes>>
      /\ issued \in [Tokens -> Issues \cup {NotIssued}]
  BY DEF IssueToken, reqVars, boxVars, TypeOK
<1>2. ASSUME NEW r \in Requests, pc[r] \in TokenChecked, TokenMatches(r)
      PROVE  TokenMatches(r)'
  <2> SUFFICES ASSUME body[r].kind = "cast"
               PROVE  issued'[body[r].token] = issued[body[r].token]
    BY <1>1, <1>2 DEF TokenMatches
  <2>1. body[r] \in Bodies
    BY <1>2 DEF TypeOK, TokenChecked, PastToken
  <2>2. body[r].token \in Tokens /\ body[r].contest \in Contests
    BY <2>1 DEF Bodies
  <2>3. issued[body[r].token].contest = body[r].contest
    BY <1>2 DEF TokenMatches
  <2>4. body[r].token # t
    BY <1>1, <2>2, <2>3, NoneAssumption DEF NotIssued
  <2> QED BY <1>1, <2>2, <2>4
<1>3. \A r \in Requests : (Entitled(r) => Entitled(r)') /\ (NamesKnown(r) => NamesKnown(r)')
  BY <1>1 DEF Entitled, NamesKnown
<1>4. Judged'
  BY <1>1, <1>2, <1>3 DEF JudgedInv, Judged, WithinWindow
<1>5. TokensSound'
  BY <1>1 DEF JudgedInv, TokensSound
<1> QED BY <1>1, <1>4, <1>5 DEF JudgedInv

(* Every step of the system keeps it.                                      *)
LEMMA JudgedStep ==
    ASSUME TypeOK, JudgedInv, [Next]_vars
    PROVE  JudgedInv'
<1>1. ASSUME UNCHANGED <<pc, body, at, seenRow, issued, votes>>
      PROVE  JudgedInv'
  BY <1>1 DEF JudgedInv, Judged, TokensSound, Entitled, TokenMatches, NamesKnown, WithinWindow
<1>2. CASE UNCHANGED vars
  BY <1>1, <1>2 DEF vars, reqVars, boxVars
<1>3. CASE LifeNext /\ UNCHANGED <<reqVars, issued, boxVars>>
  BY <1>1, <1>3 DEF reqVars, boxVars
<1>4. ASSUME NEW r \in Requests, Fail(r)
      PROVE  JudgedInv'
  BY <1>4, JudgedAdvance DEF Fail, InFlight, boxVars, Stages, Begun, FoundOpen, FoundEntitled,
     TokenChecked, PastOpen, PastLedger, PastToken
<1>5. ASSUME NEW r \in Requests, NEW b \in Bodies, Submit(r, b)
      PROVE  JudgedInv'
  <2>1. /\ pc[r] = "idle" /\ pc' = [pc EXCEPT ![r] = "received"] /\ pc \in [Requests -> Stages]
        /\ body' = [body EXCEPT ![r] = b] /\ body \in [Requests -> Bodies \cup {NoBody}]
        /\ UNCHANGED <<at, seenRow, issued, votes>>
    BY <1>5 DEF Submit, Goto, boxVars, TypeOK
  <2>2. ASSUME NEW q \in Requests, q # r
        PROVE  /\ pc'[q] = pc[q] /\ Entitled(q) => Entitled(q)'
               /\ TokenMatches(q) => TokenMatches(q)'
               /\ NamesKnown(q) => NamesKnown(q)'
    BY <2>1, <2>2 DEF Entitled, TokenMatches, NamesKnown
  <2>3. pc'[r] \notin Begun \cup FoundOpen \cup FoundEntitled \cup TokenChecked
    BY <2>1 DEF Begun, FoundOpen, FoundEntitled, TokenChecked, PastOpen, PastLedger, PastToken
  <2>4. Judged'
    BY <2>1, <2>2, <2>3 DEF JudgedInv, Judged, WithinWindow
  <2> QED BY <2>1, <2>4 DEF JudgedInv, TokensSound
<1> QED
  BY <1>2, <1>3, <1>4, <1>5, JudgedRequestStep, JudgedIssue DEF Next, Environment

(* However requests overlap, and whatever officials and the schedule do to *)
(* the contest between the checks and the commit, a committed vote was     *)
(* cast by an entitled voter with a valid ballot, inside the schedule it   *)
(* was judged by, and with a token for that contest and constituency.      *)
THEOREM OnlyAdmissibleVotes == Spec => []VotesAreAdmissible
<1>1. TypeOK /\ JudgedInv => VotesAreAdmissible
  <2> SUFFICES ASSUME TypeOK, JudgedInv, NEW r \in votes
               PROVE  LET c == body[r].contest
                          b == body[r].ballot
                          token == issued[body[r].token]
                      IN  /\ <<body[r].voter, c>> \notin Barred /\ ValidPayload(Method[c], b)
                          /\ Named(Method[c], b) \subseteq Candidates
                          /\ at[r] # NoTime /\ WithinWindow(at[r], seenRow[r])
                          /\ body[r].kind = "cast" =>
                                token.contest = c /\ token.area \in {None, b.area} \cup
                                        (IF b.area = None THEN Areas ELSE {})
    BY DEF VotesAreAdmissible
  <2>1. r \in Requests /\ pc[r] = "committed" /\ body[r] \in Bodies
    BY DEF JudgedInv, TypeOK
  <2>2. /\ at[r] # NoTime /\ WithinWindow(at[r], seenRow[r]) /\ Entitled(r)
        /\ TokenMatches(r) /\ NamesKnown(r)
    BY <2>1 DEF JudgedInv, Judged, Begun, FoundOpen, FoundEntitled, TokenChecked
  <2>3. ASSUME body[r].kind = "cast"
        PROVE  /\ issued[body[r].token].contest = body[r].contest
               /\ issued[body[r].token].area \in {None, body[r].ballot.area} \cup
                     (IF body[r].ballot.area = None THEN Areas ELSE {})
    <3>1. body[r].token \in Tokens
      BY <2>1, <2>3 DEF Bodies
    <3>2. issued[body[r].token] \in Issues \cup {NotIssued}
      BY <3>1 DEF TypeOK
    <3>3. issued[body[r].token].area \in Areas \cup {None}
      BY <3>2 DEF Issues, NotIssued
    <3>4. issued[body[r].token].contest = body[r].contest
      BY <2>2, <2>3 DEF TokenMatches
    <3>5. CASE body[r].ballot.area = None
      BY <3>3, <3>4, <3>5
    <3>6. CASE body[r].ballot.area # None /\ Method[body[r].contest] = "REFERENDUM"
      BY <3>1, <3>4, <3>6 DEF JudgedInv, TokensSound
    <3>7. CASE body[r].ballot.area # None /\ Method[body[r].contest] # "REFERENDUM"
      BY <2>2, <2>3, <3>4, <3>7 DEF TokenMatches
    <3> QED BY <3>5, <3>6, <3>7
  <2> QED BY <2>2, <2>3 DEF Entitled, NamesKnown
<1>2. TypeOK /\ JudgedInv /\ [Next]_vars => JudgedInv'
  BY JudgedStep
<1> QED BY JudgedInit, TypeCorrect, <1>1, <1>2, PTL DEF Spec
-----------------------------------------------------------------------------
(***************************************************************************)
(* The tallies.  An increment that is written and not committed is one     *)
(* more than the row it is for, which nobody else may change meanwhile; a  *)
(* row that is found is one of the vote's contest and key; and each row    *)
(* counts the votes that were counted on it.                               *)
(***************************************************************************)
Counting(r) == pc[r] \in {"counted", "tallied", "committed"}

RowFound(r) ==
    /\ tally[target[r]] > 0
    /\ KeyOf(r) # NoKey
    /\ body[target[r]].contest = body[r].contest
    /\ KeyOf(target[r]) = KeyOf(r)

TargetsFit ==
    \A r \in Requests :
        /\ Counting(r) /\ target[r] # NoRow => RowFound(r)
        /\ ~Counting(r) /\ pc[r] # "refused" => target[r] = NoRow

WrittenOnTop ==
    \A r \in Requests :
        pc[r] = "tallied" /\ KeyOf(r) # NoKey => count[r] = tally[RowOf(r)] + 1

RowsHeldApart ==
    \A r, q \in Requests :
        r # q /\ pc[r] = "tallied" /\ pc[q] = "tallied" /\ target[r] # NoRow => target[q] # target[r]

RowsCount == IsFiniteSet(votes) /\ \A q \in Requests : tally[q] = Cardinality(CountedOn(q))

TallyInv == TargetsFit /\ WrittenOnTop /\ RowsHeldApart /\ RowsCount

(* It holds at the start.                                                  *)
LEMMA TallyInit == Init => TallyInv
<1> SUFFICES ASSUME Init PROVE TallyInv
  OBVIOUS
<1>1. TargetsFit /\ WrittenOnTop /\ RowsHeldApart
  BY DEF Init, TargetsFit, Counting, WrittenOnTop, RowsHeldApart
<1>2. votes = {} /\ \A q \in Requests : CountedOn(q) = {} /\ tally[q] = 0
  BY DEF Init, CountedOn
<1>3. RowsCount
  BY <1>2, FS_EmptySet DEF RowsCount
<1> QED BY <1>1, <1>3 DEF TallyInv

(* A request that moves on and commits nothing: the row it has found, if   *)
(* any, is one for its vote, and what it has written is one more.          *)
LEMMA TallyMoves ==
    ASSUME TypeOK, LeavesInv, TallyInv, NEW r \in Requests, NEW s \in Stages \ {"committed", "idle"},
           NEW x \in Requests \cup {NoRow}, NEW n,
           pc[r] # "committed", Goto(r, s),
           target' = [target EXCEPT ![r] = x], count' = [count EXCEPT ![r] = n],
           \A q \in Requests : pc[q] # "idle" => body'[q] = body[q],
           UNCHANGED <<votes, tally>>,
           s \in {"counted", "tallied"} =>
               /\ pc[r] # "idle"
               /\ x # NoRow => /\ tally[x] > 0 /\ KeyOf(r) # NoKey
                               /\ body[x].contest = body[r].contest /\ KeyOf(x) = KeyOf(r),
           s \notin {"counted", "tallied", "refused"} => x = NoRow,
           s = "tallied" /\ KeyOf(r) # NoKey => n = tally[IF x = NoRow THEN r ELSE x] + 1,
           s = "tallied" /\ x # NoRow => \A q \in Requests : pc[q] = "tallied" => target[q] # x
    PROVE  TallyInv'
<1>1. /\ pc' = [pc EXCEPT ![r] = s] /\ pc \in [Requests -> Stages]
      /\ target \in [Requests -> Requests \cup {NoRow}]
      /\ count \in [Requests -> Nat]
  BY DEF Goto, TypeOK
<1>2. /\ pc'[r] = s /\ target'[r] = x /\ count'[r] = n
      /\ \A q \in Requests \ {r} : pc'[q] = pc[q] /\ target'[q] = target[q] /\ count'[q] = count[q]
  BY <1>1
<1>3. \A q \in Requests : pc[q] # "idle" =>
        KeyOf(q)' = KeyOf(q) /\ body'[q].contest = body[q].contest
  BY DEF KeyOf
<1>4. \A q \in Requests : tally[q] > 0 => pc[q] = "committed"
  BY DEF LeavesInv, RowsCommitted
<1>5. TargetsFit'
  <2> SUFFICES ASSUME NEW q \in Requests
               PROVE  /\ Counting(q)' /\ target'[q] # NoRow => RowFound(q)'
                      /\ ~Counting(q)' /\ pc'[q] # "refused" => target'[q] = NoRow
    BY DEF TargetsFit
  <2>1. ASSUME NEW y \in Requests, tally[y] > 0, pc[q] # "idle", KeyOf(q) # NoKey,
               body[y].contest = body[q].contest, KeyOf(y) = KeyOf(q), target'[q] = y
        PROVE  RowFound(q)'
    <3>1. pc[y] # "idle"
      BY <1>4, <2>1
    <3>2. KeyOf(y)' = KeyOf(y) /\ body'[y].contest = body[y].contest
      BY <1>3, <3>1
    <3>3. KeyOf(q)' = KeyOf(q) /\ body'[q].contest = body[q].contest
      BY <1>3, <2>1
    <3> QED BY <2>1, <3>2, <3>3 DEF RowFound, KeyOf
  <2>2. CASE q = r
    <3>1. ASSUME s \in {"counted", "tallied"}, x # NoRow PROVE RowFound(r)'
      BY <1>2, <2>1, <2>2, <3>1
    <3> QED BY <1>2, <2>2, <3>1 DEF Counting
  <2>3. CASE q # r
    <3>1. ASSUME Counting(q), target[q] # NoRow PROVE RowFound(q)'
      <4>1. RowFound(q) /\ target[q] \in Requests /\ pc[q] # "idle"
        BY <1>1, <3>1 DEF TallyInv, TargetsFit, Counting
      <4> QED BY <1>2, <2>1, <2>3, <4>1 DEF RowFound
    <3> QED BY <1>2, <2>3, <3>1 DEF Counting, TallyInv, TargetsFit
  <2> QED BY <2>2, <2>3
<1>6. WrittenOnTop'
  <2> SUFFICES ASSUME NEW q \in Requests, pc'[q] = "tallied", KeyOf(q)' # NoKey
               PROVE  count'[q] = tally'[RowOf(q)'] + 1
    BY DEF WrittenOnTop
  <2>1. CASE q = r
    BY <1>2, <1>3, <2>1 DEF RowOf
  <2>2. CASE q # r
    <3>1. RowOf(q)' = RowOf(q) /\ pc[q] = "tallied" /\ KeyOf(q) # NoKey
      BY <1>2, <1>3, <2>2 DEF RowOf
    <3> QED BY <1>2, <2>2, <3>1 DEF TallyInv, WrittenOnTop
  <2> QED BY <2>1, <2>2
<1>7. RowsHeldApart'
  BY <1>2 DEF TallyInv, RowsHeldApart
<1>8. RowsCount'
  <2>1. \A v \in votes : v \in Requests /\ v # r /\ pc[v] = "committed"
    BY DEF LeavesInv, WrittenTogether
  <2>2. \A v \in votes : KeyOf(v)' = KeyOf(v) /\ RowOf(v)' = RowOf(v)
    BY <1>2, <1>3, <2>1 DEF RowOf
  <2>3. \A q \in Requests : CountedOn(q)' = CountedOn(q)
    BY <2>2 DEF CountedOn
  <2> QED BY <2>3 DEF TallyInv, RowsCount
<1> QED BY <1>5, <1>6, <1>7, <1>8 DEF TallyInv

(* The same for a step that touches neither target nor count.              *)
LEMMA TallyPasses ==
    ASSUME TypeOK, LeavesInv, TallyInv, NEW r \in Requests,
           NEW s \in Stages \ {"committed", "idle", "counted"},
           pc[r] # "committed", ~Counting(r) \/ s = "refused", Goto(r, s), pc[r] # "refused",
           UNCHANGED <<target, count, votes, tally>>,
           \A q \in Requests : pc[q] # "idle" => body'[q] = body[q],
           s = "tallied" => KeyOf(r) = NoKey /\ pc[r] # "idle"
    PROVE  TallyInv'
<1> DEFINE x == target[r]
           n == count[r]
<1>1. /\ x \in Requests \cup {NoRow}
      /\ target' = [target EXCEPT ![r] = x] /\ count' = [count EXCEPT ![r] = n]
  BY DEF TypeOK
<1>2. s # "refused" => x = NoRow
  BY DEF TallyInv, TargetsFit
<1> HIDE DEF x, n
<1> QED BY <1>1, <1>2, TallyMoves

(* A check that may refuse the request.                                    *)
LEMMA TallyCheck ==
    ASSUME TypeOK, LeavesInv, TallyInv, NEW r \in Requests, NEW ok,
           NEW s \in Stages \ {"committed", "idle", "counted", "tallied"},
           pc[r] \notin {"idle", "committed", "refused"}, ~Counting(r), GotoIf(r, ok, s),
           UNCHANGED <<body, target, count, votes, tally>>
    PROVE  TallyInv'
<1>1. CASE ok
  <2>1. Goto(r, s)
    BY <1>1 DEF GotoIf
  <2> QED BY <2>1, TallyPasses
<1>2. CASE ~ok
  <2>1. Goto(r, "refused")
    BY <1>2 DEF GotoIf
  <2> QED BY <2>1, TallyPasses DEF Stages
<1> QED BY <1>1, <1>2

(* The commit adds its vote to the row it was counted on.                  *)
LEMMA TallyCommit ==
    ASSUME TypeOK, LeavesInv, TallyInv, NEW r \in Requests, CommitVote(r)
    PROVE  TallyInv'
<1>1. /\ pc[r] = "tallied" /\ pc' = [pc EXCEPT ![r] = "committed"]
      /\ pc \in [Requests -> Stages] /\ UNCHANGED <<body, target, count>>
      /\ votes' = votes \cup {r} /\ tally' = TallyAfter(r)
      /\ tally \in [Requests -> Nat] /\ count \in [Requests -> Nat]
      /\ target \in [Requests -> Requests \cup {NoRow}]
  BY DEF CommitVote, Goto, TypeOK
<1>2. \A q : KeyOf(q)' = KeyOf(q) /\ RowOf(q)' = RowOf(q)
  BY <1>1 DEF KeyOf, RowOf
<1>3. /\ \A q \in Requests : tally[q] > 0 => pc[q] = "committed"
      /\ \A q \in Requests : target[q] # NoRow => pc[target[q]] = "committed"
      /\ votes = {q \in Requests : pc[q] = "committed"}
  BY DEF LeavesInv, RowsCommitted, WrittenTogether
<1>4. \A q \in Requests : RowOf(q) \in Requests
  BY <1>1 DEF RowOf
<1>5. /\ KeyOf(r) = NoKey => tally' = tally
      /\ KeyOf(r) # NoKey => /\ tally' = [tally EXCEPT ![RowOf(r)] = count[r]]
                             /\ count[r] = tally[RowOf(r)] + 1
  BY <1>1 DEF TallyAfter, TallyInv, WrittenOnTop
<1>6. \A q \in Requests : tally'[q] >= tally[q]
  BY <1>1, <1>4, <1>5
<1>7. ASSUME NEW q \in Requests \ {r}, pc[q] = "tallied" PROVE RowOf(q) # RowOf(r)
  <2>1. target[q] # NoRow => target[r] # target[q]
    BY <1>1, <1>7 DEF TallyInv, RowsHeldApart
  <2>2. target[q] # NoRow => target[q] # r
    BY <1>1, <1>3
  <2>3. target[r] # NoRow => target[r] # q
    BY <1>3, <1>7
  <2> QED BY <2>1, <2>2, <2>3 DEF RowOf
<1>8. TargetsFit'
  <2> SUFFICES ASSUME NEW q \in Requests
               PROVE  /\ Counting(q)' /\ target[q] # NoRow => RowFound(q)'
                      /\ ~Counting(q)' /\ pc'[q] # "refused" => target[q] = NoRow
    BY <1>1 DEF TargetsFit
  <2>1. Counting(q)' = Counting(q) /\ (pc'[q] = "refused" <=> pc[q] = "refused")
    BY <1>1 DEF Counting
  <2>2. ASSUME Counting(q), target[q] # NoRow PROVE RowFound(q)'
    <3>1. RowFound(q) /\ target[q] \in Requests
      BY <1>1, <2>2 DEF TallyInv, TargetsFit
    <3>2. tally'[target[q]] > 0
      BY <1>1, <1>4, <1>5, <1>6, <3>1 DEF RowFound
    <3> QED BY <1>1, <1>2, <3>1, <3>2 DEF RowFound, KeyOf
  <2> QED BY <2>1, <2>2 DEF TallyInv, TargetsFit
<1>9. WrittenOnTop'
  <2> SUFFICES ASSUME NEW q \in Requests, pc'[q] = "tallied", KeyOf(q) # NoKey
               PROVE  count[q] = tally'[RowOf(q)] + 1
    BY <1>1, <1>2 DEF WrittenOnTop
  <2>1. q # r /\ pc[q] = "tallied"
    BY <1>1
  <2>2. tally'[RowOf(q)] = tally[RowOf(q)]
    BY <1>1, <1>4, <1>5, <1>7, <2>1
  <2> QED BY <2>1, <2>2 DEF TallyInv, WrittenOnTop
<1>10. RowsHeldApart'
  BY <1>1 DEF TallyInv, RowsHeldApart
<1>11. RowsCount'
  <2>1. IsFiniteSet(votes) /\ r \notin votes
    BY <1>1, <1>3 DEF TallyInv, RowsCount
  <2>2. IsFiniteSet(votes')
    BY <1>1, <2>1, FS_AddElement
  <2>3. ASSUME NEW q \in Requests PROVE tally'[q] = Cardinality(CountedOn(q)')
    <3>1. CountedOn(q) \subseteq votes /\ IsFiniteSet(CountedOn(q)) /\ r \notin CountedOn(q)
      BY <2>1, FS_Subset DEF CountedOn
    <3>2. tally[q] = Cardinality(CountedOn(q))
      BY DEF TallyInv, RowsCount
    <3>3. CASE KeyOf(r) # NoKey /\ q = RowOf(r)
      <4>1. CountedOn(q)' = CountedOn(q) \cup {r}
        BY <1>1, <1>2, <3>3 DEF CountedOn
      <4>2. Cardinality(CountedOn(q)') = Cardinality(CountedOn(q)) + 1
        BY <3>1, <4>1, FS_AddElement
      <4> QED BY <1>1, <1>5, <3>2, <3>3, <4>2
    <3>4. CASE ~(KeyOf(r) # NoKey /\ q = RowOf(r))
      <4>1. CountedOn(q)' = CountedOn(q)
        BY <1>1, <1>2, <3>4 DEF CountedOn
      <4>2. tally'[q] = tally[q]
        BY <1>1, <1>4, <1>5, <3>4
      <4> QED BY <3>2, <4>1, <4>2
    <3> QED BY <3>3, <3>4
  <2> QED BY <2>2, <2>3 DEF RowsCount
<1> QED BY <1>8, <1>9, <1>10, <1>11 DEF TallyInv

(* Every step of a request keeps it.                                       *)
LEMMA TallyRequestStep ==
    ASSUME TypeOK, LeavesInv, TallyInv, NEW r \in Requests, RequestStep(r)
    PROVE  TallyInv'
<1> USE DEF Stages
<1>1. CASE IssueOwnToken(r)
  BY <1>1, TallyCheck DEF IssueOwnToken, boxVars, Counting
<1>2. CASE Begin(r)
  BY <1>2, TallyPasses DEF Begin, boxVars, lifeVars, Counting
<1>3. CASE ReadContest(r)
  BY <1>3, TallyCheck DEF ReadContest, boxVars, Counting
<1>4. CASE CheckOpen(r)
  BY <1>4, TallyCheck DEF CheckOpen, boxVars, Counting
<1>5. CASE SyncThenCheck(r)
  <2>1. PICK s \in {"open", "refused"} : Goto(r, s)
    BY <1>5 DEF SyncThenCheck
  <2> QED BY <1>5, <2>1, TallyPasses DEF SyncThenCheck, boxVars, Counting
<1>6. CASE CheckVoter(r)
  BY <1>6, TallyCheck DEF CheckVoter, boxVars, Counting
<1>7. CASE CheckToken(r)
  BY <1>7, TallyCheck DEF CheckToken, boxVars, Counting
<1>8. CASE MarkToken(r)
  BY <1>8, TallyPasses DEF MarkToken, boxVars, lifeVars, Counting
<1>9. CASE FindTally(r)
  <2>1. CASE KeyOf(r) = NoKey
    BY <1>9, <2>1, TallyPasses DEF FindTally, boxVars, Counting
  <2>2. CASE KeyOf(r) # NoKey
    <3> DEFINE x == IF TallyRowsFor(r) = {} THEN NoRow ELSE CHOOSE q \in TallyRowsFor(r) : TRUE
               n == IF target'[r] = NoRow THEN 0 ELSE tally[target'[r]]
    <3>1. /\ pc[r] = "marked" /\ GotoIf(r, Cardinality(TallyRowsFor(r)) <= 1, "counted")
          /\ target' = [target EXCEPT ![r] = x] /\ count' = [count EXCEPT ![r] = n]
          /\ UNCHANGED <<body, votes, tally>>
      BY <1>9, <2>2 DEF FindTally, boxVars
    <3>2. x # NoRow => x \in TallyRowsFor(r)
      OBVIOUS
    <3> HIDE DEF x, n
    <3>3. x # NoRow => /\ x \in Requests /\ tally[x] > 0
                       /\ body[x].contest = body[r].contest /\ KeyOf(x) = KeyOf(r)
      BY <3>2 DEF TallyRowsFor
    <3>4. PICK s \in {"counted", "refused"} : Goto(r, s)
      BY <3>1 DEF GotoIf
    <3> QED BY <2>2, <3>1, <3>3, <3>4, TallyMoves
  <2> QED BY <2>1, <2>2
<1>10. CASE WriteTally(r)
  <2> DEFINE x == target[r]
             n == Incremented(r)
  <2>1. /\ pc[r] = "counted" /\ Goto(r, "tallied") /\ (x # NoRow => TallyRowFree(r))
        /\ count' = [count EXCEPT ![r] = n] /\ target' = target
        /\ UNCHANGED <<body, votes, tally>>
    BY <1>10 DEF WriteTally, boxVars
  <2>2. x \in Requests \cup {NoRow} /\ target' = [target EXCEPT ![r] = x]
    BY <2>1 DEF TypeOK
  <2>3. x # NoRow => /\ tally[x] > 0 /\ KeyOf(r) # NoKey
                     /\ body[x].contest = body[r].contest /\ KeyOf(x) = KeyOf(r)
    BY <2>1 DEF TallyInv, TargetsFit, Counting, RowFound
  <2>4. x = NoRow => tally[r] = 0
    BY <2>1 DEF LeavesInv, RowsCommitted, TypeOK
  <2>5. n = tally[IF x = NoRow THEN r ELSE x] + 1
    BY <2>4 DEF Incremented
  <2>6. x # NoRow => \A q \in Requests : pc[q] = "tallied" => target[q] # x
    BY <2>1 DEF TallyRowFree
  <2> HIDE DEF x, n
  <2> QED BY <2>1, <2>2, <2>3, <2>5, <2>6, TallyMoves
<1>11. CASE CommitVote(r)
  BY <1>11, TallyCommit
<1> QED
  BY <1>1, <1>2, <1>3, <1>4, <1>5, <1>6, <1>7, <1>8, <1>9, <1>10, <1>11 DEF RequestStep

(* Every step of the system keeps it.                                      *)
LEMMA TallyStep ==
    ASSUME TypeOK, LeavesInv, TallyInv, [Next]_vars
    PROVE  TallyInv'
<1>1. ASSUME UNCHANGED <<reqVars, boxVars>>
      PROVE  TallyInv'
  BY <1>1 DEF TallyInv, TargetsFit, Counting, RowFound, WrittenOnTop, RowsHeldApart, RowsCount,
     CountedOn, KeyOf, RowOf, reqVars, boxVars
<1>2. CASE UNCHANGED vars
  BY <1>1, <1>2 DEF vars
<1>3. ASSUME NEW t \in Tokens, NEW c \in Contests, NEW a \in Areas \cup {None}, IssueToken(t, c, a)
      PROVE  TallyInv'
  BY <1>1, <1>3 DEF IssueToken
<1>4. ASSUME NEW r \in Requests, Fail(r)
      PROVE  TallyInv'
  BY <1>4, TallyPasses DEF Fail, InFlight, boxVars, Stages
<1>5. ASSUME NEW r \in Requests, NEW b \in Bodies, Submit(r, b)
      PROVE  TallyInv'
  <2>1. \A q \in Requests : pc[q] # "idle" => body'[q] = body[q]
    BY <1>5 DEF Submit, TypeOK
  <2> QED BY <1>5, <2>1, TallyPasses DEF Submit, boxVars, Counting, Stages
<1> QED
  BY <1>1, <1>2, <1>3, <1>4, <1>5, TallyRequestStep DEF Next, Environment

(* Whatever requests overlap, fail or insert a row twice, every tally row  *)
(* counts exactly the committed votes that were counted on it, all for the *)
(* same candidate or choice of the same contest.                           *)
THEOREM TalliesAddUp == Spec => []TallyMatchesVotes
<1>1. TypeOK /\ LeavesInv /\ TallyInv => TallyMatchesVotes
  <2> SUFFICES ASSUME TypeOK, LeavesInv, TallyInv, NEW q \in Requests
               PROVE  /\ tally[q] = Cardinality(CountedOn(q))
                      /\ \A v \in CountedOn(q) :
                            q \in votes /\ body[q].contest = body[v].contest /\ KeyOf(q) = KeyOf(v)
    BY DEF TallyMatchesVotes
  <2>1. tally[q] = Cardinality(CountedOn(q))
    BY DEF TallyInv, RowsCount
  <2>2. ASSUME NEW v \in CountedOn(q)
        PROVE  q \in votes /\ body[q].contest = body[v].contest /\ KeyOf(q) = KeyOf(v)
    <3>1. v \in votes /\ v \in Requests /\ pc[v] = "committed" /\ q = RowOf(v)
      BY DEF CountedOn, LeavesInv, WrittenTogether
    <3>2. CASE target[v] = NoRow
      BY <3>1, <3>2 DEF RowOf
    <3>3. CASE target[v] # NoRow
      <4>1. q = target[v] /\ RowFound(v)
        BY <3>1, <3>3 DEF RowOf, TallyInv, TargetsFit, Counting
      <4>2. q \in votes
        BY <4>1 DEF RowFound, LeavesInv, RowsCommitted, WrittenTogether
      <4> QED BY <4>1, <4>2 DEF RowFound
    <3> QED BY <3>2, <3>3
  <2> QED BY <2>1, <2>2
<1>2. TypeOK /\ LeavesInv /\ TallyInv /\ [Next]_vars => LeavesInv' /\ TallyInv'
  BY LeavesStep, TallyStep
<1> QED BY LeavesInit, TallyInit, TypeCorrect, <1>1, <1>2, PTL DEF Spec
-----------------------------------------------------------------------------
(***************************************************************************)
(* Results requests, audit reports and restarts beside voting: none of     *)
(* them touches what a vote has written.                                   *)
(***************************************************************************)
BackInv == TypeOK /\ LeavesInv /\ JudgedInv

(* The votes that are committed stay, with all that was found about them.  *)
VotesStand ==
    /\ votes \subseteq votes'
    /\ \A q \in votes : body'[q] = body[q] /\ at'[q] = at[q] /\ seenRow'[q] = seenRow[q]

(* What a read of results may change: contest rows and their locks.        *)
LEMMA ReaderFrame ==
    ASSUME TypeOK, NEW g \in Readers, ReaderStep(g)
    PROVE  /\ UNCHANGED <<now, writer, closedByHand, reqVars, issued, boxVars>>
           /\ contest' \in [Contests -> Rows]
           /\ rowLock' \in [Contests -> Lockers \cup {NoLocker}]
           /\ \A c \in Contests, r \in Requests : rowLock'[c] = r => rowLock[c] = r
<1>1. /\ contest \in [Contests -> Rows] /\ rowLock \in [Contests -> Lockers \cup {NoLocker}]
      /\ g \in Lockers /\ g \notin Requests /\ NoLocker \notin Requests
  BY ReaderAssumption, LockerAssumption, RequestAssumption DEF TypeOK, LifeTypeOK
<1>2. ASSUME rowLock' = Release(g)
      PROVE  /\ rowLock' \in [Contests -> Lockers \cup {NoLocker}]
             /\ \A c \in Contests, r \in Requests : rowLock'[c] = r => rowLock[c] = r
  BY <1>1, <1>2 DEF Release
<1>3. CASE UNCHANGED vars
  BY <1>1, <1>3 DEF vars, lifeVars, reqVars, boxVars
<1>4. CASE SyncThenGate(g)
  <2>1. /\ UNCHANGED <<othersVars, reqVars, issued, boxVars>>
        /\ \/ rowLock' = rowLock
           \/ rowLock' = [rowLock EXCEPT ![reader[g].on] = g]
    <3> DEFINE passed == PastGate([reader[g].seen EXCEPT
                                     !.status = ImpliedStatus(now, reader[g].seen)])
    <3>1. /\ UNCHANGED <<othersVars, reqVars, issued, boxVars>>
          /\ rowLock' = [rowLock EXCEPT ![reader[g].on] = IF passed THEN g ELSE @]
      BY <1>4 DEF SyncThenGate
    <3>2. CASE passed
      BY <3>1, <3>2
    <3>3. CASE ~passed
      BY <1>1, <3>1, <3>3
    <3> QED BY <3>1, <3>2, <3>3
  <2> QED BY <1>1, <2>1 DEF othersVars
<1>5. CASE Answer(g)
  <2>1. [c \in Contests |-> IF rowLock[c] = g THEN [contest[c] EXCEPT !.status = "CLOSED"]
                            ELSE contest[c]] \in [Contests -> Rows]
    BY <1>1 DEF Rows, Statuses
  <2> QED BY <1>2, <1>5, <2>1 DEF Answer
<1>6. CASE ReadFails(g)
  BY <1>1, <1>2, <1>6 DEF ReadFails, othersVars
<1> QED
  BY <1>3, <1>4, <1>5, <1>6 DEF ReaderStep, Ask, Gate, CacheHit, CacheMiss, ReadElection,
     Compute, Store

(* The invariants of voting survive reads, reports, cases and restarts.    *)
LEMMA BackQuiet ==
    ASSUME BackInv, UNCHANGED <<now, writer, closedByHand, reqVars, issued, boxVars>>,
           contest' \in [Contests -> Rows],
           rowLock' \in [Contests -> Lockers \cup {NoLocker}],
           \A c \in Contests, r \in Requests : rowLock'[c] = r => rowLock[c] = r
    PROVE  BackInv'
<1>1. TypeOK'
  BY DEF BackInv, TypeOK, LifeTypeOK, reqVars, boxVars
<1>2. LeavesInv'
  BY DEF BackInv, LeavesInv, WrittenTogether, RowsCommitted, LocksInFlight, TokenOf,
     reqVars, boxVars
<1>3. JudgedInv'
  BY DEF BackInv, JudgedInv, Judged, TokensSound, Entitled, TokenMatches, NamesKnown,
     WithinWindow, reqVars, boxVars
<1> QED BY <1>1, <1>2, <1>3 DEF BackInv

(* A restart refuses every request in progress.                            *)
LEMMA BackRestart ==
    ASSUME BackInv, Restart
    PROVE  BackInv' /\ VotesStand
<1>1. /\ pc' = [r \in Requests |-> IF InFlight(r) THEN "refused" ELSE pc[r]]
      /\ rowLock' = [c \in Contests |-> NoLocker]
      /\ writer' = [w \in Writers |-> NoWork]
      /\ UNCHANGED <<now, contest, closedByHand, body, at, seenRow, target, count, issued, boxVars>>
  BY DEF Restart
<1>2. TypeOK'
  <2>1. LifeTypeOK'
    BY <1>1, NoWorkType DEF BackInv, TypeOK, LifeTypeOK
  <2>2. pc' \in [Requests -> Stages] /\ \A r \in Requests : body[r] = NoBody <=> pc'[r] = "idle"
    BY <1>1 DEF BackInv, TypeOK, Stages, InFlight
  <2> QED BY <1>1, <2>1, <2>2 DEF BackInv, TypeOK, boxVars
<1>3. \A r \in Requests : (pc'[r] = "committed" <=> pc[r] = "committed")
                            /\ pc'[r] \in {"idle", "committed", "refused"}
  BY <1>1 DEF InFlight
<1>4. LeavesInv'
  <2>1. WrittenTogether'
    BY <1>1, <1>3 DEF BackInv, LeavesInv, WrittenTogether, TokenOf, boxVars
  <2>2. RowsCommitted'
    BY <1>1, <1>3 DEF BackInv, TypeOK, LeavesInv, RowsCommitted, boxVars
  <2>3. LocksInFlight'
    BY <1>1, LockerAssumption, RequestAssumption DEF LocksInFlight
  <2> QED BY <2>1, <2>2, <2>3 DEF LeavesInv
<1>5. JudgedInv'
  <2>1. ASSUME NEW r \in Requests, pc'[r] # "committed"
        PROVE  pc'[r] \notin Begun \cup FoundOpen \cup FoundEntitled \cup TokenChecked
    BY <1>3, <2>1 DEF Begun, FoundOpen, FoundEntitled, TokenChecked, PastOpen, PastLedger, PastToken
  <2>2. Judged'
    <3> SUFFICES ASSUME NEW r \in Requests, pc[r] = "committed"
                 PROVE  /\ pc[r] \in Begun => at[r] # NoTime
                        /\ pc[r] \in FoundOpen => WithinWindow(at[r], seenRow[r])'
                        /\ pc[r] \in FoundEntitled => Entitled(r)'
                        /\ pc[r] \in TokenChecked => TokenMatches(r)' /\ NamesKnown(r)'
      BY <1>1, <1>3, <2>1 DEF Judged
    <3> QED BY <1>1 DEF BackInv, JudgedInv, Judged, WithinWindow, Entitled, TokenMatches, NamesKnown
  <2> QED BY <1>1, <1>3, <2>2 DEF BackInv, JudgedInv, TokensSound, boxVars
<1> QED BY <1>1, <1>2, <1>4, <1>5 DEF BackInv, VotesStand, boxVars

(* Voting itself never changes what is committed.                          *)
LEMMA VotesStandNext ==
    ASSUME BackInv, Next
    PROVE  VotesStand
<1>1. /\ \A q \in votes : q \in Requests /\ pc[q] = "committed"
      /\ body \in [Requests -> Bodies \cup {NoBody}] /\ at \in [Requests -> Instants]
      /\ seenRow \in [Requests -> Rows]
  BY DEF BackInv, LeavesInv, WrittenTogether, TypeOK
<1>2. CASE Environment
  BY <1>2 DEF Environment, IssueToken, Fail, reqVars, boxVars, VotesStand
<1>3. ASSUME NEW r \in Requests, NEW b \in Bodies, Submit(r, b)
      PROVE  VotesStand
  BY <1>1, <1>3 DEF Submit, boxVars, VotesStand
<1>4. ASSUME NEW r \in Requests, RequestStep(r)
      PROVE  VotesStand
  <2>1. CASE Begin(r)
    BY <1>1, <2>1 DEF Begin, boxVars, VotesStand
  <2>2. CASE ReadContest(r)
    BY <1>1, <2>2 DEF ReadContest, boxVars, VotesStand
  <2>3. CASE CommitVote(r)
    BY <2>3 DEF CommitVote, VotesStand
  <2> QED
    BY <1>4, <2>1, <2>2, <2>3 DEF RequestStep, IssueOwnToken, CheckOpen, SyncThenCheck,
       CheckVoter, CheckToken, MarkToken, FindTally, WriteTally, boxVars, VotesStand
<1> QED BY <1>2, <1>3, <1>4 DEF Next

(* The invariants of voting hold of the whole system, and what is          *)
(* committed stays.                                                        *)
LEMMA BackStep ==
    ASSUME BackInv, [AuditNext]_auditVars
    PROVE  BackInv' /\ VotesStand
<1>1. CASE Next
  BY <1>1, RequestStepType, EnvironmentType, SubmitType, LeavesStep, JudgedStep, VotesStandNext
     DEF BackInv, Next
<1>2. ASSUME NEW g \in Readers, ReaderStep(g)
      PROVE  BackInv' /\ VotesStand
  <2>1. BackInv'
    BY <1>2, ReaderFrame, BackQuiet DEF BackInv
  <2>2. VotesStand
    BY <1>2, ReaderFrame DEF BackInv, VotesStand, reqVars, boxVars
  <2> QED BY <2>1, <2>2
<1>3. CASE Restart
  BY <1>3, BackRestart
<1>4. CASE UNCHANGED vars
  <2>1. BackInv'
    BY <1>4, StutterType, LeavesStep, JudgedStep DEF BackInv
  <2> QED BY <1>4, <2>1 DEF VotesStand, vars, reqVars, boxVars
<1> QED
  BY <1>1, <1>2, <1>3, <1>4 DEF AuditNext, ResultsNext, auditVars, allVars

(* They hold at the start.                                                 *)
LEMMA BackInit == AuditInit => BackInv
BY TypeInit, LeavesInit, JudgedInit DEF AuditInit, ResultsInit, BackInv

(* They hold always.                                                       *)
LEMMA BackInvariant == AuditSpec => []BackInv
BY BackInit, BackStep, PTL DEF AuditSpec

(***************************************************************************)
(* One section of a report rests on the one before: what each stage of a   *)
(* report knows about the rows that are committed by now.                  *)
(***************************************************************************)
ResultStages == {"asked", "closed", "missed", "judged", "computed", "answered"}
AfterUsage == {"usage", "period", "reported"}
AfterLedger == {"turnout", "issuance"} \cup AfterUsage
ReportStages == {"headed", "events"} \cup AfterLedger

ReaderShape ==
    /\ openings \in [Contests -> Nat]
    /\ DOMAIN reader = Readers
    /\ \A g \in Readers :
         /\ reader[g].stage \in {"idle"} \cup ResultStages \cup ReportStages
         /\ reader[g].stage # "idle" => reader[g].on \in Contests
         /\ reader[g].stage = "closed" =>
               reader[g] \in [stage : {"closed"}, on : Contests, since : Nat \cup {NoOpening}]

TokensDoubled(c) == \E p, q \in VotesIn(c) : p # q /\ TokenOf(p) = TokenOf(q)

TimesDiffer(c, row) ==
    \E q \in VotesIn(c) : seenRow[q].opens # row.opens \/ seenRow[q].closes # row.closes

Founded(g) ==
    LET r == reader[g] IN
    /\ r.stage \in ReportStages \ {"headed"} => r.opened \subseteq CasesOf(r.on)
    /\ r.stage = "events" => r.cast \subseteq VotesIn(r.on)
    /\ r.stage \in AfterLedger => r.cast \subseteq r.voted /\ r.voted \subseteq VotesIn(r.on)
    /\ r.stage = "issuance" =>
          IsFiniteSet(r.tokens) /\ \A q \in r.voted : TokenOf(q) \in r.tokens
    /\ r.stage \in AfterUsage /\ ~r.reconciled => VotesIn(r.on) # r.voted \/ TokensDoubled(r.on)
    /\ r.stage \in {"period", "reported"} =>
          r.voted \subseteq r.recorded /\ (~r.inWindow => TimesDiffer(r.on, r.row))
    /\ r.stage = "reported" /\ Method[r.on] # "REFERENDUM" => r.opened \subseteq r.listed

FoundedInv == ReaderShape /\ \A g \in Readers : Founded(g)

(* It holds at the start.                                                  *)
LEMMA FoundedInit == AuditInit => FoundedInv
BY DEF AuditInit, ResultsInit, FoundedInv, ReaderShape, Founded, NoAsk, ResultStages,
   ReportStages, AfterLedger, AfterUsage

CasesStand == \A c \in Contests : CasesOf(c) \subseteq CasesOf(c)'

(* What a report rests on is still there after any step.                   *)
LEMMA FoundedStays ==
    ASSUME ReaderShape, VotesStand, CasesStand, NEW g \in Readers, Founded(g),
           reader'[g] = reader[g]
    PROVE  Founded(g)'
<1> USE DEF ReportStages, AfterLedger, AfterUsage
<1> DEFINE r == reader[g]
<1>1. \A q \in votes : TokenOf(q)' = TokenOf(q)
  BY DEF VotesStand, TokenOf
<1>2. \A c : VotesIn(c) \subseteq VotesIn(c)'
  BY DEF VotesStand, VotesIn
<1>3. \A c : \A q \in VotesIn(c) : q \in votes
  BY DEF VotesIn
<1>4. r.stage # "idle" => r.on \in Contests
  BY DEF ReaderShape
<1>5. r.stage \in ReportStages \ {"headed"} => r.opened \subseteq CasesOf(r.on)'
  BY <1>4 DEF Founded, CasesStand
<1>6. r.stage = "events" => r.cast \subseteq VotesIn(r.on)'
  BY <1>2 DEF Founded
<1>7. r.stage \in AfterLedger => r.cast \subseteq r.voted /\ r.voted \subseteq VotesIn(r.on)'
  BY <1>2 DEF Founded
<1>8. r.stage = "issuance" =>
         IsFiniteSet(r.tokens) /\ \A q \in r.voted : TokenOf(q)' \in r.tokens
  BY <1>1, <1>3 DEF Founded
<1>9. TokensDoubled(r.on) => TokensDoubled(r.on)'
  BY <1>1, <1>2, <1>3 DEF TokensDoubled
<1>10. r.stage \in AfterUsage /\ VotesIn(r.on) # r.voted => VotesIn(r.on)' # r.voted
  BY <1>2 DEF Founded
<1>11. TimesDiffer(r.on, r.row) => TimesDiffer(r.on, r.row)'
  <2>1. \A q \in votes : seenRow'[q] = seenRow[q]
    BY DEF VotesStand
  <2> QED BY <1>2, <1>3, <2>1 DEF TimesDiffer
<1>12. r.stage \in AfterUsage /\ ~r.reconciled => VotesIn(r.on)' # r.voted \/ TokensDoubled(r.on)'
  BY <1>9, <1>10 DEF Founded
<1>13. r.stage \in {"period", "reported"} =>
          r.voted \subseteq r.recorded /\ (~r.inWindow => TimesDiffer(r.on, r.row)')
  BY <1>11 DEF Founded
<1>14. r.stage = "reported" /\ Method[r.on] # "REFERENDUM" => r.opened \subseteq r.listed
  BY DEF Founded
<1> QED BY <1>5, <1>6, <1>7, <1>8, <1>12, <1>13, <1>14 DEF Founded, TokensDoubled, TimesDiffer

(* A read that is no report, or one that is done, has nothing to show.     *)
LEMMA NothingShown ==
    ASSUME NEW g \in Readers, reader[g].stage \in {"idle", "headed"} \cup ResultStages
    PROVE  Founded(g)
BY DEF Founded, ResultStages, ReportStages, AfterLedger, AfterUsage

(* A token marked as used was spent by a vote of its own contest.          *)
LEMMA UsedByVotes ==
    ASSUME BackInv, NEW c \in Contests
    PROVE  UsedOf(c) = {TokenOf(q) : q \in VotesIn(c)}
<1>1. ASSUME NEW q \in votes
      PROVE  ContestOf(TokenOf(q)) = body[q].contest
  <2>1. q \in Requests /\ pc[q] = "committed" /\ body[q] \in Bodies
    BY DEF BackInv, LeavesInv, WrittenTogether, TypeOK
  <2>2. TokenMatches(q)
    BY <2>1 DEF BackInv, JudgedInv, Judged, TokenChecked
  <2>3. CASE body[q].kind = "vote"
    BY <2>1, <2>3, TokenAssumption DEF TokenOf, ContestOf
  <2>4. CASE body[q].kind # "vote"
    <3>1. body[q].kind = "cast" /\ body[q].token \in Tokens
      BY <2>1, <2>4 DEF Bodies
    <3> QED BY <2>2, <2>4, <3>1 DEF TokenOf, ContestOf, TokenMatches
  <2> QED BY <2>3, <2>4
<1>2. used = {TokenOf(q) : q \in votes}
  BY DEF BackInv, LeavesInv, WrittenTogether
<1> QED BY <1>1, <1>2 DEF UsedOf, VotesIn

(* The tokens of a contest are finitely many, those of its votes included. *)
LEMMA TokensOfVotes ==
    ASSUME BackInv, NEW c \in Contests
    PROVE  IsFiniteSet(TokensOf(c)) /\ \A q \in VotesIn(c) : TokenOf(q) \in TokensOf(c)
<1>1. IsFiniteSet(TokensOf(c))
  <2>1. TokensOf(c) \subseteq Tokens \cup Requests
    BY DEF TokensOf, BackInv, TypeOK
  <2> QED BY <2>1, FiniteAssumption, FS_Union, FS_Subset
<1>2. ASSUME NEW q \in VotesIn(c)
      PROVE  TokenOf(q) \in TokensOf(c)
  <2>1. q \in votes /\ q \in Requests /\ pc[q] = "committed" /\ body[q] \in Bodies /\ body[q].contest = c
    BY DEF VotesIn, BackInv, LeavesInv, WrittenTogether, TypeOK
  <2>2. TokenMatches(q)
    BY <2>1 DEF BackInv, JudgedInv, Judged, TokenChecked
  <2>3. CASE body[q].kind = "vote"
    BY <2>1, <2>3 DEF TokenOf, TokensOf
  <2>4. CASE body[q].kind # "vote"
    <3>1. body[q].kind = "cast" /\ body[q].token \in Tokens
      BY <2>1, <2>4 DEF Bodies
    <3> QED BY <2>1, <2>2, <2>4, <3>1 DEF TokenOf, TokensOf, TokenMatches
  <2> QED BY <2>3, <2>4
<1> QED BY <1>1, <1>2

(* When every vote has a token of its own there are as many as votes.      *)
LEMMA TokensPerVote ==
    ASSUME NEW S, IsFiniteSet(S), \A p, q \in S : TokenOf(p) = TokenOf(q) => p = q
    PROVE  Cardinality({TokenOf(q) : q \in S}) = Cardinality(S)
<1> DEFINE T == {TokenOf(q) : q \in S}
           f == [q \in S |-> TokenOf(q)]
<1>1. f \in Bijection(S, T)
  BY DEF Bijection, Injection, Surjection, IsInjective
<1>2. ExistsBijection(S, T)
  BY <1>1 DEF ExistsBijection
<1> QED BY <1>2, FS_Bijection

(* The file of cases: what is filed stays filed, and says why it is closed.*)
Says(row) == row.resolved /\ (row.summary = "text" \/ (row.summary = "empty" /\ Blanking # {}))

FileInv == file \in [Cases -> Investigations] /\ ResolvedSaysWhy

LEMMA FileInit == AuditInit => FileInv
BY DEF AuditInit, FileInv, ResolvedSaysWhy, NotFiled, Investigations, Summaries, CaseStatuses, Closing

LEMMA FileStep ==
    ASSUME FileInv, [AuditNext]_auditVars
    PROVE  FileInv' /\ CasesStand
<1>1. CASE file' = file
  BY <1>1 DEF FileInv, ResolvedSaysWhy, Blanking, CasesStand, CasesOf
<1>2. ASSUME NEW k \in Cases, file' = [file EXCEPT ![k] = file'[k]],
             file'[k] \in Investigations, file'[k] # NotFiled,
             file'[k].status \in Closing => Says(file'[k])
      PROVE  FileInv' /\ CasesStand
  <2>1. \A j \in Cases \ {k} : file'[j] = file[j]
    BY <1>2 DEF FileInv
  <2>2. file' \in [Cases -> Investigations]
    BY <1>2 DEF FileInv
  <2>3. CasesStand
    BY <1>2, <2>1 DEF CasesStand, CasesOf
  <2> QED BY <1>2, <2>1, <2>2, <2>3 DEF FileInv, ResolvedSaysWhy, Says, Blanking
<1>3. ASSUME NEW k \in Cases, CreateErrorReport(k)
      PROVE  FileInv' /\ CasesStand
  <2>1. file' = [file EXCEPT ![k] = [NotFiled EXCEPT !.status = "OPEN"]]
    BY <1>3 DEF CreateErrorReport
  <2>2. file'[k] = [NotFiled EXCEPT !.status = "OPEN"]
    BY <2>1 DEF FileInv
  <2>3. file'[k] = [status |-> "OPEN", summary |-> "none", resolved |-> FALSE]
    BY <2>2 DEF NotFiled
  <2>4. file'[k] \in Investigations
    BY <2>3 DEF Investigations, Summaries, CaseStatuses
  <2>5. file'[k].status = "OPEN" /\ file'[k] # NotFiled
    BY <2>3 DEF NotFiled
  <2>6. file' = [file EXCEPT ![k] = file'[k]]
    BY <2>1, <2>2
  <2> QED BY <1>2, <2>4, <2>5, <2>6 DEF Closing
<1>4. ASSUME NEW k \in Cases, NEW patch \in CasePatches, UpdateInvestigation(k, patch)
      PROVE  FileInv' /\ CasesStand
  <2> DEFINE old == file[k]
             new == [status |-> IF patch.status = NoStatus THEN old.status ELSE patch.status,
                     summary |-> IF patch.summary = "none" THEN old.summary ELSE patch.summary,
                     resolved |-> old.resolved \/ patch.status \in Closing]
  <2>1. /\ old \in Investigations /\ old # NotFiled /\ Explains(patch)
        /\ patch.status \in CaseStatuses \cup {NoStatus} /\ patch.summary \in Summaries
        /\ file' = [file EXCEPT ![k] = new] /\ file'[k] = new
    BY <1>4, CasePatchAssumption DEF UpdateInvestigation, FileInv, CaseUpdates
  <2>2. /\ old.status \in CaseStatuses \cup {"ABSENT"}
        /\ old.summary \in Summaries /\ old.resolved \in BOOLEAN
        /\ old = [status |-> old.status, summary |-> old.summary, resolved |-> old.resolved]
    BY <2>1 DEF Investigations
  <2>3. new \in Investigations
    BY <2>1, <2>2 DEF Investigations
  <2>4. new # NotFiled
    <3>1. CASE patch.status = NoStatus
      <4>1. patch.summary # "none"
        BY <1>4, <3>1 DEF UpdateInvestigation
      <4> QED BY <4>1 DEF NotFiled
    <3>2. CASE patch.status # NoStatus
      BY <2>1, <3>2 DEF NotFiled, CaseStatuses, Closing
    <3> QED BY <3>1, <3>2
  <2>5. /\ new.status = IF patch.status = NoStatus THEN old.status ELSE patch.status
        /\ new.summary = IF patch.summary = "none" THEN old.summary ELSE patch.summary
        /\ (old.resolved \/ patch.status \in Closing) => new.resolved
    OBVIOUS
  <2>6. old.status \in Closing => Says(old)
    BY <2>1 DEF FileInv, ResolvedSaysWhy, Says
  <2>7. file' = [file EXCEPT ![k] = file'[k]] /\ file'[k] = new
    BY <2>1
  <2> HIDE DEF old, new
  <2>8. ASSUME new.status \in Closing
        PROVE  Says(new)
    <3>1. CASE patch.status = NoStatus
      <4>1. Says(old)
        BY <2>5, <2>6, <2>8, <3>1
      <4>2. patch.summary = "empty" => patch \in Blanking
        BY <3>1 DEF Blanking
      <4> QED BY <2>1, <2>5, <4>1, <4>2 DEF Says, Summaries
    <3>2. CASE patch.status # NoStatus
      <4>1. patch.status \in Closing /\ patch.summary = "text"
        BY <2>1, <2>5, <2>8, <3>2 DEF Explains
      <4>2. new.summary = "text" /\ new.resolved
        BY <2>5, <4>1
      <4> QED BY <4>2 DEF Says
    <3> QED BY <3>1, <3>2
  <2> QED BY <1>2, <2>3, <2>4, <2>7, <2>8
<1> QED BY <1>1, <1>3, <1>4 DEF AuditNext, CaseStep, auditVars

(* Each section of a report is founded on what is committed when it is     *)
(* read.                                                                   *)
LEMMA FoundedReport ==
    ASSUME BackInv, FoundedInv, NEW g \in Readers, ReportStep(g),
           UNCHANGED <<vars, cache, openings, file>>
    PROVE  FoundedInv'
<1> USE DEF ReportStages, AfterLedger, AfterUsage, ResultStages
<1> DEFINE r == reader[g]
           s == reader'[g]
<1>1. /\ \A c : VotesIn(c)' = VotesIn(c) /\ CasesOf(c)' = CasesOf(c)
      /\ \A q : TokenOf(q)' = TokenOf(q)
      /\ VotesStand /\ CasesStand /\ seenRow' = seenRow
  BY DEF VotesIn, CasesOf, TokenOf, VotesStand, CasesStand, vars, reqVars, boxVars
<1>2. /\ DOMAIN reader = Readers /\ Founded(g)
      /\ r.stage # "idle" => r.on \in Contests
  BY DEF FoundedInv, ReaderShape
<1>3. ASSUME reader' = [reader EXCEPT ![g] = s],
             s.stage \in {"idle"} \cup ReportStages, s.stage # "idle" => s.on \in Contests,
             Founded(g)'
      PROVE  FoundedInv'
  <2>1. \A h \in Readers \ {g} : reader'[h] = reader[h]
    BY <1>2, <1>3
  <2>2. ReaderShape'
    BY <1>2, <1>3, <2>1 DEF FoundedInv, ReaderShape
  <2>3. \A h \in Readers \ {g} : Founded(h)'
    BY <1>1, <2>1, FoundedStays DEF FoundedInv
  <2> QED BY <1>3, <2>2, <2>3 DEF FoundedInv
<1>4. ASSUME NEW c \in Contests, AskReport(g, c)
      PROVE  FoundedInv'
  <2>1. reader' = [reader EXCEPT ![g] = s] /\ s = [stage |-> "headed", on |-> c, row |-> contest[c]]
    BY <1>2, <1>4 DEF AskReport
  <2> QED BY <1>3, <2>1 DEF Founded
<1>5. CASE CountEvents(g)
  <2>1. /\ reader' = [reader EXCEPT ![g] = s] /\ r.stage = "headed"
        /\ s = [stage |-> "events", on |-> r.on, row |-> r.row,
                cast |-> CastEvents(r.on), opened |-> CasesOf(r.on)]
    BY <1>2, <1>5 DEF CountEvents
  <2>2. CastEvents(r.on) \subseteq VotesIn(r.on)
    BY DEF CastEvents
  <2> QED BY <1>1, <1>2, <1>3, <2>1, <2>2 DEF Founded
<1>6. CASE CountLedger(g)
  <2>1. /\ reader' = [reader EXCEPT ![g] = s] /\ r.stage = "events"
        /\ s = [stage |-> "turnout", on |-> r.on, row |-> r.row, cast |-> r.cast,
                opened |-> r.opened, voted |-> LedgerOf(r.on)]
    BY <1>2, <1>6 DEF CountLedger
  <2>2. LedgerOf(r.on) = VotesIn(r.on)
    BY DEF LedgerOf, VotesIn, BackInv, LeavesInv, WrittenTogether
  <2> QED BY <1>1, <1>2, <1>3, <2>1, <2>2 DEF Founded
<1>7. CASE CountIssued(g)
  <2>1. /\ reader' = [reader EXCEPT ![g] = s] /\ r.stage = "turnout"
        /\ s = [stage |-> "issuance", on |-> r.on, row |-> r.row, cast |-> r.cast,
                opened |-> r.opened, voted |-> r.voted, tokens |-> TokensOf(r.on)]
    BY <1>2, <1>7 DEF CountIssued
  <2>2. IsFiniteSet(TokensOf(r.on)) /\ \A q \in VotesIn(r.on) : TokenOf(q) \in TokensOf(r.on)
    BY <1>2, <2>1, TokensOfVotes
  <2> QED BY <1>1, <1>2, <1>3, <2>1, <2>2 DEF Founded
<1>8. CASE CountUsed(g)
  <2>1. /\ reader' = [reader EXCEPT ![g] = s] /\ r.stage = "issuance"
        /\ s = [stage |-> "usage", on |-> r.on, row |-> r.row, cast |-> r.cast,
                opened |-> r.opened, voted |-> r.voted,
                reconciled |-> FullyReconciled(r.voted, r.tokens, UsedOf(r.on))]
    BY <1>2, <1>8 DEF CountUsed
  <2>2. ASSUME VotesIn(r.on) = r.voted, ~TokensDoubled(r.on)
        PROVE  FullyReconciled(r.voted, r.tokens, UsedOf(r.on))
    <3>1. UsedOf(r.on) = {TokenOf(q) : q \in VotesIn(r.on)}
      BY <1>2, <2>1, UsedByVotes
    <3>2. IsFiniteSet(VotesIn(r.on))
      <4>1. VotesIn(r.on) \subseteq Requests
        BY DEF VotesIn, BackInv, TypeOK
      <4> QED BY <4>1, FiniteAssumption, FS_Subset
    <3>3. Cardinality(UsedOf(r.on)) = Cardinality(r.voted)
      BY <2>2, <3>1, <3>2, TokensPerVote DEF TokensDoubled
    <3>4. UsedOf(r.on) \subseteq r.tokens /\ IsFiniteSet(r.tokens)
      BY <1>2, <2>1, <2>2, <3>1 DEF Founded
    <3>5. Cardinality(UsedOf(r.on)) <= Cardinality(r.tokens)
      BY <3>4, FS_Subset
    <3> QED BY <3>3, <3>5 DEF FullyReconciled
  <2>3. ~s.reconciled => VotesIn(r.on) # r.voted \/ TokensDoubled(r.on)
    BY <2>1, <2>2
  <2>4. TokensDoubled(r.on) => TokensDoubled(r.on)'
    BY <1>1, <2>1 DEF TokensDoubled
  <2>5. ~s.reconciled => VotesIn(r.on)' # s.voted \/ TokensDoubled(r.on)'
    BY <1>1, <2>1, <2>3, <2>4
  <2> QED BY <1>1, <1>2, <1>3, <2>1, <2>5 DEF Founded
<1>9. CASE CheckPeriod(g)
  <2>1. /\ reader' = [reader EXCEPT ![g] = s] /\ r.stage = "usage"
        /\ s = [stage |-> "period", on |-> r.on, row |-> r.row, cast |-> r.cast,
                opened |-> r.opened, voted |-> r.voted, reconciled |-> r.reconciled,
                recorded |-> VotesIn(r.on),
                inWindow |-> \A q \in VotesIn(r.on) : InPeriod(q, r.row)]
    BY <1>2, <1>9 DEF CheckPeriod
  <2>2. \A q \in VotesIn(r.on) : WithinWindow(at[q], seenRow[q])
    BY DEF VotesIn, BackInv, LeavesInv, WrittenTogether, JudgedInv, Judged, FoundOpen
  <2>3. ~s.inWindow => TimesDiffer(r.on, r.row)
    BY <2>1, <2>2 DEF TimesDiffer, InPeriod, WithinWindow
  <2>4. /\ TokensDoubled(r.on) => TokensDoubled(r.on)'
        /\ TimesDiffer(r.on, r.row) => TimesDiffer(r.on, r.row)'
    BY <1>1, <2>1 DEF TokensDoubled, TimesDiffer
  <2>5. ~s.inWindow => TimesDiffer(r.on, r.row)'
    BY <2>1, <2>3, <2>4
  <2>6. ~s.reconciled => VotesIn(r.on)' # s.voted \/ TokensDoubled(r.on)'
    BY <1>1, <1>2, <2>1, <2>4 DEF Founded
  <2> QED BY <1>1, <1>2, <1>3, <2>1, <2>5, <2>6 DEF Founded
<1>10. CASE ListInvestigations(g)
  <2>1. /\ reader' = [reader EXCEPT ![g] = s] /\ r.stage = "period"
        /\ s = [stage |-> "reported", on |-> r.on, row |-> r.row, cast |-> r.cast,
                opened |-> r.opened, voted |-> r.voted, reconciled |-> r.reconciled,
                recorded |-> r.recorded, inWindow |-> r.inWindow,
                listed |-> ListedCases(r.on)]
    BY <1>2, <1>10 DEF ListInvestigations
  <2>2. Method[r.on] # "REFERENDUM" => r.opened \subseteq ListedCases(r.on)
    BY <1>2, <2>1 DEF Founded, ListedCases
  <2>3. /\ TokensDoubled(r.on) => TokensDoubled(r.on)'
        /\ TimesDiffer(r.on, r.row) => TimesDiffer(r.on, r.row)'
    BY <1>1, <2>1 DEF TokensDoubled, TimesDiffer
  <2>4. ~s.inWindow => TimesDiffer(r.on, r.row)'
    BY <1>2, <2>1, <2>3 DEF Founded
  <2>5. ~s.reconciled => VotesIn(r.on)' # s.voted \/ TokensDoubled(r.on)'
    BY <1>1, <1>2, <2>1, <2>3 DEF Founded
  <2> QED BY <1>1, <1>2, <1>3, <2>1, <2>2, <2>4, <2>5 DEF Founded
<1>11. CASE Deliver(g)
  <2>1. reader' = [reader EXCEPT ![g] = s] /\ s = NoAsk
    BY <1>2, <1>11 DEF Deliver
  <2> QED BY <1>3, <2>1 DEF Founded, NoAsk
<1> QED
  BY <1>4, <1>5, <1>6, <1>7, <1>8, <1>9, <1>10, <1>11 DEF ReportStep

(* A read of results moves one reader among the stages of such reads.      *)
LEMMA ReaderMoves ==
    ASSUME ReaderShape, NEW g \in Readers, ReaderStep(g)
    PROVE  /\ reader' = [reader EXCEPT ![g] = reader'[g]]
           /\ reader'[g].stage \in {"idle"} \cup ResultStages
           /\ reader'[g].stage # "idle" => reader'[g].on \in Contests
           /\ reader'[g].stage = "closed" =>
                 reader'[g] \in [stage : {"closed"}, on : Contests, since : Nat \cup {NoOpening}]
<1> USE DEF ResultStages
<1> DEFINE r == reader[g]
<1>1. DOMAIN reader = Readers /\ (r.stage # "idle" => r.on \in Contests)
  BY DEF ReaderShape
<1>2. ASSUME NEW x, reader' = [reader EXCEPT ![g] = x]
      PROVE  reader' = [reader EXCEPT ![g] = reader'[g]] /\ reader'[g] = x
  BY <1>1, <1>2
<1>3. ASSUME NEW row, Admitted(g, row), r.stage = "asked"
      PROVE  /\ reader' = [reader EXCEPT ![g] = reader'[g]]
             /\ reader'[g].stage \in {"idle"} \cup ResultStages
             /\ reader'[g].stage # "idle" => reader'[g].on \in Contests
             /\ reader'[g].stage = "closed" =>
                   reader'[g] \in [stage : {"closed"}, on : Contests, since : Nat \cup {NoOpening}]
  <2>1. CASE PastGate(row)
    <3>1. reader' = [reader EXCEPT ![g] =
              [stage |-> "closed", on |-> r.on, since |-> ComesAfter(r.on, row.status)]]
      BY <1>3, <2>1 DEF Admitted
    <3> DEFINE x == [stage |-> "closed", on |-> r.on, since |-> ComesAfter(r.on, row.status)]
    <3>2. ComesAfter(r.on, row.status) \in Nat \cup {NoOpening}
      BY <1>1, <1>3 DEF ComesAfter, ReaderShape
    <3>3. /\ x \in [stage : {"closed"}, on : Contests, since : Nat \cup {NoOpening}]
          /\ x.stage = "closed" /\ x.on \in Contests
      BY <1>1, <1>3, <3>2
    <3>4. reader' = [reader EXCEPT ![g] = x]
      BY <3>1
    <3> HIDE DEF x
    <3>5. reader' = [reader EXCEPT ![g] = reader'[g]] /\ reader'[g] = x
      BY <1>2, <3>4
    <3> QED BY <3>3, <3>5
  <2>2. CASE ~PastGate(row)
    <3>1. reader' = [reader EXCEPT ![g] = NoAsk] /\ NoAsk.stage = "idle"
      BY <1>3, <2>2 DEF Admitted, NoAsk
    <3>2. reader' = [reader EXCEPT ![g] = reader'[g]] /\ reader'[g] = NoAsk
      BY <1>2, <3>1
    <3> QED BY <3>1, <3>2
  <2> QED BY <2>1, <2>2
<1>4. ASSUME NEW c \in Contests, Ask(g, c)
      PROVE  /\ reader' = [reader EXCEPT ![g] = reader'[g]]
             /\ reader'[g].stage = "asked" /\ reader'[g].on = c
  <2> DEFINE x == [stage |-> "asked", on |-> c, seen |-> contest[c]]
  <2>1. reader' = [reader EXCEPT ![g] = x] /\ x.stage = "asked" /\ x.on = c
    BY <1>4 DEF Ask
  <2> HIDE DEF x
  <2> QED BY <1>2, <2>1
<1>5. ASSUME CacheHit(g) \/ Store(g)
      PROVE  /\ reader' = [reader EXCEPT ![g] = reader'[g]]
             /\ reader'[g].stage = "answered" /\ reader'[g].on = r.on /\ r.stage # "idle"
  BY <1>2, <1>5 DEF CacheHit, Store
<1>6. ASSUME CacheMiss(g)
      PROVE  /\ reader' = [reader EXCEPT ![g] = reader'[g]]
             /\ reader'[g].stage = "missed" /\ reader'[g].on = r.on /\ r.stage # "idle"
  <2>1. /\ r \in [stage : {"closed"}, on : Contests, since : Nat \cup {NoOpening}]
        /\ reader' = [reader EXCEPT ![g].stage = "missed"]
    BY <1>6 DEF CacheMiss, ReaderShape
  <2>2. reader' = [reader EXCEPT ![g] = [r EXCEPT !.stage = "missed"]]
    BY <2>1
  <2> DEFINE x == [r EXCEPT !.stage = "missed"]
  <2>3. x.stage = "missed" /\ x.on = r.on /\ r.stage = "closed"
    BY <2>1
  <2>4. reader' = [reader EXCEPT ![g] = x]
    BY <2>2
  <2> HIDE DEF x
  <2> QED BY <1>2, <2>3, <2>4
<1>7. ASSUME ReadElection(g)
      PROVE  /\ reader' = [reader EXCEPT ![g] = reader'[g]]
             /\ reader'[g].stage = "judged" /\ reader'[g].on = r.on /\ r.stage # "idle"
  <2> DEFINE x == [stage |-> "judged", on |-> r.on,
                   since |-> ComesAfter(r.on, StatusSeenBy(g, r.on)),
                   keep |-> Cacheable(r.on, StatusSeenBy(g, r.on))]
  <2>1. /\ reader' = [reader EXCEPT ![g] = x] /\ x.stage = "judged" /\ x.on = r.on
        /\ r.stage = "missed"
    BY <1>7 DEF ReadElection
  <2> HIDE DEF x
  <2> QED BY <1>2, <2>1
<1>8. ASSUME Compute(g)
      PROVE  /\ reader' = [reader EXCEPT ![g] = reader'[g]]
             /\ reader'[g].stage = "computed" /\ reader'[g].on = r.on /\ r.stage # "idle"
  <2> DEFINE x == [stage |-> "computed", on |-> r.on, since |-> r.since,
                   keep |-> IF r.stage = "missed" THEN Cacheable(r.on, "CLOSED") ELSE r.keep,
                   counted |-> VotesIn(r.on), late |-> OnTheWay(r.on)]
  <2>1. /\ reader' = [reader EXCEPT ![g] = x] /\ x.stage = "computed" /\ x.on = r.on
        /\ r.stage \in {"judged", "missed"}
    BY <1>8 DEF Compute
  <2> HIDE DEF x
  <2> QED BY <1>2, <2>1
<1>9. ASSUME Answer(g) \/ ReadFails(g)
      PROVE  reader' = [reader EXCEPT ![g] = reader'[g]] /\ reader'[g].stage = "idle"
  BY <1>2, <1>9 DEF Answer, ReadFails, NoAsk
<1>10. CASE Gate(g) \/ SyncThenGate(g)
  BY <1>3, <1>10 DEF Gate, SyncThenGate
<1> QED
  BY <1>1, <1>4, <1>5, <1>6, <1>7, <1>8, <1>9, <1>10 DEF ReaderStep

(* Every step of the system keeps what reports are founded on.             *)
LEMMA FoundedStep ==
    ASSUME BackInv, FoundedInv, VotesStand, CasesStand, [AuditNext]_auditVars
    PROVE  FoundedInv'
<1>1. DOMAIN reader = Readers /\ openings \in [Contests -> Nat]
  BY DEF FoundedInv, ReaderShape
<1>2. CountOpenings => openings' \in [Contests -> Nat]
  BY <1>1 DEF CountOpenings
<1>3. ASSUME reader' = reader, openings' \in [Contests -> Nat]
      PROVE  FoundedInv'
  <2>1. \A g \in Readers : Founded(g)'
    BY <1>3, FoundedStays DEF FoundedInv
  <2>2. ReaderShape'
    BY <1>3 DEF FoundedInv, ReaderShape
  <2> QED BY <2>1, <2>2 DEF FoundedInv
<1>4. ASSUME NEW g \in Readers, ReaderStep(g), CountOpenings
      PROVE  FoundedInv'
  <2>1. /\ reader' = [reader EXCEPT ![g] = reader'[g]]
        /\ reader'[g].stage \in {"idle"} \cup ResultStages
        /\ reader'[g].stage # "idle" => reader'[g].on \in Contests
        /\ reader'[g].stage = "closed" =>
              reader'[g] \in [stage : {"closed"}, on : Contests, since : Nat \cup {NoOpening}]
    BY <1>4, ReaderMoves DEF FoundedInv
  <2>2. \A h \in Readers \ {g} : reader'[h] = reader[h]
    BY <1>1, <2>1
  <2>3. ReaderShape'
    BY <1>1, <1>2, <1>4, <2>1, <2>2 DEF FoundedInv, ReaderShape
  <2>4. \A h \in Readers \ {g} : Founded(h)'
    BY <2>2, FoundedStays DEF FoundedInv
  <2>5. Founded(g)'
    BY <2>1 DEF Founded, ResultStages, ReportStages, AfterLedger, AfterUsage
  <2> QED BY <2>3, <2>4, <2>5 DEF FoundedInv
<1>5. ASSUME Restart, CountOpenings
      PROVE  FoundedInv'
  <2>1. reader' = [g \in Readers |-> NoAsk]
    BY <1>5 DEF Restart
  <2>2. ReaderShape'
    BY <1>2, <1>5, <2>1 DEF ReaderShape, NoAsk
  <2>3. \A g \in Readers : Founded(g)'
    BY <2>1 DEF Founded, NoAsk, ReportStages, AfterLedger, AfterUsage
  <2> QED BY <2>2, <2>3 DEF FoundedInv
<1>6. CASE UNCHANGED allVars
  BY <1>1, <1>3, <1>6 DEF allVars, resultVars
<1> QED
  BY <1>1, <1>2, <1>3, <1>4, <1>5, <1>6, FoundedReport DEF AuditNext, ResultsNext, auditVars

(* The invariants of the whole system.                                     *)
LEMMA AuditInvariant == AuditSpec => [](BackInv /\ FileInv /\ FoundedInv)
<1>1. BackInv /\ FileInv /\ FoundedInv /\ [AuditNext]_auditVars
        => BackInv' /\ FileInv' /\ FoundedInv'
  BY BackStep, FileStep, FoundedStep
<1> QED BY BackInit, FileInit, FoundedInit, <1>1, PTL DEF AuditSpec

(* A report fails to reconcile only when a vote came in between, or when   *)
(* one token has paid for two votes: for any number of voters, tokens,     *)
(* requests, reports, failures and restarts.                               *)
THEOREM NoFalseAlarm == AuditSpec => []ReportReconciles
<1>1. FoundedInv => ReportReconciles
  BY DEF FoundedInv, Founded, ReportReconciles, TokensDoubled, AfterUsage
<1> QED BY AuditInvariant, <1>1, PTL

(* A vote outside the window a report shows was judged by another window.  *)
THEOREM BreachesExplained == AuditSpec => []WindowBreachExplained
<1>1. FoundedInv => WindowBreachExplained
  BY DEF FoundedInv, Founded, WindowBreachExplained, TimesDiffer
<1> QED BY AuditInvariant, <1>1, PTL

(* The later sections of a report hold what the earlier ones speak of,     *)
(* a referendum's events speaking of no vote.                              *)
THEOREM SectionsAgree == AuditSpec => []ReportNeverForgets
<1>1. FoundedInv => ReportNeverForgets
  BY DEF FoundedInv, Founded, ReportNeverForgets, AfterLedger, AfterUsage
<1> QED BY AuditInvariant, <1>1, PTL

(* Investigations that are over say since when, and why unless an update   *)
(* that leaves the status alone blanked it, in any order of the requests   *)
(* that update them.                                                       *)
THEOREM ClosedCasesExplained == AuditSpec => []ResolvedSaysWhy
BY AuditInvariant, PTL DEF FileInv
-----------------------------------------------------------------------------
(***************************************************************************)
(* The cache of results.  A result computed after the contest was judged   *)
(* closed counts every vote, or has it in sight: a vote that read the row  *)
(* later read it closed, or about to be closed by its schedule, and is     *)
(* going to be turned away unless the contest comes to be open again.      *)
(***************************************************************************)
TurnedAway(v) ==
    \E t \in Nat : at[v] <= t /\ t <= now /\ Synced(t, seenRow[v]).status # "OPEN"

Accounted(c, counted, late, v) ==
    body[v] # NoBody /\ body[v].contest = c =>
        /\ v \in votes => v \in counted \cup late
        /\ pc[v] \in PastOpen => v \in late
        /\ pc[v] = "seen" => v \in late \/ TurnedAway(v)

Behind(c, since) == since = openings[c] => ~IsOpen(c)

Settled(c, since, counted, late) ==
    since = openings[c] =>
        ~IsOpen(c) /\ \A v \in Requests : Accounted(c, counted, late, v)

Sinces == Nat \cup {NoOpening}
Deciding == {"closed", "missed", "judged", "computed"}

Fresh(g) ==
    LET r == reader[g] IN
    /\ r.stage \in Deciding => r.since \in Sinces /\ r.since <= openings[r.on]
    /\ r.stage \in {"closed", "missed"} => Behind(r.on, r.since)
    /\ r.stage = "judged" /\ r.keep => Behind(r.on, r.since)
    /\ r.stage = "computed" /\ r.keep => Settled(r.on, r.since, r.counted, r.late)

(* A request takes its instant before anything else happens.               *)
Timely == \A v \in Requests : pc[v] \in {"begun", "seen"} => at[v] \in Nat /\ at[v] <= now

CacheSettled ==
    \A c \in Contests : cache[c] # NoResult =>
        /\ cache[c].since \in Sinces /\ cache[c].since <= openings[c]
        /\ Settled(c, cache[c].since, cache[c].counted, cache[c].late)

CacheInv == DOMAIN cache = Contests /\ Timely /\ (\A g \in Readers : Fresh(g)) /\ CacheSettled

(* It holds at the start.                                                  *)
LEMMA CacheInit == AuditInit => CacheInv
BY DEF AuditInit, ResultsInit, Init, CacheInv, Timely, Fresh, CacheSettled, NoAsk, Deciding

(* The window of a contest is an interval: a request that took its instant *)
(* before the contest was seen closed and checks afterwards is refused,    *)
(* whichever of the two checks it comes to.                                *)
LEMMA WindowIsConvex ==
    ASSUME NEW row \in Rows, NEW a \in Nat, NEW t \in Nat, NEW b \in Nat, a <= t, t <= b,
           WithinWindow(a, row), WithinWindow(b, row)
    PROVE  WithinWindow(t, row)
BY DEF WithinWindow, Rows, Instants

LEMMA TurnedAwayRefused ==
    ASSUME TypeOK, Timely, NEW v \in Requests, pc[v] = "seen", TurnedAway(v)
    PROVE  /\ ~SyncNeeded(now, seenRow[v]) => ~OpenFor(v, seenRow[v])
           /\ SyncNeeded(now, seenRow[v]) =>
                 ~OpenFor(v, [seenRow[v] EXCEPT !.status = ImpliedStatus(now, seenRow[v])])
<1> DEFINE row == seenRow[v]
<1>1. row \in Rows /\ now \in Nat /\ at[v] \in Nat /\ at[v] <= now
  BY TimeAssumption DEF TypeOK, LifeTypeOK, Timely
<1>2. PICK t \in Nat : at[v] <= t /\ t <= now /\ Synced(t, row).status # "OPEN"
  BY DEF TurnedAway
<1>3. WithinWindow(at[v], row) /\ WithinWindow(now, row) => WithinWindow(t, row)
  BY <1>1, <1>2, WindowIsConvex
<1>4. ASSUME ~SyncNeeded(now, row), OpenFor(v, row)
      PROVE  FALSE
  <2>1. row.status = "OPEN" /\ WithinWindow(at[v], row)
    BY <1>4 DEF OpenFor
  <2>2. SyncNeeded(t, row)
    BY <1>2, <2>1 DEF Synced
  <2>3. ImpliedStatus(t, row) = "CLOSED" /\ ~(row.opens = NoTime /\ row.closes = NoTime)
        /\ ~WithinWindow(t, row)
    BY <2>1, <2>2 DEF SyncNeeded, ImpliedStatus, NoStatus
  <2>4. WithinWindow(now, row)
    BY <1>4, <2>1, <2>3 DEF SyncNeeded, ImpliedStatus, NoStatus
  <2> QED BY <1>3, <2>1, <2>3, <2>4
<1>5. ASSUME SyncNeeded(now, row),
             OpenFor(v, [row EXCEPT !.status = ImpliedStatus(now, row)])
      PROVE  FALSE
  <2> DEFINE new == [row EXCEPT !.status = ImpliedStatus(now, row)]
  <2>1. new.status = ImpliedStatus(now, row) /\ new.opens = row.opens /\ new.closes = row.closes
    BY <1>1 DEF Rows
  <2>2. ImpliedStatus(now, row) = "OPEN" /\ WithinWindow(at[v], row)
    BY <1>5, <2>1 DEF OpenFor, WithinWindow
  <2>3. /\ WithinWindow(now, row) /\ ~(row.opens = NoTime /\ row.closes = NoTime)
        /\ row.status = "CLOSED"
    BY <1>5, <2>2 DEF ImpliedStatus, SyncNeeded, NoStatus
  <2>4. ImpliedStatus(t, row) = "OPEN"
    BY <1>3, <2>2, <2>3 DEF ImpliedStatus
  <2>5. Synced(t, row) = [row EXCEPT !.status = "OPEN"]
    BY <2>3, <2>4 DEF Synced, SyncNeeded, NoStatus
  <2> QED BY <1>1, <1>2, <2>5 DEF Rows
<1> QED BY <1>4, <1>5

(* The clock never goes back, and a request takes its instant from it.     *)
LEMMA ClockForward ==
    ASSUME TypeOK, [AuditNext]_auditVars
    PROVE  now \in Nat /\ now' \in Nat /\ now <= now'
<1>1. now \in Nat
  BY TimeAssumption DEF TypeOK, LifeTypeOK
<1>2. ASSUME LifeNext
      PROVE  now' = now \/ now' = now + 1
  BY <1>2 DEF LifeNext, Tick, Create, BeginUpdate, BeginSync, Write, Commit, Rollback
<1>3. ASSUME NEW r \in Requests, RequestStep(r) \/ Fail(r) \/ \E b \in Bodies : Submit(r, b)
      PROVE  now' = now
  BY <1>3 DEF RequestStep, IssueOwnToken, Begin, ReadContest, CheckOpen, SyncThenCheck,
     CheckVoter, CheckToken, MarkToken, FindTally, WriteTally, CommitVote, Fail, Submit,
     lifeVars, othersVars
<1>4. Next => now' = now \/ now' = now + 1
  BY <1>2, <1>3 DEF Next, Environment, IssueToken, lifeVars
<1>5. ASSUME NEW g \in Readers, ReaderStep(g)
      PROVE  now' = now
  BY <1>5, ReaderFrame
<1>6. Restart => now' = now
  BY DEF Restart
<1>7. UNCHANGED vars => now' = now
  BY DEF vars, lifeVars
<1> QED
  BY <1>1, <1>4, <1>5, <1>6, <1>7 DEF AuditNext, ResultsNext, auditVars, allVars

(* A request whose own state stays as it is stays accounted for.           *)
LEMMA AccountedFrame ==
    ASSUME TypeOK, NEW v \in Requests, NEW c, NEW counted, NEW late,
           now \in Nat, now' \in Nat, now <= now',
           Accounted(c, counted, late, v),
           pc'[v] = pc[v], body'[v] = body[v], at'[v] = at[v], seenRow'[v] = seenRow[v],
           v \in votes' => v \in votes, at[v] \in Instants
    PROVE  Accounted(c, counted, late, v)'
<1>1. TurnedAway(v) => TurnedAway(v)'
  <2> SUFFICES ASSUME NEW t \in Nat, at[v] <= t, t <= now, Synced(t, seenRow[v]).status # "OPEN"
               PROVE  at'[v] <= t /\ t <= now' /\ Synced(t, seenRow'[v]).status # "OPEN"
    BY DEF TurnedAway, Synced, SyncNeeded, ImpliedStatus, WithinWindow
  <2> QED OBVIOUS
<1> QED BY <1>1 DEF Accounted

(* A step of another request leaves a request as it is.                    *)
LEMMA OthersApart ==
    ASSUME TypeOK, NEW v \in Requests, NEW r \in Requests, r # v,
           RequestStep(r) \/ Fail(r) \/ \E b \in Bodies : Submit(r, b)
    PROVE  /\ pc'[v] = pc[v] /\ body'[v] = body[v] /\ at'[v] = at[v] /\ seenRow'[v] = seenRow[v]
           /\ v \in votes' => v \in votes
<1>1. /\ pc \in [Requests -> Stages] /\ body \in [Requests -> Bodies \cup {NoBody}]
      /\ at \in [Requests -> Instants] /\ seenRow \in [Requests -> Rows]
  BY DEF TypeOK
<1>2. \A s, ok : Goto(r, s) \/ GotoIf(r, ok, s) => pc'[v] = pc[v]
  BY <1>1 DEF Goto, GotoIf
<1>3. pc'[v] = pc[v]
  <2>1. \E s, ok : Goto(r, s) \/ GotoIf(r, ok, s)
    BY DEF RequestStep, IssueOwnToken, Begin, ReadContest, CheckOpen, SyncThenCheck,
       CheckVoter, CheckToken, MarkToken, FindTally, WriteTally, CommitVote, Fail, Submit
  <2> QED BY <1>2, <2>1
<1>4. body'[v] = body[v] /\ at'[v] = at[v] /\ seenRow'[v] = seenRow[v]
  BY <1>1 DEF RequestStep, IssueOwnToken, Begin, ReadContest, CheckOpen, SyncThenCheck,
     CheckVoter, CheckToken, MarkToken, FindTally, WriteTally, CommitVote, Fail, Submit
<1>5. v \in votes' => v \in votes
  BY DEF RequestStep, IssueOwnToken, Begin, ReadContest, CheckOpen, SyncThenCheck,
     CheckVoter, CheckToken, MarkToken, FindTally, WriteTally, CommitVote, Fail, Submit, boxVars
<1> QED BY <1>3, <1>4, <1>5

(* A request that moves stays accounted for.                               *)
LEMMA AccountedStep ==
    ASSUME BackInv, Timely, NEW v \in Requests,
           RequestStep(v) \/ Fail(v) \/ \E b \in Bodies : Submit(v, b),
           NEW c \in Contests, NEW counted, NEW late,
           ~IsOpen(c), Accounted(c, counted, late, v)
    PROVE  Accounted(c, counted, late, v)'
<1> USE DEF PastOpen
<1>1. /\ pc \in [Requests -> Stages] /\ now \in Nat
      /\ v \in votes <=> pc[v] = "committed"
  BY TimeAssumption DEF BackInv, TypeOK, LifeTypeOK, LeavesInv, WrittenTogether
<1>2. ASSUME pc'[v] \notin PastOpen \cup {"seen"}, v \notin votes'
      PROVE  Accounted(c, counted, late, v)'
  BY <1>2 DEF Accounted
<1>3. \A s, ok : /\ Goto(v, s) => pc'[v] = s
                 /\ GotoIf(v, ok, s) => pc'[v] = s \/ pc'[v] = "refused"
  BY <1>1 DEF Goto, GotoIf
<1>4. ASSUME body' = body, votes' = votes, pc[v] # "committed",
             pc'[v] \in PastOpen \cup {"refused"}, pc[v] \in PastOpen
      PROVE  Accounted(c, counted, late, v)'
  BY <1>1, <1>4 DEF Accounted
<1>5. ASSUME NEW b \in Bodies, Submit(v, b)
      PROVE  Accounted(c, counted, late, v)'
  BY <1>1, <1>2, <1>3, <1>5 DEF Submit, boxVars
<1>6. CASE Fail(v)
  <2>1. pc'[v] = "refused" /\ v \notin votes'
    BY <1>1, <1>3, <1>6 DEF Fail, InFlight, boxVars
  <2> QED BY <1>2, <2>1
<1>7. CASE IssueOwnToken(v) \/ Begin(v)
  <2>1. pc'[v] \in {"issued", "begun", "refused"} /\ v \notin votes'
    BY <1>1, <1>3, <1>7 DEF IssueOwnToken, Begin, boxVars
  <2> QED BY <1>2, <2>1
<1>8. CASE ReadContest(v)
  <2>1. /\ pc[v] = "begun" /\ seenRow'[v] = contest[body[v].contest]
        /\ UNCHANGED <<now, body, at, votes>> /\ pc'[v] \in {"seen", "refused"}
    BY <1>3, <1>8 DEF ReadContest, othersVars, boxVars, BackInv, TypeOK
  <2>2. body[v].contest = c => TurnedAway(v)'
    <3> SUFFICES ASSUME body[v].contest = c PROVE TurnedAway(v)'
      OBVIOUS
    <3>1. at[v] <= now /\ Synced(now, contest[c]).status # "OPEN"
      BY <2>1 DEF Timely, IsOpen
    <3>2. Synced(now, seenRow'[v]).status # "OPEN"
      BY <2>1, <3>1
    <3>3. now \in Nat /\ at'[v] <= now /\ now <= now'
      BY <1>1, <2>1, <3>1
    <3> QED BY <3>2, <3>3 DEF TurnedAway, Synced, SyncNeeded, ImpliedStatus, WithinWindow
  <2> QED BY <1>1, <2>1, <2>2 DEF Accounted
<1>9. CASE CheckOpen(v) \/ SyncThenCheck(v)
  <2>1. /\ pc[v] = "seen" /\ UNCHANGED <<body, votes>> /\ pc'[v] \in {"open", "refused"}
    BY <1>3, <1>9 DEF CheckOpen, SyncThenCheck, boxVars
  <2>2. TurnedAway(v) => pc'[v] # "open"
    <3>1. ASSUME TurnedAway(v), CheckOpen(v)
          PROVE  pc'[v] # "open"
      <4>1. ~OpenFor(v, seenRow[v])
        BY <2>1, <3>1, TurnedAwayRefused DEF CheckOpen, BackInv
      <4> QED BY <1>1, <3>1, <4>1 DEF CheckOpen, GotoIf, Goto
    <3>2. ASSUME TurnedAway(v), SyncThenCheck(v)
          PROVE  pc'[v] # "open"
      <4>1. ~OpenFor(v, [seenRow[v] EXCEPT !.status = ImpliedStatus(now, seenRow[v])])
        BY <2>1, <3>2, TurnedAwayRefused DEF SyncThenCheck, BackInv
      <4> QED BY <1>1, <3>2, <4>1 DEF SyncThenCheck, Goto
    <3> QED BY <1>9, <3>1, <3>2
  <2> QED BY <1>1, <2>1, <2>2 DEF Accounted
<1>10. CASE CheckVoter(v) \/ CheckToken(v) \/ MarkToken(v) \/ FindTally(v) \/ WriteTally(v)
  <2>1. /\ pc[v] \in {"open", "eligible", "admitted", "marked", "counted"}
        /\ body' = body /\ votes' = votes
    BY <1>10 DEF CheckVoter, CheckToken, MarkToken, FindTally, WriteTally, boxVars
  <2>2. pc'[v] \in PastOpen \cup {"refused"}
    BY <1>3, <1>10 DEF CheckVoter, CheckToken, MarkToken, FindTally, WriteTally
  <2> QED BY <1>4, <2>1, <2>2
<1>11. CASE CommitVote(v)
  <2>1. pc[v] = "tallied" /\ body' = body /\ pc'[v] = "committed"
    BY <1>3, <1>11 DEF CommitVote
  <2> QED BY <2>1 DEF Accounted
<1> QED
  BY <1>5, <1>6, <1>7, <1>8, <1>9, <1>10, <1>11 DEF RequestStep

(* An opening is counted as it happens: a result judged after the last one *)
(* is behind it, or is no longer the last.                                 *)
LEMMA OpeningsCounted ==
    ASSUME openings \in [Contests -> Nat], CountOpenings \/ UNCHANGED <<now, contest, openings>>,
           NEW c \in Contests, NEW since \in Sinces, since <= openings[c], Behind(c, since)
    PROVE  /\ since <= openings'[c] /\ Behind(c, since)'
           /\ since = openings'[c] => since = openings[c]
<1>1. CASE CountOpenings
  <2>1. openings'[c] = openings[c] + IF ~IsOpen(c) /\ IsOpen(c)' THEN 1 ELSE 0
    BY <1>1 DEF CountOpenings
  <2>2. openings[c] \in Nat /\ since \in Int
    BY DEF Sinces, NoOpening
  <2>3. CASE ~IsOpen(c) /\ IsOpen(c)'
    <3>1. openings'[c] = openings[c] + 1
      BY <2>1, <2>3
    <3> QED BY <2>2, <3>1 DEF Behind
  <2>4. CASE ~(~IsOpen(c) /\ IsOpen(c)')
    <3>1. openings'[c] = openings[c]
      BY <2>1, <2>2, <2>4
    <3> QED BY <2>4, <3>1 DEF Behind
  <2> QED BY <2>3, <2>4
<1>2. CASE UNCHANGED <<now, contest, openings>>
  BY <1>2 DEF Behind, IsOpen, Synced, SyncNeeded, ImpliedStatus, WithinWindow
<1> QED BY <1>1, <1>2

(* A step that is no restart: the requests move, or stay as they are.      *)
LEMMA AccountedStays ==
    ASSUME BackInv, Timely, [AuditNext]_auditVars, ~Restart, NEW c \in Contests,
           NEW counted, NEW late, ~IsOpen(c),
           \A v \in Requests : Accounted(c, counted, late, v)
    PROVE  \A v \in Requests : Accounted(c, counted, late, v)'
<1> SUFFICES ASSUME NEW v \in Requests
             PROVE  Accounted(c, counted, late, v)'
  OBVIOUS
<1>1. now \in Nat /\ now' \in Nat /\ now <= now' /\ TypeOK /\ at[v] \in Instants
  BY ClockForward DEF BackInv, TypeOK
<1>2. ASSUME pc'[v] = pc[v], body'[v] = body[v], at'[v] = at[v], seenRow'[v] = seenRow[v],
             v \in votes' => v \in votes
      PROVE  Accounted(c, counted, late, v)'
  BY <1>1, <1>2, AccountedFrame
<1>3. CASE UNCHANGED <<reqVars, boxVars>>
  BY <1>2, <1>3 DEF reqVars, boxVars
<1>4. CASE Next
  <2>1. ASSUME NEW r \in Requests, RequestStep(r) \/ Fail(r) \/ \E b \in Bodies : Submit(r, b)
        PROVE  Accounted(c, counted, late, v)'
    <3>1. CASE r = v
      BY <2>1, <3>1, AccountedStep
    <3>2. CASE r # v
      BY <1>1, <1>2, <2>1, <3>2, OthersApart
    <3> QED BY <3>1, <3>2
  <2>2. ASSUME NEW t \in Tokens, NEW d \in Contests, NEW a \in Areas \cup {None}, IssueToken(t, d, a)
        PROVE  Accounted(c, counted, late, v)'
    BY <1>3, <2>2 DEF IssueToken
  <2> QED BY <1>3, <1>4, <2>1, <2>2 DEF Next, Environment
<1>5. ASSUME NEW g \in Readers, ReaderStep(g)
      PROVE  Accounted(c, counted, late, v)'
  BY <1>1, <1>3, <1>5, ReaderFrame
<1>6. UNCHANGED vars => UNCHANGED <<reqVars, boxVars>>
  BY DEF vars
<1> QED
  BY <1>3, <1>4, <1>5, <1>6 DEF AuditNext, ResultsNext, auditVars, allVars

(* So what a result rests on stays true, or another opening has come.      *)
LEMMA SettledStays ==
    ASSUME BackInv, Timely, ReaderShape, [AuditNext]_auditVars, ~Restart,
           NEW c \in Contests, NEW since \in Sinces, since <= openings[c],
           NEW counted, NEW late, Settled(c, since, counted, late)
    PROVE  Settled(c, since, counted, late)'
<1>1. CountOpenings \/ UNCHANGED <<now, contest, openings>>
  BY DEF AuditNext, ResultsNext, auditVars, allVars, vars, lifeVars, resultVars
<1>2. Behind(c, since)
  BY DEF Settled, Behind
<1>3. Behind(c, since)' /\ (since = openings'[c] => since = openings[c])
  BY <1>1, <1>2, OpeningsCounted DEF ReaderShape
<1>4. ASSUME since = openings[c]
      PROVE  \A v \in Requests : Accounted(c, counted, late, v)'
  BY <1>4, AccountedStays DEF Settled
<1> QED BY <1>3, <1>4 DEF Settled, Behind

(* Timeliness is kept by every step.                                       *)
LEMMA TimelyStep ==
    ASSUME BackInv, Timely, [AuditNext]_auditVars
    PROVE  Timely'
<1>1. now \in Nat /\ now' \in Nat /\ now <= now' /\ TypeOK
  BY ClockForward DEF BackInv
<1> SUFFICES ASSUME NEW v \in Requests, pc'[v] \in {"begun", "seen"}
             PROVE  at'[v] \in Nat /\ at'[v] <= now'
  BY DEF Timely
<1>2. ASSUME pc'[v] = pc[v], at'[v] = at[v]
      PROVE  at'[v] \in Nat /\ at'[v] <= now'
  BY <1>1, <1>2 DEF Timely
<1>3. UNCHANGED reqVars => pc'[v] = pc[v] /\ at'[v] = at[v]
  BY DEF reqVars
<1>4. /\ pc \in [Requests -> Stages] /\ at \in [Requests -> Instants]
      /\ \A s, ok : /\ Goto(v, s) => pc'[v] = s
                    /\ GotoIf(v, ok, s) => pc'[v] = s \/ pc'[v] = "refused"
  BY <1>1 DEF TypeOK, Goto, GotoIf
<1>5. CASE Next
  <2>1. CASE Begin(v)
    <3>1. at'[v] = now /\ now' = now
      BY <1>4, <2>1 DEF Begin, lifeVars
    <3> QED BY <1>1, <3>1
  <2>2. CASE ReadContest(v)
    <3>1. pc[v] = "begun" /\ at' = at
      BY <2>2 DEF ReadContest
    <3> QED BY <1>1, <3>1 DEF Timely
  <2>3. ASSUME \/ RequestStep(v) /\ ~Begin(v) /\ ~ReadContest(v)
               \/ Fail(v) \/ \E b \in Bodies : Submit(v, b)
        PROVE  FALSE
    <3>1. pc'[v] \notin {"begun", "seen"}
      BY <1>4, <2>3 DEF RequestStep, IssueOwnToken, CheckOpen, SyncThenCheck, CheckVoter,
         CheckToken, MarkToken, FindTally, WriteTally, CommitVote, Fail, Submit
    <3> QED BY <3>1
  <2>4. ASSUME NEW r \in Requests, r # v, RequestStep(r) \/ Fail(r) \/ \E b \in Bodies : Submit(r, b)
        PROVE  pc'[v] = pc[v] /\ at'[v] = at[v]
    BY <1>1, <2>4, OthersApart
  <2>5. ASSUME NEW t \in Tokens, NEW d \in Contests, NEW a \in Areas \cup {None}, IssueToken(t, d, a)
        PROVE  UNCHANGED reqVars
    BY <2>5 DEF IssueToken
  <2> QED BY <1>2, <1>3, <1>5, <2>1, <2>2, <2>3, <2>4, <2>5 DEF Next, Environment
<1>6. ASSUME NEW g \in Readers, ReaderStep(g)
      PROVE  UNCHANGED reqVars
  BY <1>1, <1>6, ReaderFrame
<1>7. CASE Restart
  <2>1. pc'[v] = pc[v] /\ at' = at
    BY <1>7 DEF Restart
  <2> QED BY <1>2, <2>1
<1>8. UNCHANGED vars => UNCHANGED reqVars
  BY DEF vars
<1> QED
  BY <1>2, <1>3, <1>5, <1>6, <1>7, <1>8 DEF AuditNext, ResultsNext, auditVars, allVars

(* What a reader has found out, or the cache holds, stays true while it    *)
(* does nothing.                                                           *)
LEMMA FreshStays ==
    ASSUME BackInv, Timely, ReaderShape, [AuditNext]_auditVars, ~Restart,
           NEW g \in Readers, Fresh(g), reader'[g] = reader[g]
    PROVE  Fresh(g)'
<1> USE DEF Deciding, ReportStages, AfterLedger, AfterUsage
<1> DEFINE r == reader[g]
           c == reader[g].on
<1> SUFFICES ASSUME r.stage \in Deciding
             PROVE  Fresh(g)'
  BY DEF Fresh
<1>1. c \in Contests /\ r.since \in Sinces /\ r.since <= openings[c]
  BY DEF ReaderShape, Fresh
<1>2. CountOpenings \/ UNCHANGED <<now, contest, openings>>
  BY DEF AuditNext, ResultsNext, auditVars, allVars, vars, lifeVars, resultVars
<1>3. Behind(c, r.since) => r.since <= openings'[c] /\ Behind(c, r.since)'
  <2>1. ASSUME NEW d \in Contests, NEW since \in Sinces, since <= openings[d], Behind(d, since)
        PROVE  since <= openings'[d] /\ Behind(d, since)'
    BY <1>2, <2>1, OpeningsCounted DEF ReaderShape
  <2> QED BY <1>1, <2>1 DEF Behind
<1>4. r.since <= openings'[c]
  <2>1. openings \in [Contests -> Nat]
    BY DEF ReaderShape
  <2>2. openings'[c] = openings[c] \/ openings'[c] = openings[c] + 1
    <3>1. CountOpenings => openings'[c] = openings[c] + IF ~IsOpen(c) /\ IsOpen(c)' THEN 1 ELSE 0
      BY <1>1 DEF CountOpenings
    <3>2. openings[c] \in Nat
      BY <1>1, <2>1
    <3> QED BY <1>2, <3>1, <3>2
  <2>3. openings[c] \in Nat /\ r.since \in Int
    BY <1>1, <2>1 DEF Sinces, NoOpening
  <2> QED BY <1>1, <2>2, <2>3
<1>5. Settled(c, r.since, r.counted, r.late) => Settled(c, r.since, r.counted, r.late)'
  <2>1. ASSUME NEW d \in Contests, NEW since \in Sinces, since <= openings[d],
               NEW counted, NEW late, Settled(d, since, counted, late)
        PROVE  Settled(d, since, counted, late)'
    BY <2>1, SettledStays
  <2> QED BY <1>1, <2>1 DEF Settled
<1> QED BY <1>3, <1>4, <1>5 DEF Fresh

LEMMA CacheStays ==
    ASSUME BackInv, Timely, ReaderShape, [AuditNext]_auditVars, ~Restart, CacheSettled,
           NEW c \in Contests, cache'[c] = cache[c], cache[c] # NoResult
    PROVE  /\ cache'[c].since \in Sinces /\ cache'[c].since <= openings'[c]
           /\ Settled(c, cache[c].since, cache[c].counted, cache[c].late)'
<1> DEFINE k == cache[c]
<1>1. /\ k.since \in Sinces /\ k.since <= openings[c]
      /\ Settled(c, k.since, k.counted, k.late)
  BY DEF CacheSettled
<1>2. CountOpenings \/ UNCHANGED <<now, contest, openings>>
  BY DEF AuditNext, ResultsNext, auditVars, allVars, vars, lifeVars, resultVars
<1>3. k.since <= openings'[c]
  <2>1. ASSUME NEW since \in Sinces, since <= openings[c], Behind(c, since)
        PROVE  since <= openings'[c]
    BY <1>2, <2>1, OpeningsCounted DEF ReaderShape
  <2>2. Behind(c, k.since)
    BY <1>1 DEF Settled, Behind
  <2> QED BY <1>1, <2>1, <2>2
<1>4. Settled(c, k.since, k.counted, k.late)'
  <2>1. ASSUME NEW since \in Sinces, since <= openings[c],
               NEW counted, NEW late, Settled(c, since, counted, late)
        PROVE  Settled(c, since, counted, late)'
    BY <2>1, SettledStays
  <2> QED BY <1>1, <2>1 DEF Settled
<1> QED BY <1>1, <1>3, <1>4

(* While neither the clock nor a contest row moves, no opening is counted. *)
LEMMA NoneOpens ==
    ASSUME openings \in [Contests -> Nat], CountOpenings, UNCHANGED <<now, contest>>
    PROVE  openings' = openings /\ \A c \in Contests : IsOpen(c)' <=> IsOpen(c)
<1>1. \A c \in Contests : IsOpen(c)' <=> IsOpen(c)
  BY DEF IsOpen, Synced, SyncNeeded, ImpliedStatus, WithinWindow
<1>2. \A c \in Contests : openings'[c] = openings[c]
  <2> SUFFICES ASSUME NEW c \in Contests PROVE openings'[c] = openings[c]
    OBVIOUS
  <2>1. openings'[c] = openings[c] + IF ~IsOpen(c) /\ IsOpen(c)' THEN 1 ELSE 0
    BY DEF CountOpenings
  <2>2. openings'[c] = openings[c] + 0
    BY <1>1, <2>1
  <2> QED BY <2>2
<1>3. openings' = [c \in Contests |-> openings'[c]]
  BY DEF CountOpenings
<1> QED BY <1>1, <1>2, <1>3

(* A status that says closed puts a result behind the last opening, or     *)
(* before the first.                                                       *)
LEMMA ComesBehind ==
    ASSUME openings \in [Contests -> Nat], NEW c \in Contests, NEW status
    PROVE  /\ ComesAfter(c, status) \in Sinces /\ ComesAfter(c, status) <= openings[c]
           /\ status = "CLOSED" => Behind(c, ComesAfter(c, status))
<1>1. openings[c] \in Nat /\ NoOpening = -1
  BY DEF NoOpening
<1>2. CASE status = "CLOSED" /\ IsOpen(c)
  BY <1>1, <1>2 DEF ComesAfter, Sinces, Behind
<1>3. CASE ~(status = "CLOSED" /\ IsOpen(c))
  BY <1>1, <1>3 DEF ComesAfter, Sinces, Behind
<1> QED BY <1>2, <1>3

(* What a reader finds out by its own steps.                               *)
LEMMA FreshMoves ==
    ASSUME BackInv, ReaderShape, NEW g \in Readers, ReaderStep(g), CountOpenings, Fresh(g)
    PROVE  Fresh(g)'
<1> USE DEF Deciding
<1> DEFINE r == reader[g]
           c == reader[g].on
<1>1. /\ openings \in [Contests -> Nat] /\ DOMAIN reader = Readers
      /\ r.stage # "idle" => c \in Contests
  BY DEF ReaderShape
<1>2. ASSUME UNCHANGED vars
      PROVE  openings' = openings /\ \A d \in Contests : IsOpen(d)' <=> IsOpen(d)
  BY <1>1, <1>2, NoneOpens DEF vars, lifeVars
<1>3. ASSUME NEW row, Admitted(g, row), r.stage = "asked", UNCHANGED <<now, contest>>
      PROVE  Fresh(g)'
  <2>1. openings' = openings /\ \A d \in Contests : IsOpen(d)' <=> IsOpen(d)
    BY <1>1, <1>3, NoneOpens
  <2>2. CASE PastGate(row)
    <3> DEFINE since == ComesAfter(c, row.status)
    <3>1. reader'[g] = [stage |-> "closed", on |-> c, since |-> since]
      BY <1>1, <1>3, <2>2 DEF Admitted
    <3>2. since \in Sinces /\ since <= openings[c] /\ Behind(c, since)
      BY <1>1, <1>3, <2>2, ComesBehind DEF PastGate
    <3> HIDE DEF since
    <3>3. reader'[g].stage = "closed" /\ reader'[g].on = c /\ reader'[g].since = since
      BY <3>1
    <3> QED BY <1>1, <1>3, <2>1, <3>2, <3>3 DEF Fresh, Behind
  <2>3. CASE ~PastGate(row)
    <3>1. reader'[g] = NoAsk
      BY <1>1, <1>3, <2>3 DEF Admitted
    <3> QED BY <3>1 DEF Fresh, NoAsk
  <2> QED BY <2>2, <2>3
<1>4. CASE Gate(g) \/ SyncThenGate(g)
  <2>1. UNCHANGED <<now, contest>> /\ r.stage = "asked" /\ \E row : Admitted(g, row)
    BY <1>4 DEF Gate, SyncThenGate, vars, lifeVars, othersVars
  <2> QED BY <1>3, <2>1
<1>5. ASSUME reader'[g].stage \in {"idle", "asked", "answered"}
      PROVE  Fresh(g)'
  BY <1>5 DEF Fresh
<1>6. CASE (\E d \in Contests : Ask(g, d)) \/ CacheHit(g) \/ Store(g) \/ Answer(g) \/ ReadFails(g)
  <2>1. reader'[g].stage \in {"idle", "asked", "answered"}
    BY <1>1, <1>6 DEF Ask, CacheHit, Store, Answer, ReadFails, NoAsk
  <2> QED BY <1>5, <2>1
<1>7. CASE CacheMiss(g)
  <2>1. /\ r.stage = "closed" /\ reader' = [reader EXCEPT ![g].stage = "missed"]
        /\ UNCHANGED vars
        /\ r \in [stage : {"closed"}, on : Contests, since : Nat \cup {NoOpening}]
    BY <1>7 DEF CacheMiss, ReaderShape
  <2>2. reader'[g] = [r EXCEPT !.stage = "missed"]
    BY <1>1, <2>1
  <2>3. reader'[g].stage = "missed" /\ reader'[g].on = c /\ reader'[g].since = r.since
    BY <2>1, <2>2
  <2> QED BY <1>1, <1>2, <2>1, <2>3 DEF Fresh, Behind
<1>8. CASE ReadElection(g)
  <2> DEFINE status == StatusSeenBy(g, c)
             since == ComesAfter(c, status)
             keep == Cacheable(c, status)
  <2>1. /\ reader'[g] = [stage |-> "judged", on |-> c, since |-> since, keep |-> keep]
        /\ r.stage = "missed" /\ UNCHANGED vars
    BY <1>1, <1>8 DEF ReadElection
  <2>2. keep => status = "CLOSED"
    BY <1>8 DEF ReadElection, Cacheable
  <2> HIDE DEF status
  <2>3. since \in Sinces /\ since <= openings[c] /\ (keep => Behind(c, since))
    BY <1>1, <2>1, <2>2, ComesBehind
  <2> HIDE DEF since, keep
  <2>4. /\ reader'[g].stage = "judged" /\ reader'[g].on = c /\ reader'[g].since = since
        /\ reader'[g].keep = keep
    BY <2>1
  <2> QED BY <1>1, <1>2, <2>1, <2>3, <2>4 DEF Fresh, Behind
<1>9. CASE Compute(g)
  <2> DEFINE keep == IF r.stage = "missed" THEN Cacheable(c, "CLOSED") ELSE r.keep
             counted == VotesIn(c)
             late == OnTheWay(c)
  <2>1. /\ reader'[g] = [stage |-> "computed", on |-> c, since |-> r.since, keep |-> keep,
                         counted |-> counted, late |-> late]
        /\ r.stage \in {"judged", "missed"} /\ UNCHANGED vars
    BY <1>1, <1>9 DEF Compute
  <2>2. /\ r.since \in Sinces /\ r.since <= openings[c] /\ c \in Contests
        /\ keep => Behind(c, r.since)
    BY <1>1, <2>1 DEF Fresh
  <2>3. ASSUME NEW v \in Requests
        PROVE  Accounted(c, counted, late, v)
    <3>1. body[v] # NoBody => pc[v] # "idle"
      BY DEF BackInv, TypeOK
    <3>2. v \in votes /\ body[v].contest = c => v \in counted
      BY DEF VotesIn
    <3>3. body[v] # NoBody /\ body[v].contest = c /\ pc[v] \in PastOpen \cup {"seen"} => v \in late
      BY DEF OnTheWay, PastOpen, InFlight
    <3> QED BY <3>2, <3>3 DEF Accounted
  <2> HIDE DEF counted, late, keep
  <2>4. ASSUME NEW d, NEW x, NEW y, NEW v \in Requests, Accounted(d, x, y, v)
        PROVE  Accounted(d, x, y, v)'
    <3>1. UNCHANGED <<pc, body, votes, at, seenRow, now>>
      BY <2>1 DEF vars, lifeVars, reqVars, boxVars
    <3>2. \A u \in Requests : TurnedAway(u) => TurnedAway(u)'
      BY <3>1 DEF TurnedAway, Synced, SyncNeeded, ImpliedStatus, WithinWindow
    <3> QED BY <2>4, <3>1, <3>2 DEF Accounted
  <2>5. /\ reader'[g].stage = "computed" /\ reader'[g].on = c /\ reader'[g].since = r.since
        /\ reader'[g].keep = keep /\ reader'[g].counted = counted /\ reader'[g].late = late
    BY <2>1
  <2> QED BY <1>1, <1>2, <2>1, <2>2, <2>3, <2>4, <2>5 DEF Fresh, Settled, Behind
<1> QED BY <1>4, <1>6, <1>7, <1>8, <1>9 DEF ReaderStep

(* Every step of the system keeps the cache settled.                       *)
LEMMA CacheStep ==
    ASSUME BackInv, ReaderShape, CacheInv, [AuditNext]_auditVars
    PROVE  CacheInv'
<1> USE DEF CacheInv
<1>1. Timely'
  BY TimelyStep
<1>2. CASE Restart
  <2>1. reader' = [g \in Readers |-> NoAsk] /\ cache' = [c \in Contests |-> NoResult]
    BY <1>2 DEF Restart
  <2>2. \A g \in Readers : Fresh(g)'
    BY <2>1 DEF Fresh, NoAsk, Deciding
  <2>3. CacheSettled'
    BY <2>1 DEF CacheSettled
  <2> QED BY <1>1, <2>1, <2>2, <2>3
<1>3. ASSUME ~Restart, cache' = cache
      PROVE  DOMAIN cache' = Contests /\ CacheSettled'
  <2>1. ASSUME NEW c \in Contests, cache'[c] # NoResult
        PROVE  /\ cache'[c].since \in Sinces /\ cache'[c].since <= openings'[c]
               /\ Settled(c, cache[c].since, cache[c].counted, cache[c].late)'
    BY <1>3, <2>1, CacheStays
  <2> QED BY <1>3, <2>1 DEF CacheSettled
<1>4. ASSUME ~Restart, cache' = cache, reader' = reader
      PROVE  CacheInv'
  BY <1>1, <1>3, <1>4, FreshStays
<1>5. ASSUME NEW g \in Readers, ReaderStep(g), CountOpenings, ~Restart
      PROVE  CacheInv'
  <2>1. /\ \A h \in Readers \ {g} : reader'[h] = reader[h]
        /\ DOMAIN reader = Readers
    BY <1>5, ReaderMoves DEF ReaderShape
  <2>2. \A h \in Readers \ {g} : Fresh(h)'
    BY <1>5, <2>1, FreshStays
  <2>3. Fresh(g)'
    BY <1>5, FreshMoves
  <2>4. CASE cache' = cache
    BY <1>1, <1>3, <1>5, <2>2, <2>3, <2>4
  <2>5. CASE cache' # cache
    <3> DEFINE r == reader[g]
               e == [counted |-> r.counted, late |-> r.late, since |-> r.since]
    <3>1. Store(g)
      BY <1>5, <2>5 DEF ReaderStep, Ask, Gate, SyncThenGate, CacheHit, CacheMiss,
         ReadElection, Compute, Answer, ReadFails
    <3>2. /\ r.stage = "computed" /\ r.keep /\ cache' = [cache EXCEPT ![r.on] = e]
          /\ UNCHANGED vars
      BY <2>5, <3>1 DEF Store
    <3>3. r.on \in Contests /\ openings \in [Contests -> Nat]
      BY <3>2 DEF ReaderShape
    <3>4. openings' = openings /\ \A d \in Contests : IsOpen(d)' <=> IsOpen(d)
      BY <1>5, <3>2, <3>3, NoneOpens DEF vars, lifeVars
    <3>5. /\ r.since \in Sinces /\ r.since <= openings[r.on]
          /\ Settled(r.on, r.since, r.counted, r.late)
      BY <3>2 DEF Fresh, Deciding
    <3>6. ASSUME NEW d, NEW s, NEW x, NEW y, s \in Sinces, s <= openings[d], d \in Contests,
                 Settled(d, s, x, y)
          PROVE  Settled(d, s, x, y)'
      BY <1>5, <3>6, SettledStays
    <3>7. e.since = r.since /\ e.counted = r.counted /\ e.late = r.late
      OBVIOUS
    <3> HIDE DEF e
    <3>8. DOMAIN cache' = Contests /\ cache'[r.on] = e
      BY <3>2, <3>3
    <3>9. \A c \in Contests \ {r.on} : cache'[c] = cache[c]
      BY <3>2
    <3>10. ASSUME NEW c \in Contests, cache'[c] # NoResult
           PROVE  /\ cache'[c].since \in Sinces /\ cache'[c].since <= openings'[c]
                  /\ Settled(c, cache[c].since, cache[c].counted, cache[c].late)'
      <4>1. CASE c # r.on
        BY <1>5, <3>9, <3>10, <4>1, CacheStays
      <4>2. CASE c = r.on
        <5>1. cache'[c].since = r.since /\ cache'[c].counted = r.counted /\ cache'[c].late = r.late
          BY <3>7, <3>8, <4>2
        <5> QED BY <3>3, <3>4, <3>5, <3>6, <4>2, <5>1 DEF Settled
      <4> QED BY <4>1, <4>2
    <3> QED BY <1>1, <2>2, <2>3, <3>8, <3>10 DEF CacheSettled
  <2> QED BY <2>4, <2>5
<1>6. CASE ~Restart /\ ResultsNext
  BY <1>4, <1>5, <1>6 DEF ResultsNext
<1>7. ASSUME NEW g \in Readers, ReportStep(g), UNCHANGED <<vars, cache, openings, file>>, ~Restart
      PROVE  CacheInv'
  <2>1. \A h \in Readers \ {g} : reader'[h] = reader[h]
    BY <1>7 DEF ReaderShape, ReportStep, AskReport, CountEvents, CountLedger, CountIssued,
       CountUsed, CheckPeriod, ListInvestigations, Deliver
  <2>2. reader'[g].stage \notin Deciding
    BY <1>7 DEF ReaderShape, ReportStep, AskReport, CountEvents, CountLedger, CountIssued,
       CountUsed, CheckPeriod, ListInvestigations, Deliver, NoAsk, Deciding
  <2>3. Fresh(g)'
    BY <2>2 DEF Fresh, Deciding
  <2>4. \A h \in Readers : Fresh(h)'
    BY <1>7, <2>1, <2>3, FreshStays
  <2> QED BY <1>1, <1>3, <1>7, <2>4
<1>8. CASE ~Restart /\ UNCHANGED allVars
  BY <1>4, <1>8 DEF allVars, resultVars
<1> QED
  BY <1>2, <1>6, <1>7, <1>8 DEF AuditNext, auditVars

(* A cached result misses no vote but those that were on their way when it *)
(* was computed, as long as the contest has not come to be open again: for *)
(* any number of contests, requests and readers, whatever officials do to  *)
(* the times meanwhile, and across restarts of the backend.                *)
THEOREM CacheIsComplete == AuditSpec => []CacheMissesOnlyLateVotes
<1>1. BackInv /\ CacheInv => CacheMissesOnlyLateVotes
  <2> SUFFICES ASSUME BackInv, CacheInv, NEW c \in Contests, cache[c] # NoResult,
                      cache[c].since = openings[c], NEW v \in VotesIn(c)
               PROVE  v \in cache[c].counted \cup cache[c].late
    BY DEF CacheMissesOnlyLateVotes
  <2>1. v \in votes /\ v \in Requests /\ pc[v] = "committed" /\ body[v].contest = c
    BY DEF VotesIn, BackInv, LeavesInv, WrittenTogether
  <2>2. body[v] # NoBody
    BY <2>1 DEF BackInv, TypeOK
  <2> QED BY <2>1, <2>2 DEF CacheInv, CacheSettled, Settled, Accounted
<1>2. BackInv /\ ReaderShape /\ CacheInv /\ [AuditNext]_auditVars => CacheInv'
  BY CacheStep
<1>3. AuditSpec => [](BackInv /\ ReaderShape)
  BY AuditInvariant, PTL DEF FoundedInv
<1> QED BY CacheInit, <1>1, <1>2, <1>3, PTL DEF AuditSpec
=============================================================================
