------------------------------- MODULE Results -------------------------------
(***************************************************************************)
(* Reading the results of a contest, and the cache the backend keeps of    *)
(* them (app/service/result_service.py), composed with voting and with the *)
(* contest rows.                                                           *)
(*                                                                         *)
(* A result is abstracted to the committed votes it counts.  The cache     *)
(* lives in the memory of the one backend process: it is not part of any   *)
(* transaction, and is lost when the process restarts.                     *)
(*                                                                         *)
(*   idle -> asked -> closed -> missed -> judged -> computed -> answered   *)
(*                         \________ a cached result _________/            *)
(***************************************************************************)
EXTENDS Voting

CONSTANTS
    Readers,     \* GET requests for results
    NoResult

ASSUME ReaderAssumption ==
    Readers \subseteq Lockers /\ Readers \cap (Writers \cup Requests) = {}

VARIABLES
    cache,       \* result cached for each contest
    reader,      \* results requests in progress
    openings     \* history: how often each contest came to be open

resultVars == <<cache, reader, openings>>
allVars == <<vars, resultVars>>

NoAsk == [stage |-> "idle"]
NoOpening == -1

ResultsInit ==
    /\ Init
    /\ cache = [c \in Contests |-> NoResult]
    /\ reader = [g \in Readers |-> NoAsk]
    /\ openings = [c \in Contests |-> 0]

-----------------------------------------------------------------------------
VotesIn(c) == {r \in votes : body[r].contest = c}

(* Votes on the way that have read the contest, to be judged by that.      *)
OnTheWay(c) ==
    {r \in Requests : body[r] # NoBody /\ InFlight(r) /\ body[r].contest = c
                        /\ pc[r] \notin {"received", "issued", "begun"}}

(* Voting is possible now, whatever the stored status says.                *)
IsOpen(c) == Synced(now, contest[c]).status = "OPEN"

(* The route reads the contest, as any GET does.                           *)
Ask(g, c) ==
    /\ reader[g].stage = "idle"
    /\ contest[c].status # "ABSENT"
    /\ reader' = [reader EXCEPT ![g] = [stage |-> "asked", on |-> c, seen |-> contest[c]]]
    /\ UNCHANGED <<vars, cache>>

(* Results are only available of a closed contest.                         *)
PastGate(row) == row.status = "CLOSED"

(* The opening a result comes after that rests on this status: none when   *)
(* it is CLOSED but the schedule, or an official meanwhile, says open.     *)
ComesAfter(c, status) == IF status = "CLOSED" /\ IsOpen(c) THEN NoOpening ELSE openings[c]

Admitted(g, row) ==
    reader' = [reader EXCEPT ![g] =
                 IF PastGate(row)
                 THEN [stage |-> "closed", on |-> reader[g].on,
                       since |-> ComesAfter(reader[g].on, row.status)]
                 ELSE NoAsk]

Gate(g) ==
    /\ reader[g].stage = "asked"
    /\ ~SyncNeeded(now, reader[g].seen)
    /\ Admitted(g, reader[g].seen)
    /\ UNCHANGED <<vars, cache>>

(* The read syncs the status first; refused, the update is rolled back.    *)
SyncThenGate(g) ==
    LET c == reader[g].on
        row == [reader[g].seen EXCEPT !.status = ImpliedStatus(now, reader[g].seen)]
    IN  /\ reader[g].stage = "asked"
        /\ SyncNeeded(now, reader[g].seen)
        /\ LockFree(c)
        /\ Admitted(g, row)
        /\ rowLock' = [rowLock EXCEPT ![c] = IF PastGate(row) THEN g ELSE @]
        /\ UNCHANGED <<othersVars, reqVars, issued, boxVars, cache>>

CacheHit(g) ==
    /\ reader[g].stage = "closed"
    /\ cache[reader[g].on] # NoResult
    /\ reader' = [reader EXCEPT ![g] = [stage |-> "answered", on |-> reader[g].on]]
    /\ UNCHANGED <<vars, cache>>

CacheMiss(g) ==
    /\ reader[g].stage = "closed"
    /\ cache[reader[g].on] = NoResult
    /\ reader' = [reader EXCEPT ![g].stage = "missed"]
    /\ UNCHANGED <<vars, cache>>

(* The contest row as this transaction sees it, its own update included.   *)
StatusSeenBy(g, c) == IF rowLock[c] = g THEN "CLOSED" ELSE contest[c].status

CacheableAny(c, status) == TRUE   \* mutant: interim results are cached too

(* The result of a referendum is cached without looking at its status.     *)
Cacheable(c, status) == Method[c] = "REFERENDUM" \/ status = "CLOSED"

(* An election is read again, for its method and whether to cache.         *)
ReadElection(g) ==
    LET c == reader[g].on IN
    /\ reader[g].stage = "missed"
    /\ Method[c] # "REFERENDUM"
    /\ reader' = [reader EXCEPT ![g] =
                    [stage |-> "judged", on |-> c,
                     since |-> ComesAfter(c, StatusSeenBy(g, c)),
                     keep |-> Cacheable(c, StatusSeenBy(g, c))]]
    /\ UNCHANGED <<vars, cache>>

(* The one query for the tally rows, or for the votes of a constituency.   *)
Compute(g) ==
    LET r == reader[g] IN
    /\ \/ r.stage = "judged"
       \/ r.stage = "missed" /\ Method[r.on] = "REFERENDUM"
    /\ reader' = [reader EXCEPT ![g] =
                    [stage |-> "computed", on |-> r.on, since |-> r.since,
                     keep |-> IF r.stage = "missed" THEN Cacheable(r.on, "CLOSED") ELSE r.keep,
                     counted |-> VotesIn(r.on), late |-> OnTheWay(r.on)]]
    /\ UNCHANGED <<vars, cache>>

Store(g) ==
    LET r == reader[g] IN
    /\ r.stage = "computed"
    /\ cache' = IF r.keep
                THEN [cache EXCEPT ![r.on] =
                        [counted |-> r.counted, late |-> r.late, since |-> r.since]]
                ELSE cache
    /\ reader' = [reader EXCEPT ![g] = [stage |-> "answered", on |-> r.on]]
    /\ UNCHANGED vars

(* The transaction ends, with the update of the status if it made one.     *)
Answer(g) ==
    /\ reader[g].stage = "answered"
    /\ contest' = [c \in Contests |->
                     IF rowLock[c] = g THEN [contest[c] EXCEPT !.status = "CLOSED"]
                     ELSE contest[c]]
    /\ rowLock' = Release(g)
    /\ reader' = [reader EXCEPT ![g] = NoAsk]
    /\ UNCHANGED <<now, writer, closedByHand, reqVars, issued, boxVars, cache>>

(* It is rolled back instead; what was cached stays.                       *)
ReadFails(g) ==
    /\ reader[g].stage # "idle"
    /\ rowLock' = Release(g)
    /\ reader' = [reader EXCEPT ![g] = NoAsk]
    /\ UNCHANGED <<othersVars, reqVars, issued, boxVars, cache>>

(* The process stops and is started again: every transaction is rolled     *)
(* back and nothing is cached any more.                                    *)
Restart ==
    /\ rowLock' = [c \in Contests |-> NoLocker]
    /\ writer' = [w \in Writers |-> NoWork]
    /\ pc' = [r \in Requests |-> IF InFlight(r) THEN "refused" ELSE pc[r]]
    /\ reader' = [g \in Readers |-> NoAsk]
    /\ cache' = [c \in Contests |-> NoResult]
    /\ UNCHANGED <<now, contest, closedByHand, body, at, seenRow, target, count, issued, boxVars>>

ReaderStep(g) ==
    \/ \E c \in Contests : Ask(g, c)
    \/ Gate(g) \/ SyncThenGate(g) \/ CacheHit(g) \/ CacheMiss(g) \/ ReadElection(g)
    \/ Compute(g) \/ Store(g) \/ Answer(g) \/ ReadFails(g)

(* Whatever happens, a contest that comes to be open is one opening more.  *)
CountOpenings ==
    openings' = [c \in Contests |-> openings[c] + IF ~IsOpen(c) /\ IsOpen(c)' THEN 1 ELSE 0]

ResultsNext ==
    /\ \/ Next /\ UNCHANGED <<cache, reader>>
       \/ \E g \in Readers : ReaderStep(g)
       \/ Restart
    /\ CountOpenings

ResultsSpec == ResultsInit /\ [][ResultsNext]_allVars

-----------------------------------------------------------------------------
(* A cached result misses no vote but those already on their way when it   *)
(* was computed, unless the contest has come to be open since it was judged *)
(* closed, or had by then, the row judged being stale (result_service.py:32, *)
(* "Closed election/referendum results are immutable").                    *)
CacheMissesOnlyLateVotes ==
    \A c \in Contests :
        cache[c] # NoResult /\ cache[c].since = openings[c] =>
            VotesIn(c) \ cache[c].counted \subseteq cache[c].late
=============================================================================
