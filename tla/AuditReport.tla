----------------------------- MODULE AuditReport -----------------------------
(***************************************************************************)
(* Error reports with the investigations they open, and the audit report   *)
(* an administrator asks for (app/service/error_report_service.py,         *)
(* investigation_service.py, audit_report_service.py), composed with       *)
(* voting, the contest rows and the results requests.                      *)
(*                                                                         *)
(* An audit report is a GET request like one for results, but a sequence   *)
(* of queries, each of which sees what is committed by then:               *)
(*                                                                         *)
(*   idle -> headed -> events -> turnout -> issuance -> usage -> period    *)
(*        -> reported                                                      *)
(*                                                                         *)
(* A number in the report is abstracted to the set of rows it counts.      *)
(***************************************************************************)
EXTENDS Results

CONSTANTS
    Cases,         \* discrepancies officials may report
    CaseContest,   \* the contest each is about
    CasePatches    \* bodies of the PATCH requests for an investigation

ASSUME CaseAssumption == CaseContest \in [Cases -> Contests]

VARIABLE
    file           \* committed error_report and investigation rows

auditVars == <<allVars, file>>

Closing == {"RESOLVED", "CLOSED"}
CaseStatuses == {"OPEN", "IN_PROGRESS"} \cup Closing

(* A resolution_summary: missing, or sent and empty, or sent with a text.  *)
Summaries == {"none", "empty", "text"}

(* An investigation: its status, its summary and whether it has a          *)
(* resolved_at.                                                            *)
Investigations ==
    [status : CaseStatuses \cup {"ABSENT"}, summary : Summaries, resolved : BOOLEAN]

NotFiled == [status |-> "ABSENT", summary |-> "none", resolved |-> FALSE]

CaseUpdates == [status : CaseStatuses \cup {NoStatus}, summary : Summaries]

ASSUME CasePatchAssumption == CasePatches \subseteq CaseUpdates

(* The backend has answered finitely many requests and issued finitely     *)
(* many tokens.                                                            *)
ASSUME FiniteAssumption == IsFiniteSet(Requests) /\ IsFiniteSet(Tokens)

AuditInit == ResultsInit /\ file = [k \in Cases |-> NotFiled]

-----------------------------------------------------------------------------
(* The report, its investigation and the two audit rows are one            *)
(* transaction.                                                            *)
CreateErrorReport(k) ==
    /\ file[k] = NotFiled
    /\ contest[CaseContest[k]].status # "ABSENT"
    /\ file' = [file EXCEPT ![k] = [NotFiled EXCEPT !.status = "OPEN"]]

(* A status that ends the case is sent with a summary that is not empty;   *)
(* without such a status the summary is not looked at.                     *)
Explains(patch) == patch.status \in Closing => patch.summary = "text"

(* One UPDATE of the columns that were sent, an empty summary among them,  *)
(* whatever the row says by then, and an audit row; nothing is read before.*)
UpdateInvestigation(k, patch) ==
    /\ file[k] # NotFiled
    /\ patch.status # NoStatus \/ patch.summary # "none"
    /\ Explains(patch)
    /\ file' = [file EXCEPT ![k] =
                  [status |-> IF patch.status = NoStatus THEN @.status ELSE patch.status,
                   summary |-> IF patch.summary = "none" THEN @.summary ELSE patch.summary,
                   resolved |-> @.resolved \/ patch.status \in Closing]]

-----------------------------------------------------------------------------
(* Every vote leaves a VOTE_CAST row, every case an ERROR_REPORT_CREATED   *)
(* and an INVESTIGATION_OPENED row, in the transaction that writes it.     *)
(* The rows of a case name its contest; the VOTE_CAST row of a vote names  *)
(* its election, but no referendum.                                        *)
CastEvents(c) == IF Method[c] = "REFERENDUM" THEN {} ELSE VotesIn(c)

CasesOf(c) == {k \in Cases : file[k] # NotFiled /\ CaseContest[k] = c}

LedgerOf(c) == {r \in ledger : body[r].contest = c}

(* The ballot tokens of a contest: those issued in advance and those a     *)
(* POST /vote issued for itself.                                           *)
ContestOf(t) == IF t \in Tokens THEN issued[t].contest ELSE body[t].contest
TokensOf(c) ==
    {t \in Tokens : issued[t].contest = c} \cup
    {r \in votes : body[r].kind = "vote" /\ body[r].contest = c}

UsedOfAny(c) == used   \* mutant: the tokens of every contest are counted
UsedOf(c) == {t \in used : ContestOf(t) = c}

OpenCasesOf(c) ==   \* mutant: resolved investigations are left out
    {k \in CasesOf(c) : Method[c] # "REFERENDUM" /\ file[k].status \notin Closing}

(* Investigations are selected by election_id: a referendum has none.      *)
ListedCases(c) == IF Method[c] = "REFERENDUM" THEN {} ELSE CasesOf(c)

(* The contest row is read as it is stored, without a sync.                *)
AskReport(g, c) ==
    /\ reader[g].stage = "idle"
    /\ contest[c].status # "ABSENT"
    /\ reader' = [reader EXCEPT ![g] = [stage |-> "headed", on |-> c, row |-> contest[c]]]

(* The event counts.  The timeline, read next, is the events of officials  *)
(* again.                                                                  *)
CountEvents(g) ==
    LET r == reader[g] IN
    /\ r.stage = "headed"
    /\ reader' = [reader EXCEPT ![g] =
                    [stage |-> "events", on |-> r.on, row |-> r.row,
                     cast |-> CastEvents(r.on), opened |-> CasesOf(r.on)]]

(* The turnout by constituency and the seats come from the tally rows,     *)
(* before and after the number of votes, which comes from the ledger.      *)
CountLedger(g) ==
    LET r == reader[g] IN
    /\ r.stage = "events"
    /\ reader' = [reader EXCEPT ![g] =
                    [stage |-> "turnout", on |-> r.on, row |-> r.row, cast |-> r.cast,
                     opened |-> r.opened, voted |-> LedgerOf(r.on)]]

CountIssued(g) ==
    LET r == reader[g] IN
    /\ r.stage = "turnout"
    /\ reader' = [reader EXCEPT ![g] =
                    [stage |-> "issuance", on |-> r.on, row |-> r.row, cast |-> r.cast,
                     opened |-> r.opened, voted |-> r.voted, tokens |-> TokensOf(r.on)]]

FullyReconciled(voted, tokens, spent) ==
    /\ Cardinality(spent) = Cardinality(voted)
    /\ Cardinality(spent) <= Cardinality(tokens)

CountUsed(g) ==
    LET r == reader[g] IN
    /\ r.stage = "issuance"
    /\ reader' = [reader EXCEPT ![g] =
                    [stage |-> "usage", on |-> r.on, row |-> r.row, cast |-> r.cast,
                     opened |-> r.opened, voted |-> r.voted,
                     reconciled |-> FullyReconciled(r.voted, r.tokens, UsedOf(r.on))]]

InsidePeriod(q, row) == WithinWindow(at[q] + 1, row)   \* mutant: the last instant is outside
InPeriod(q, row) == WithinWindow(at[q], row)

(* The vote rows: how many, by constituency, the earliest and the latest,  *)
(* against the times of the contest row read first.                        *)
CheckPeriod(g) ==
    LET r == reader[g] IN
    /\ r.stage = "usage"
    /\ reader' = [reader EXCEPT ![g] =
                    [stage |-> "period", on |-> r.on, row |-> r.row, cast |-> r.cast,
                     opened |-> r.opened, voted |-> r.voted, reconciled |-> r.reconciled,
                     recorded |-> VotesIn(r.on),
                     inWindow |-> \A q \in VotesIn(r.on) : InPeriod(q, r.row)]]

ListInvestigations(g) ==
    LET r == reader[g] IN
    /\ r.stage = "period"
    /\ reader' = [reader EXCEPT ![g] =
                    [stage |-> "reported", on |-> r.on, row |-> r.row, cast |-> r.cast,
                     opened |-> r.opened, voted |-> r.voted, reconciled |-> r.reconciled,
                     recorded |-> r.recorded, inWindow |-> r.inWindow,
                     listed |-> ListedCases(r.on)]]

Deliver(g) ==
    /\ reader[g].stage = "reported"
    /\ reader' = [reader EXCEPT ![g] = NoAsk]

ReportStep(g) ==
    \/ \E c \in Contests : AskReport(g, c)
    \/ CountEvents(g) \/ CountLedger(g) \/ CountIssued(g) \/ CountUsed(g) \/ CheckPeriod(g)
    \/ ListInvestigations(g) \/ Deliver(g)

CaseStep(k) == CreateErrorReport(k) \/ \E patch \in CasePatches : UpdateInvestigation(k, patch)

AuditNext ==
    \/ ResultsNext /\ UNCHANGED file
    \/ \E g \in Readers : ReportStep(g) /\ UNCHANGED <<vars, cache, openings, file>>
    \/ \E k \in Cases : CaseStep(k) /\ UNCHANGED allVars

AuditSpec == AuditInit /\ [][AuditNext]_auditVars

-----------------------------------------------------------------------------
(* A report that does not reconcile is no false alarm: unless a vote was   *)
(* committed after the ledger was counted, two votes of the contest have   *)
(* spent one token (audit_report_service.py:412, tokens used against       *)
(* ledger entries).                                                        *)
ReportReconciles ==
    \A g \in Readers :
        LET r == reader[g] IN
        r.stage \in {"usage", "period", "reported"} /\ ~r.reconciled =>
            \/ VotesIn(r.on) # r.voted
            \/ \E p, q \in VotesIn(r.on) : p # q /\ TokenOf(p) = TokenOf(q)

(* A report that finds a vote outside the voting window finds one that was *)
(* judged by other times than the report shows: an official changed the    *)
(* schedule, no vote was let in early or late (audit_report_service.py:501).*)
WindowBreachExplained ==
    \A g \in Readers :
        LET r == reader[g] IN
        r.stage \in {"period", "reported"} /\ ~r.inWindow =>
            \E q \in VotesIn(r.on) :
                seenRow[q].opens # r.row.opens \/ seenRow[q].closes # r.row.closes

(* The sections of a report, queried one after the other while votes and   *)
(* cases arrive, agree in one direction: every vote in the ledger is       *)
(* recorded, and in the report of an election every vote among the events  *)
(* is in the ledger and every investigation the events speak of is listed  *)
(* (audit_report_service.py:75).  The report of a referendum has no vote   *)
(* among its events and lists no investigation.                            *)
ReportNeverForgets ==
    \A g \in Readers :
        LET r == reader[g] IN
        r.stage = "reported" =>
            /\ r.voted \subseteq r.recorded
            /\ Method[r.on] # "REFERENDUM" => r.cast \subseteq r.voted /\ r.opened \subseteq r.listed

(* Updates that leave the status alone and send an empty summary.          *)
Blanking == {patch \in CasePatches : patch.status = NoStatus /\ patch.summary = "empty"}

(* Whatever officials send in any order, an investigation that is resolved *)
(* or closed says since when, and why unless its summary was blanked by an *)
(* update without a status, the one kind that is not checked               *)
(* (investigation_service.py:118).                                         *)
ResolvedSaysWhy ==
    \A k \in Cases :
        file[k].status \in Closing =>
            /\ file[k].resolved
            /\ \/ file[k].summary = "text"
               \/ (file[k].summary = "empty" /\ Blanking # {})
=============================================================================
