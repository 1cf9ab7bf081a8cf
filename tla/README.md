# A TLA+ verification of the e-voting system

This directory specifies the program in `src/`: how people come to be voters
and prove who they are, how contests open and close, how ballots are marked,
cast, tallied and counted, and who among the officials may do what. The
specifications are written from the Python backend and from the React pages
that drive it, with the tests, the comments and the two guides (`README.md`,
`OfficialGuide.md`) as statements of intent to compare the code with. TLC checks
them on small instances; TLAPS proves the most important properties for every
value of the constants.

Paths are relative to `src/backend/app/` unless they start with `frontend/`
(`src/frontend/src/`) or name a guide.

## 1. The system

A FastAPI backend over PostgreSQL, a React front end for voters and one for
officials. Every request gets one SQLAlchemy session and one transaction
(`application/api/dependencies.py:87`, `get_db`): commit when the handler
returns, rollback when it raises. Isolation is PostgreSQL's default, READ
COMMITTED. The backend is one process (the `CMD` of `backend/Dockerfile`,
restarted when it stops) with one event loop: requests interleave at every
`await`, and there is no lock and no queue besides the row locks of UPDATE
statements and the unique constraints of the migrations. There is no background
job: a contest whose time has come is opened or closed by the next request that
reads it. What the browser remembers between two requests (tokens, polls that
were not cancelled, marks of an earlier ballot) is state of the system as much
as the rows are.

| Component | State | Operations | What makes it correct |
|---|---|---|---|
| Voting schedule rules (`application/core/voting_window.py`, `service/voting_schedule_status_sync.py`) | none, pure | is a contest in its window, which status does the window imply, does a stored status give way | both ends of the window included, DRAFT and CANCELLED never overruled |
| Contest lifecycle (`service/election_service.py`, `referendum_service.py`, repositories) | `election`, `referendum` rows | create, PATCH by officials, sync on every GET | status moves along the transition table; a manual close or reopening is not undone by the schedule; concurrent requests do not undo each other |
| Casting votes (`service/voting_service.py`, `ballot_service.py`, tally, vote, ledger, token repositories) | `vote`, `voter_ledger`, `ballot_token`, `tally_result` rows | issue tokens, `/vote`, `/cast`, `/vote-referendum`, `/cast-referendum` | one vote per voter, a token is spent once, tallies equal votes, only admissible ballots, a refused request leaves nothing |
| Counting ranked ballots (`service/result_service.py`, `_stv_count`, `_av_count`) | local variables of a count | rounds of election, transfer and elimination | ends, seats nobody twice, respects the quota and the majority |
| Results requests and their cache (same file, results routes) | two dictionaries in the process | the gate on closed contests, lookup, computation, caching | what is cached is the result, whatever votes, officials and the schedule do meanwhile |
| Official accounts and tokens (`service/auth_service.py`, `official_service.py`, `/auth`, `/official`, officials' pages) | `election_official` rows, tokens in browsers | login, refresh, new password, create, PATCH, deactivate, seed | withdrawn authority ends, decisions of administrators stand, a chosen password stays |
| Voter registration (`service/voter_service.py`, `kyc_service.py`, `registrationDetails.tsx`) | `voter`, `voter_passport` rows, identity sessions, the form | start a session, poll it, `POST /voter/register`, resume | one voter per number given, a document of their own behind each, who is interrupted gets the same voter back |
| Voter records (`service/address_service.py`, `address_verification_service.py`, `biometric_service.py`, `voter_service.py`, `voterRegisterPage.tsx`) | `address`, `device_credential` rows, status and constituency of the voter | add, change, delete, prove an address; enrol, revoke a device; activate | ACTIVE exactly when an address is proved and a device enrolled; the constituency follows the current address; one device signs |
| Biometric verification (`service/biometric_service.py`, `biometricVerification.tsx`, `mobileVerifyPage.tsx`) | challenges, credentials with their last use, polls of the page | challenge, sign, verify; poll, give up, cancel | a page is opened only by a proof made for it, and notices it |
| Email codes (`service/email_verification_service.py`, `emailCodeVerification.tsx`) | `email_verification` rows | send, resend, verify | a code is accepted once and dies when a later one is sent, for checks that nothing overtakes |
| The ballot page (`voteCastingPage.tsx`, `electionSelection.tsx`, `candidateSelection.tsx`, `voteConfirmation.tsx`) | the marks, the timer, the submission awaited | choose, mark, go back, submit, retry | ranks in order, nothing malformed is sent, a receipt is true, retrying does not vote twice |
| Encryption keys (`service/keys_manager_service.py`, `encryption_mapper_service.py`) | `encryption_key` rows, versions and search tokens of records | make on first use, rotate, encrypt, find, decrypt | what was written stays readable and findable, what is written next uses the newest key |
| Seats from tallies (`service/result_service.py`, `_results_fptp`, `_results_ams`) | local variables over the tally rows | seats of constituencies, top-up seats, the party declared | top-up seats correct in the direction of the list votes, one winner at most |
| Error reports and investigations (`service/error_report_service.py`, `investigation_service.py`) | `error_report`, `investigation` rows | file a discrepancy, update an investigation | who closes a case says why |
| Audit trail and reports (`service/audit_report_service.py`) | `audit_log` rows | a report in a dozen queries | a report that finds something amiss has found something |
| Candidates, parties, constituencies, ledger queries; passports; HTTP layer; infrastructure | see section 6 | | |

How they interact. The contest row is shared by officials, by every GET that
syncs it, and by every vote, which judges by it and may sync it too. A vote reads
or writes eight tables in one transaction. Counting reads the vote and tally rows
once the contest row says it is closed, and keeps the answer in memory. The page
reaches the vote only after verification, which it learns of by polling the last
use of a credential; the backend's voting handlers do not depend on it.
Registration makes the voter row that addresses and enrolment then share, each in
transactions of its own, and both end in the same activation rule. Every personal
field passes through the keys.

What is hard: nearly every check is a read without a lock, separated by
several awaits from the write it guards; failures roll back work the client may
have been told about; answers are lost after a commit and the page offers the
button again; polls outlive the page state that started them; the status of a
contest is decided on a row that may be stale when the UPDATE runs; results stay
in a cache no transaction touches; ties, exhausted ballots and the order of
append and transfer decide seats; a report adds up numbers it read at a dozen
different instants. `PROJECT.json` lists these hazards line by
line, with the properties that cover each.

## 2. Modules

| Module | Models | Kind |
|---|---|---|
| `VotingSchedule` | windows, statuses, transitions, column updates | operators |
| `ContestStatus` | contest rows, the clock, requests that write them | state machine |
| `OfficialsInTurn` | the same rows with the history "two requests overlapped", and what is promised until then | properties |
| `Ballots` | ballots of each electoral system: validation, the vote rows and the tally they lead to | operators |
| `OneVote` | what voting promises: a box where an entitled voter casts one valid ballot | abstract state machine |
| `Voting` | votes, ledger, tokens, tallies under concurrent requests, composed with `ContestStatus`; refines `OneVote` | state machine |
| `Results` | results requests and the cache, composed with `Voting` | state machine |
| `AuditReport` | error reports, investigations, audit reports, composed with `Results` | state machine |
| `RankedCount` | the STV and AV counts of one constituency | state machine |
| `SeatAllocation` | FPTP and AMS seats, the party declared under every system, composed with `RankedCount` | state machine |
| `OfficialAccounts` | accounts, tokens, browsers of officials | state machine |
| `Registration` | form, identity sessions, the insert of the voter | state machine |
| `VoterRecords` | addresses, devices and the activation of one voter, with the page that leads through them | state machine |
| `Verification` | phones, proofs, email codes and the page that waits for them | state machine |
| `VotingPage` | the page that marks and submits ballots, against the server's check and commit | state machine |
| `KeyRing` | what the keys promise: a ring that only grows, a register in which a value is written once under a version | abstract state machine |
| `Keys` | keys, rotations and the records encrypted with them; refines `KeyRing` | state machine |
| `VotingProofs` | theorems about `ContestStatus`, `OfficialsInTurn`, `Voting`, `Results`, `AuditReport` | proofs |
| `RankedCountProofs` | theorems about `RankedCount` and `SeatAllocation` | proofs |
| `OfficialAccountsProofs`, `RegistrationProofs`, `VoterRecordsProofs`, `VerificationProofs`, `VotingPageProofs`, `KeysProofs` | theorems about the module of that name | proofs |
| `MC...` | instances for TLC | values of constants |

`Voting` EXTENDS `ContestStatus` (which EXTENDS `VotingSchedule`) and `Ballots`:
its next-state relation has the steps of officials, syncs and the clock beside
those of voting requests, and `rowLock` is shared between them. `Results` EXTENDS
`Voting` in turn, and `AuditReport` extends `Results`: officials, votes, reads of
results and audit reports are steps of one system, `AuditSpec`. `SeatAllocation`
EXTENDS `RankedCount`. `RankedCount` and `VotingPage` EXTEND `Ballots`: the ballots
counted are the rows that voting writes, and the ballots the page sends are
judged by the validation of the service. The others share no state with these and stand alone;
each says at its head what it leaves to which other.

Common conventions. A request is read off its stage: what it has inserted is
invisible until it commits and vanishes when it fails, so it appears in no
variable of the tables before. One action stands for the code between two reads
or writes of shared rows. Row locks are modelled where two transactions can meet
on a row; where the write and the commit follow one another without a
third party that could tell, they are one step, and the module says so. `Fail`
(in `ContestStatus` `Rollback`, in `Registration` also `Lose`) is an exception, a
lost connection or a crash before the commit. A definition whose name is that of
another with a suffix (`...Any`, `...AsLoaded`, `...None`) and whose comment starts with `mutant:` is a plausible
bug, used to show that a property depends on the code.

### ContestStatus

* `contest[c]` is the committed row, `"ABSENT"` before the insert commits; NULL
  times are `NoTime`. Titles, scope and descriptions are left out.
* `now` is the wall clock all processes read. The model's instants are coarse, so
  a manual close decided at an instant commits at a later one (`ClockAdvanced`):
  between the two lie at least three round trips to the database.
* `writer[w]` is a request that will write: what it read (`seen`), what it will
  write (`patch`), and the row once written (`new`). `BeginUpdate` is
  `update_election` up to its UPDATE, with validation and the snap of
  `voting_closes`; `Write` is the UPDATE with the follow-ups the code decides on
  the session's object (drop of a past `voting_closes`, sync after a change of
  times alone); `Commit` and `Rollback` are the two ends of `get_db`. `BeginSync`
  is the part of any GET that finds the row out of step.
* `closedByHand` is a history variable: the last official decision was to close.

### Voting

* `pc[r]` is the progress of a request through `cast_vote` or
  `cast_referendum_vote`: token issue (`IssueOwnToken`, only on `/vote`), taking
  `now` (`Begin`), reading the contest, the check of status and window with or
  without a sync of the row, voter and ledger, token and candidates, marking the
  token, looking up the tally row, incrementing or inserting it, commit.
* Rows a request inserts are named after the request. `votes`, `ledger` and `used`
  are the committed rows; `tally[r]` is the count in the tally row `r` inserted, 0
  when it inserted none; `target` and `count` are the tally row found and its
  count. The code adds in SQL (`vote_count + 1`), so what is written counts from
  the row as it is committed once the lock is held.
* `Barred` stands for age and residence rules, `Candidates` for the candidate
  table. The tables are as the migrations leave them: no unique constraint on
  voter and contest in `voter_ledger`, none on candidate and constituency in
  `tally_result`.

### Results and RankedCount

* `reader[g]` is one GET for results: the route reads the contest (`Ask`), syncs
  it like any read and refuses one that is not closed (`Gate`, `SyncThenGate`),
  looks in the cache (`CacheHit`, `CacheMiss`), reads an election once more
  (`ReadElection`), queries (`Compute`), caches (`Store`), ends its transaction
  (`Answer`, `ReadFails`). A result is the set of committed votes it counts.
  `cache` is process memory: a reader that is rolled back leaves its entry
  behind; `Restart` empties it. Referendum results are cached whatever the status,
  election results when the second read found the contest closed (`Cacheable`).
* A step of `RankedCount` is one pass of a `while` loop, seating one step per seat
  (`STVSeat`). Python dicts keep insertion order, so ties go to the candidate whose
  first ballot comes first (`Place`). Weights are floats in the code; the model
  counts in multiples of `1/Unit` and rounds down.

### AuditReport

* A report is a GET like one for results and uses the same `reader[g]`, but it goes
  through the queries of `generate_election_report` one after the other, each of which
  sees what is committed by then: the contest row (`AskReport`, no sync), events
  (`CountEvents`), ledger and turnout (`CountLedger`), tokens issued and used
  (`CountIssued`, `CountUsed`), the vote rows against the window (`CheckPeriod`), the
  investigations (`ListInvestigations`). A number is abstracted to the set of rows it
  counts. The queries over vote rows (lines 391-524) are one step: votes are only
  ever added, and no property compares two of those queries.
* `CastEvents` are the VOTE_CAST rows the report can attribute. Those of a referendum
  carry no `referendum_id` (`voting_service.py:449`), so a referendum has none, however
  many voted in it.
* `file[k]` is the investigation a reported discrepancy opens. `UpdateInvestigation`
  is one unconditional UPDATE of the columns sent; only the request is validated, and
  its summary only when it closes the case: an empty one without a status is written
  over the text of a closed case.

### SeatAllocation

* `votes` and `lists` are the tally rows of candidates and parties, 0 for a row that
  is not there; list tallies come from a constant of their own, since only the seed
  scripts write them. Rows come in no order, so ties fall either way
  (`SeatPlurality`, `GiveTopUp`). A step of AMS is one pass of the top-up loop; the
  quotients are compared by cross-multiplication.

### OfficialAccounts

* `account[u]` is the committed row, with the password as a model value; hashing
  and signing are external. `session[b]` is what browser `b` has stored: signed
  tokens are kept by nobody else, and the server takes the role of a bearer token
  at its word (`dependencies.py:444`). A bearer token is either of the pair:
  `get_current_user` does not look at `token_type` (`Bearer`).
* `call[b]` is the one request a browser has under way: what it read (`seen`) and
  the columns it will send (`sets`). `Login`, `LoginFails`, `Refresh`,
  `ChangePassword`, `CreateOfficial`, `UpdateOfficial`, `SetActive` are the handlers
  up to the decision; `AnswerLogin`, `AnswerRefresh`, `AnswerWrite`, `AnswerFailed`
  and `Fail` are the ends. `AnswerFailed` changes nothing: `login` counts the
  attempt, raises, and `get_db` rolls the count back. `SeedOfficials` is
  `GET /auth/seed-officials`. `Guard` and `Logout` are the browser's.
* `stood` is a history variable (when an account last was active in a role),
  `late` a ghost of tokens (the account changed while the token was being made).

### Registration

* `form[b]` is `registrationDetails.tsx`: what is typed, the session and status it
  shows, the polls that go on (`polls`), the voter id it was told. `Poll` writes
  the pair of session and status whichever session the form has by then.
* `stripe[s]` is a session at the identity service; anybody in the household may
  hold a document before the camera (`ShowDocument`).
* `call[b]` is the request: `RefuseKyc`, `FindPending` (resumes a PENDING voter),
  then, in a later step, `Insert` or `RefuseInsert` under the unique constraints.
  `Lose` fails the request, or commits it and loses the answer. `Activate` is what
  `VoterRecords` is about.
* A voter row is known by a hash of the number that was typed, insurance or passport,
  lowercased with its spaces, and nothing compares that number with the document:
  `Numbers` are what may be typed, by anybody, and `Carries` says that a row was
  filled in with a number. A person who spells theirs in two ways types two numbers.

### VoterRecords

* `address`, `key`, `voter` are the rows of one voter; `call[c]` the requests of
  its callers (the page, a phone, another client), with the rows they hold locked
  from their writes to the commit (`Held`). `ReadFor...` is the handler up to its
  writes, `Write...` the writes and the activation decided with what is committed
  by then and what the request wrote itself, `Commit...` the end.
* `page` is `voterRegisterPage.tsx`: the address it created, what it was told is
  proved, the poll for an enrolled device. Editing the address makes it forget both.
* Reading a document is a choice of the fields it shows: two of line, city and
  postcode will do. `crossed` is a history variable: a proof and an enrolment
  each decided while the other had not committed.
* `Alone` names callers whose requests overlap with no other.

### Verification

* `credential` is the list of device credentials, with the time of their last use
  counted in `proofs`, the verifications accepted so far. A phone scans the code
  of a page that waits (`ScanQr`), takes the key the server lists first
  (`HandleStartVerify`), captures and signs a challenge of its own
  (`HandleCaptureComplete`), and the server checks and commits. Matching and
  signatures are external: a match is a choice, a signature is good under its key.
* `page` is the page that asks: `HandleStartVerification` remembers the last use it
  sees (`Baseline`) and polls until it changes; a poll that is cancelled before its
  first answer goes on unseen. `GiveUp`, `HandleCancel`, `Reopen` as in the code.
* `code` is the list of email codes. Rows become visible with the commit, after
  the mail has gone; `sideBySide` is a history variable of sends that overlapped.
* `checking[q]` is a check of a code under way: `LookUpCode` reads the newest code that
  is good and compares it, `HandleVerifyCode` marks it used in a later step, whatever
  became of it since (`mark_used` has no condition), once no send holds its row.
  `overtaken` records that a later send or another check committed in between.

### VotingPage

* `page` is the visit, `request[s]` the submissions the server has not finished,
  `waits` the one whose answer is awaited. `MayVote` is the server's check and
  `Commit` its write, the two steps of `Voting` this page can tell apart;
  `TimedOut` is an answer that does not come within the client's limit.
* Marks are kept when the voter goes back and picks another contest; the page sends
  all of them and the server reads those of the contest's method (`Payload`).
* `Expire` is the ten-minute timer, which nothing stops after the vote is in.

### Keys

* A request makes the keys that are missing, a purpose at a time (`FindActive`,
  `CreateMissing`), takes the version of the active STORAGE key for all purposes
  (`BuildArgs`), asks for the keys of that version (`GetDeks`, `NoDek`), looks for
  the record and finds, misses or inserts it. `Fail` of an identity check commits:
  `verify_voter_identity` swallows errors. A rotation's UPDATE takes the rows that are
  there when it begins (`BeginRotation`), waits while another rotation holds one of
  them (`Deactivate`), and passes over what that one inserted, as the snapshot of a
  blocked statement does at READ COMMITTED; then it creates and commits.
* `FirstUseAlone` keeps other requests away from one that makes keys.
* `Ring` maps the committed rows to `KeyRing`: keys without their `active`, records without
  their token.

## 3. What is checked

Twelve runs; each cfg lists in `INVARIANTS` and `PROPERTIES` what `PROJECT.json`
lists for it. Sizes are distinct states.

| Run | Instance | What it shows | States |
|---|---|---|---|
| `life` | one contest, two writers that may overlap, clock 0..5, contests created as draft or published with no, an open-ended or a full window | whatever overlaps, times an official committed stand (`TimesChangeOnlyWhenSent`); until two requests overlap, only legal transitions, a manual close with an end of voting is stable, a reopening survives the next read | 806 000 |
| `vote_serial` | three requests, three voters, a token issued in advance, AMS papers of two constituencies, malformed ones among them, requests of a voter apart | one vote per voter, tokens spent once, tallies equal votes, committed votes are admissible, `Voting` implements `OneVote` | 340 000 |
| `vote_official` | two overlapping requests of one voter, an official, a window that opens and ends, clock 0..2 | a refused request leaves nothing; every request is answered | 123 000 |
| `double_vote` | two requests of one voter | violation: both are committed | - |
| `results_cache` | an election and a referendum, one vote, one reader of results and audit reports, an official, one discrepancy, clock 0..2, restarts | a cached result lacks no vote but those on their way when it was computed, as long as the contest did not open again; what a report finds amiss is explained, and its sections agree | 1 260 000 |
| `count_ranked` | three candidates, up to four ranked ballots, two seats, `Unit` 12; two constituencies, three parties, FPTP and AMS tallies | both counts end, elect whoever has a quota of first preferences, and never a candidate every other one beats; one party at most is declared, top-up seats never favour the party with fewer list votes | 160 000 |
| `officials` | an administrator and an officer at two browsers, two usernames, access tokens of one tick and refresh tokens of two, lockout after one failure, clock 0..3 | authority outlives its withdrawal by the life of a token of its kind at most; administrators' decisions and chosen passwords stand | 1 690 000 |
| `registration` | two people at two browsers, two numbers either may type, two identity sessions, three voter ids, one answer lost | one voter per number typed, a document of their own behind each, who applies by insurance number reaches their voter | 233 000 |
| `records` | page, phone and a client whose requests do not overlap the others', two addresses, two credentials, two constituencies | activation needs both halves and follows them; the constituency follows the current address; one device signs | 591 000 |
| `verification` | two phones, two credentials, two proofs, two codes, two checks at once | a page is opened by a proof made since it asked and notices it; no phone is refused its own key; codes die for checks that nothing overtook | 1 600 000 |
| `voting_page` | a ballot of each kind, two submissions at once, two visits, a referendum that may close | nothing malformed is sent, a receipt is true, retrying does not vote twice | 1 080 000 |
| `keys` | three requests, two rotations of any purposes, two values | records stay readable; until STORAGE is rotated everybody is found; `Keys` implements `KeyRing` | 233 000 |

**Why the bounds are enough.** The anomalies of READ COMMITTED that this code can
show need two transactions on a row and a third to observe them. Identities
(voters, candidates, people, phones) only tell same from different, so two of
each do, three where a third has to be a bystander.

* The clock of `life` reaches 5: a contest with every shape of window can be closed,
  reopened and overtaken by its window, with an instant before, at and after each
  end, while a second request holds a decision. `vote_official` needs instants
  before, in and after a window, hence 0..2 and a window that is instant 1.
* AMS has all that a ballot can do to the tally: a candidate (one tally row), a
  party alone (no row), nothing at all (refused). The other methods differ in
  `ValidPayload` and `TallyKey` only, which `voting_page` and the theorem on
  admissible votes take for every method.
* `results_cache` has one of each party to a race over the cache: a vote that passes
  its checks before the close and commits after the result is computed, an official
  who closes and reopens, an end of voting that passes, a restart. The audit reports
  share the run: a vote, a case and a change of the schedule fall between any two of
  their queries. With one vote no token can be spent twice, so there the run shows
  that a failed reconciliation missed a vote; the other excuse of `ReportReconciles`
  is needed only in the theorem.
* The tallies of `count_ranked` are those in which a tie, a party without seat, a
  party without list votes, a constituency without votes and a top-up seat that goes
  against the constituencies happen.
* Four ballots over three candidates give ties, exhausted ballots, two quotas at
  once and elimination down to nobody; with two seats and `Unit` 12 every division
  of such counts is exact. The code's five seats are any number in the theorem.
* `officials`: a refresh token that outlives an access token by one is what it takes
  to refresh once after a demotion and see the next refresh refused; instant 3 is the
  one at which a refresh token made at instant 0 or 1 no longer works as a bearer.
* `registration`: a session left for another while its poll goes on, a document of
  the other person, two requests that overlap, and one answer lost; a third voter
  id would be the duplicate.
* `records`: two addresses are a current and a past one, changing places; two
  credentials are an old and a new phone. Overlaps between page and phone are free.
* `verification`: with two credentials and two proofs a proof of the old phone, a
  proof of the new one, and the re-enrolment between them fall in every order. Two
  checks of a code are one check and another that overtakes it; a resend is the other way.
* `voting_page`: two slots are a submission and its retry; a visit after the timer
  has ended the first is the second.
* `keys`: a request that took its version before a rotation committed, one that
  takes it after, one that looks for what either wrote; two rotations for the same
  and for different purposes.

`SYMMETRY` is used in `life`, `vote_serial` and `keys`, over model values that occur
in no ordered position and in properties that are not liveness.
`CHECK_DEADLOCK FALSE` everywhere: clocks, requests and keys are bounded, so every
instance stops. Every bound is a constant or a set in the cfg, named for what it
bounds; one more is stated where it is taken (`ChooseMethod` in `Verification`:
who has asked for a code does not go on to the phone after all).

**Fairness.**

* `vote_official` uses `FairSpec`: weak fairness of each request's own next step, of
  the writer that holds or waits for a lock, and of the clock. The event loop runs
  every ready handler and PostgreSQL wakes a waiter when a lock is released.
  Nothing is assumed of officials, clients or failures.
* `count_ranked`: weak fairness of the count, one synchronous loop.
* `registration`: weak fairness of the button and of the server that has a request:
  applicants press until they are told their voter id. Failures are bounded by
  `MaxLost`, as a server that fails for ever serves nobody.
* `verification`: weak fairness of the poll, which the page repeats every two seconds
  for as long as it waits. Voters, phones and mails are not assumed to do anything.

**Mutants.** Every property of a passing run has a mutant definition, next to the one
it replaces, under which TLC finds the property violated in that run.

**Instances that lift a discipline.** Three constants rule out overlaps, and what
happens without them is known from running it: with `FirstUseAlone = FALSE` two first
uses leave two keys of version 1, violating `StaysReadable` and
`ImplementsKeyRing` (and the `RegisteredOnce` of the proofs); with two enrolling callers `OneDeviceSigns` fails; with
`Spec` for `SerialSpec`, `double_vote`.

## 4. What is proved

55 theorems in eight modules, for every value of the constants that satisfies the named
assumptions (types, disjoint sets, positive bounds). A theorem of the form
`D /\ Spec => []P` assumes a discipline `D`, defined and explained at the head of
its module or before the theorem; `ASSUME D PROVE Spec => []P` says the same of a
condition `D` on constants.

| Module | Theorem | Says |
|---|---|---|
| `VotingProofs` | `LifeTypeCorrect`, `OfficialTimesStand` | contest rows, whatever overlaps: types; `LifeSpec => TimesChangeOnlyWhenSent` |
| | `TransitionsAreLegal`, `ReopenSurvives` | officials in turn: `TurnSpec =>` `SerialTransitionsAreValid`, `SerialReopenSurvives` |
| | `ManualCloseStays` | `ClosesAlone` and `TurnSpec => []ManualCloseStaysClosed` |
| | `TypeCorrect` | types of voting composed with the contests |
| | `NoDoubleVote`, `NoTokenReplay`, `Refinement` | under `SerialSpec`: `[]OneVotePerVoter`, `[]TokenSpentOnce`, and `ImplementsOneVote` |
| | `NothingLeftBehind`, `OnlyAdmissibleVotes`, `TalliesAddUp` | under `Spec`, overlaps included: `[]RefusedLeavesNothing`, `[]VotesAreAdmissible`, `[]TallyMatchesVotes` |
| | `NobodyWaitsInACircle`, `AnswersComeNearer` | under `Spec`: no deadlock of row locks (`[](NoCircle /\ SomebodyGoesOn)`), and a rank that every step of a request raises |
| | `CacheIsComplete` | under `AuditSpec`, restarts included: `[]CacheMissesOnlyLateVotes` |
| | `NoFalseAlarm`, `BreachesExplained`, `SectionsAgree`, `ClosedCasesExplained` | under `AuditSpec`: `[]ReportReconciles`, `[]WindowBreachExplained`, `[]ReportNeverForgets`, `[]ResolvedSaysWhy` |
| `RankedCountProofs` | `SeatsFilledOnce`, `OneMajority`, `TopUpsOnlyCorrect` | under `SeatSpec`: `[]ElectedOnce` for both ranked counts, `[]LoneMajority` for all five systems, `[]MoreVotesNoFewerSeats` for AMS |
| | `LoserNeverElected`, `QuotaIsElected` | under `SeatSpec`: `[]LoserNeverWins` for AV, `[]QuotaElects` for STV |
| | `NoSurplusMoves`, `RecountAgrees` | under `SeatSpec`: `[]SurplusStays`, every ballot keeps its whole weight in an STV count; `[]OneWayOn`, no step of a ranked count is a choice |
| | `NeverStuck`, `EndsInTime` | under `SeatSpec`: `[]GoesOn`, an unfinished count of any system has a next step; `EveryStepCounts`, which takes a natural number down |
| `OfficialAccountsProofs` | `TypeCorrect`, `OfficialDecisionsStand`, `OfficialPasswordStays`, `AuthorityEnds` | types; `DecisionsStand`, `ChosenPasswordStays`, `[]StaleAuthorityBounded` |
| `RegistrationProofs` | `TypeCorrect`, `OwnDocument` | types; `[]DocumentBehindVoter` |
| | `OneNumberOneVoter` | `[]OneVoterPerNumber` |
| `VoterRecordsProofs` | `TypeCorrect`, `ReadyBecomesActive` | types; `NoStatusSent /\ Spec => []ReadyIsActive` |
| | `ActivationNeedsBoth`, `OneDeviceEach` | `RemovesAlone /\ Spec => ActivatedByBoth`; `OneEnroller /\ Spec => []OneDeviceSigns` |
| | `WhereCurrentIsVoted` | `PageFiles /\ Spec => []VotesWhereCurrent` |
| `VerificationProofs` | `TypeCorrect`, `PageHadProof`, `PhonesAccepted`, `CodesEnd` | types; `[]VerifiedSinceAsked`, `[]NoPhoneLockedOut`, `CodesDie` |
| `VotingPageProofs` | `TypeCorrect`, `RanksStayInOrder`, `ChecksAgree`, `ReceiptIsTrue`, `ResendingIsSafe` | types; `[]RanksInOrder`, `[]NeverMalformed`, `[]ReceiptMeansRecorded`, `[]ResentVotesOnce` |
| `KeysProofs` | `RecordsStayReadable`, `NewestKeyIsActive`, `NobodyRegisteredTwice`, `VotersAreFound` | `FirstUseAlone` and `Spec =>` `[]StaysReadable`, `[]NewestIsActive`, `[]RegisteredOnce`, `[]FoundAgain` |
| | `Refinement` | `FirstUseAlone` and `Spec => ImplementsKeyRing` |
| | `RingKeepsPromise` | of `KeyRing` itself, and so of whatever implements it: `[](Readable /\ OncePerVersion)` |

The argument of each, which is its inductive invariant:

* *OfficialTimesStand.* That the row a request has written still fits the committed
  row when it commits is not inductive without the locks: `LocksMatch` says a writer
  holds the lock of a row exactly when it has written it, so nobody commits in
  between; `PendingInv` says what an uncommitted row owes to the committed one.
* *TransitionsAreLegal, ReopenSurvives.* `TurnInv`: until two requests overlap, one is in
  progress at most and the row it writes over is the row it has read
  (`Undisturbed`), so what was decided on the row read is true of the row written.
* *ManualCloseStays.* `CloseInv`: a contest closed by hand has no end of voting, or one
  that lies behind and the status CLOSED (`ClosedBehind`), and the request in progress
  will leave it so (`EndSettled`). The hypothesis `ClosesAlone` is what the portal's
  button does, which sends the status alone: a PATCH that sends CLOSED together with a
  later `voting_closes` writes a contest that the next read opens again.
* *NoDoubleVote, NoTokenReplay, Refinement.* `SerialInv`: vote, ledger row and used
  token are committed together (`WrittenTogether`), no two requests in flight share
  voter and contest, or token (`NoRivals`), whoever is past a check still has no
  committed vote or has an unused token (`Checked`), and committed votes are apart
  (`VotesApart`). `Checked` is the heart: a read made without a lock stays true
  because no rival can enter, which is exactly what `double_vote` breaks. The
  discipline `Apart` is the front end's (`voteConfirmation.tsx:41` ignores a second
  press while one is being submitted); the backend does not enforce it.
* *NothingLeftBehind.* `LeavesInv` adds to `WrittenTogether` that a tally row in use or
  targeted belongs to a committed request (`RowsCommitted`), and that whoever holds
  a contest row is past the check of its status (`LocksInFlight`): a request that is
  refused earlier has no lock to give back.
* *NobodyWaitsInACircle, AnswersComeNearer.* To `LeavesInv` it adds `OrderInv`: a row lock
  is held by a request past the check of the status or by a writer that has written
  its row (`LocksKnown`), which commits when the clock has moved on and can see it do
  so (`DecidedInTime`). Votes take the contest row before the row of their token and
  that before the tally row, so who waits waits for somebody further on (`NoCircle`),
  and following the chain three times ends with somebody whose guards hold
  (`SomebodyGoesOn`). `Ready`, which writes those guards out, is `ENABLED` of the step:
  TLC compared the two over all states of `vote_official`. Together with the rank
  these are what `EveryRequestAnswered` needs beside fairness.
* *OnlyAdmissibleVotes.* `JudgedInv`: what a request has found out at a stage is true of
  it from then on (`Judged`), since nobody writes its instant, its object of the row,
  or a token that was issued (`TokensSound`).
* *TalliesAddUp.* `TallyInv`: an increment written and not committed is one more than the
  row it is for (`WrittenOnTop`), which is locked against any other (`RowsHeldApart`)
  and is a row of the same contest and key (`TargetsFit`); each row counts the votes
  that found or inserted it (`RowsCount`). It is stated per tally row, which makes it
  stronger than an equation of sums and needs no sum, and it holds when two first
  votes leave two rows: the rows then share the votes between them.
* *CacheIsComplete.* `CacheInv` rests on the invariants of the three theorems before. A
  result computed after the contest was seen closed has counted every vote or has it
  in sight (`Accounted`): a vote that read the row later read it closed, or past its
  end, and `TurnedAway` says that such a vote will be refused, at either of its two
  checks, because a window is an interval (`WindowIsConvex`). That stays true until the
  contest comes to be open again, which `openings` counts. A schedule that changes
  between the read of the row and the judgement of it is why `Fresh` distinguishes a
  judgement that still stands from one that is behind (`Behind`).
* *The audit reports.* `FoundedInv`: what each stage of a report holds is contained in what
  is committed now. Votes, ledger rows and used tokens are committed together and
  never taken back (`VotesStand`), so a section read later sees at least as much. That
  an unreconciled report has missed a vote or met one token spent twice is a count: as
  many tokens used as votes when no two votes share one.
* *SeatsFilledOnce.* `CountInv`: the newly elected in the queue are in the running and
  occur once, and the queue is empty when all seats are filled.
* *LoserNeverElected.* `AVInv`: until a winner is declared nobody is elected, and after the
  first elimination two candidates at least still have ballots. Every ballot weighs
  `Unit` (`FullWeight`), so counts are numbers of ballots: a majority of the ballots that
  count prefers its candidate to each other one that is listed, and the survivor of
  the last pair does not lose the duel with the other. That weights add up to `Unit`
  times the number of ballots is an induction on the number of ballots, made with the
  least number for which it fails (`LeastNumber`, from `WellFoundedInduction`), which
  takes no operator as a parameter.
* *QuotaIsElected.* `STVInv`: whoever is first on a quota of ballots is elected, or the count
  has not begun, or the candidate is in the queue of the first round, in which only
  candidates with a quota of first preferences are. Those in that queue and those it
  has seated have disjoint ballots, a quota each, and `Seats + 1` quotas are more than
  all ballots (`DroopQuota`): nobody waits in vain.
* *NoSurplusMoves.* `FullWeight` is inductive, because the transfer looks for the ballots of
  a candidate who is no longer in the running. The theorem is the universal form of
  the disagreement with `OfficialGuide.md:138` in section 5.
* *NeverStuck, EndsInTime.* `TotalInv` has all of the above and says that a queue has places
  and an AV count somebody to count for (`StandsInv`). A lowest candidate, a best claim
  and a leading candidate always exist and a tie has one winner (`SomethingIsFirst`),
  so a guard holds, again `ENABLED` written out and compared by TLC. The variant is twice
  the candidates in the running, or the top-up seats still to give. They are
  `CountEnds` up to the fairness of a loop that runs.
* *RecountAgrees.* `PlacesApart`: places in the queue differ, since they are the order of the
  ballots, which also decides between equal counts.
* *OneMajority, TopUpsOnlyCorrect.* `SeatInv`: no more top-up seats than constituencies, a
  constituency elects one candidate at most, and the claim with which a party got its
  last top-up seat is still as good as anybody's claim to a next one
  (`LastClaimStands`). The last is the invariant of D'Hondt's method: claims of others
  only fall.
* *AuthorityEnds and its companions.* `CallsSound` says what a request under way may
  send; `StandsNow`, `ReadsHold` and `TokenHolds` carry "was active in that role"
  from the row to what a request read of it and on to the tokens made from that, the
  access token and the refresh token, each with the life of its kind: what an account
  lost may be used for `RefreshLife` longer, since either token is a bearer.
* *OwnDocument, OneNumberOneVoter.* `RegInv`: a request about to insert has passed the
  check of its session (`InsertChecked`), pages know committed voters only
  (`KnownRows`), rows are backed (`RowsSound`) and unique in their tokens (`RowsApart`).
  A session once verified keeps its document, so a check made a step earlier
  still holds.
* *ReadyBecomesActive and its companions.* `RecInv` is what a call may look like at its
  stage (`CallsFit`) and that no two calls hold one address (`HeldApart`). To it
  `ReadyInv` adds that, until a proof and an enrolment decide side by side, one
  call at most is deciding, and one that decides against activation does so because
  the other half is missing, which it stays. `KeepApart` says that those who go alone
  have no company, and from it `HalvesThere` that what an activation rests on is not
  removed before its commit. `DeviceInv`: one active credential at most, and an
  enrolment under way retires it.
* *WhereCurrentIsVoted.* `CurrentKnown`: one current address, whose constituency is known
  and is the voter's as long as no address is abroad, when it is also the one the page
  remembers. `CallKnown` is what makes that inductive: what a request has read of the
  addresses is still so when it commits, since of the requests about addresses one is
  under way at a time. The hypothesis `PageFiles` says who sends them: the page adds and
  proves, another client edits and deletes without overlap and makes no address current.
* *PageHadProof, PhonesAccepted, CodesEnd.* Three invariants: `KeyInv` on uses and
  credentials, `PageInv` (`PollSound`: the use a poll started from is no later than
  when the page was entered), `CodeInv` (`AcceptedDead`, `SendingLast`, `LiveIsLatest`,
  and `ChecksSound` and `StillFirst`: what a check found is still good, unaccepted and the
  newest, unless it was overtaken).
* *The voting page.* `PageFits` says what each step of the page has on it, `Waiting`
  that the submission awaited is the one shown, `Thanked` that a receipt has its
  vote, `OneAtATime` that without overlap a checked submission is alone.

* *The keys.* `KeysInv`: the rows any request or rotation sees, its own included, are in
  order (`Orderly`): one key per version and purpose, the newest active, versions from
  one on. A request holds keys of the version it took (`RequestSound`), a rotation the one
  it will retire (`RotationSound`), and a record names the key it was written with
  (`RecordSound`). Requests and rotations overlap freely but for the first use, whose
  key rows nobody else sees before it commits (`FirstUseAlone`); without that the
  unique constraint, which has a NULL column, does not help.
* *The key ring.* `KeyRing` forgets requests, transactions, tokens and which key is active.
  A commit maps to an extension of the ring if the keys it adds are the next versions
  of their purposes in the *committed* ring, though they were numbered from what one
  transaction saw: `OwnNext` says that this has stayed true since, because who has made
  keys is alone (requests) or holds the rows of the purpose (rotations). An insert
  maps to `Register`: of two records of one value and version the second would have had
  the token of the first, as a version of SEARCH has one key.

What each theorem assumes is what the run of the same property assumes, except
that constants are arbitrary:
`NoStatusSent`, `RemovesAlone`, `OneEnroller` and `PageFiles` are the callers and patches of
`records`; `Requested` of `life` and `results_cache` satisfies `ClosesAlone`.
`FiniteAssumption` (finitely many requests and tokens) is assumed for the theorems
about counts. `RankedCount` and `SeatAllocation` assume finitely many candidates, parties and
constituencies and, in `PapersAssumption`, that the ballots counted are ones that
`_validate_ballot_payload` lets through: consecutive ranks of different candidates, one at least.

**Model-checked only.** Liveness (`EveryRequestAnswered`, `CountEnds`,
`ApplicantReachesVoter`, `ProofIsNoticed`): the prover does not do fairness and
ENABLED. For the first two it proves the ingredients, absence of deadlock and a
variant. All invariants and all other action properties of the runs are proved, and so are
both refinements.

## 5. What the models say about the code

One disagreement is kept as a run (`double_vote`): the ledger is consulted and
written without a lock or a constraint, against `voting_service.py:61`. The others
met while modelling:

Contests and results.
* A contest with only `voting_opens` that is closed by hand is reopened by the next
  read (`election_service.py:190`); the snap needs a `voting_closes`.
* Referendum results asked for before a referendum opens, when its status is CLOSED,
  are cached and answered after the vote (`result_service.py:38`).
* The surplus of an elected candidate is never transferred: the candidate is marked
  elected first, and the transfer looks only at those who are not
  (`result_service.py:465`; `OfficialGuide.md:138` promises the transfer).
* No code but the seed scripts writes party tallies, so AMS list votes reach no tally and
  top-up seats are not allocated, while `total_seats` still is twice the number of
  constituencies: a voted AMS election may declare nobody (`result_service.py:283`); FPTP counts as seats only the areas that have a tally row; ties
  fall to the order of rows.
* Two first votes for a candidate that overlap leave two tally rows, after which
  `scalar_one_or_none` raises for every later vote (`tally_result_repo.py:49`).

Investigations and audit reports.
* The report of a referendum lists no investigation: they are selected by
  `election_id` (`audit_report_service.py:344`). Its seat summary keys seats by candidate,
  so `winning_party_id` may be a candidate (`:316`).
* Somebody who votes twice through `/vote` has two tokens of their own, and the
  reconciliation of tokens with ledger rows does not see it.
* The report of a referendum counts no cast votes among its events: `cast_referendum_vote`
  writes the VOTE_CAST row without `referendum_id` (`voting_service.py:449`), by which
  the report selects (`audit_report_service.py:204`).
* A PATCH with an empty summary and no status blanks the summary of a closed case
  (`investigation_service.py:118` looks at it only when the status is sent);
  `ResolvedSaysWhy` names that exception, which `CasePatches` allows or not.
* Queries of a report may straddle a commit, so a report under way while votes are
  cast may not reconcile; `ReportReconciles` says that this, or a token spent
  twice, is the only reason.
* A reopened investigation keeps `resolved_at`, and closing again overwrites it
  (`investigation_service.py:126`, against `:99`, "if not already present").

Officials.
* Failed logins are counted and rolled back with the exception, so accounts never
  lock (`auth_service.py:77`), against `auth_route.py:553`.
* A deactivated or demoted official acts until their tokens expire, the refresh token
  included: it carries the role and passes as a bearer, since `get_current_user` does
  not ask for the type (`dependencies.py:431`), so authority lasts `RefreshLife`.

Registration and records.
* A national insurance number typed with other spaces has another search token, so
  one person gets two voters, against `voter.py:70`. So has a passport number, which
  is never compared with the document shown (`kyc_service.py:194`): one person with
  two typed numbers gets two voters, two people who type one number share it.
  `OneVoterPerNumber` is about numbers, not people.
* A voter who edits the form after registering keeps the row as it was first sent.
* Address proof and enrolment that overlap leave the voter PENDING (`voter_service.py:354`),
  against `voter_route.py:137`; proving an already ACTIVE address returns early and
  does not repair it.
* Editing an OVERSEAS address, or proving a PAST one, moves the constituency although
  there is a current address; addresses made past stay ACTIVE, so identity
  verification accepts them; a PATCH may set ACTIVE, against `address_service.py:113`.
* PATCHes of voter details, addresses and passports write plain values beside encrypted
  ones and leave search tokens as they were.
* A biometric renewal counts the old credential at its first poll and extends
  without a new key.

Verification.
* Two devices with active credentials, possible only by overlapping enrolments: the
  older phone's proofs are refused, since the page and phones look at the newest.
* Templates are needed on the device (`authVerifyPage.tsx:86`), against
  `biometric_credentials.py:71`, "verify from any device/browser".
* Two requests with one email code that overlap are both accepted; so is an older code
  by a check that a resend overtakes between its read and its mark, against
  `email_verification_repo.py:64` ("prevents reuse after new code sent"), and so are
  two codes whose sends overlapped. `CodesDie` names these cases and excludes no other.
* A challenge is marked used without a condition; no caller sends one twice.

The ballot page.
* Nothing calls `onVoteSubmitted` (`voteCastingPage.tsx:95`): the timer takes even the
  receipt away, and the guard against going back never runs.
* A vote whose answer timed out may have been cast: the retry is refused and the voter
  gets no receipt; a retry while the first is under way is the case of `double_vote`.
* Going back to another contest keeps the marks: a candidate of the first contest
  passes every check, as the server asks only whether the candidate exists.
* A voter who goes to verify on the same phone leaves the page and its session.

Keys.
* Two first uses that overlap make two keys of version 1 (the unique constraint has a
  NULL column, `encryption_key.py:36`), after which every lookup of that version raises.
* Two rotations of one purpose that overlap leave two active keys, against
  `encryption_key.py:19` ("Only one active per (org, purpose)"): the UPDATE of the
  second passes over the key the first inserted. The newest is active all the same
  (`NewestIsActive`), and it is the one `get_active` returns.
* The version of the STORAGE key is used for all purposes: rotating another alone leaves
  writes on its old key, against `keys_manager_service.py:37`; rotating STORAGE alone makes
  every write fail; rotating all makes earlier search tokens unfindable. Nothing in
  the repository calls `rotate_dek` yet.

## 6. Not modelled

* Of *audit*, the biometric and seat summaries of a report and the log listings:
  reads of append-only rows that no other section is compared with; an audit row that
  fails is one of the failures the models roll back on. The timeline orders events by
  `created_at`, which is not the order of commits.
* Of *seats*, names, percentages and the outcome of a referendum, a comparison of two
  counts.
* *Candidates, parties, constituencies, ledger queries, passports*: create, read and update
  of single rows. In `Registration`, the passport routes and later edits of voter
  details are left out for the same reason; the passport row that registration writes
  is in.
* In `Keys`, the encryption of streams, which nothing uses.
* *HTTP layer*: parsing, headers, error mapping. Routes that do more than forward are
  part of the models of their services, and the client's time limit is `TimedOut`.
* *Infrastructure, migrations, seeds, deployment*; email and postcode adapters; the
  mathematics of faces, signatures, hashes and ciphers: I/O, configuration or external.

What would add most next: an abstract specification of the voter records (a voter is
pending until both halves are in place), with the refinement proved as it is for votes and
keys; the theorems of `VoterRecords` for clients that overlap, which need the exceptions their
properties would then name; and the variants behind the liveness of `Registration` and
`Verification`.
