----------------------------- MODULE Registration -----------------------------
(***************************************************************************)
(* From the registration form to the row in the voter table                *)
(* (VoterService.register_voter, KYCService, registrationDetails.tsx).     *)
(*                                                                         *)
(* A voter is known to the table by a search token: a hash of the number   *)
(* that was typed, of national insurance or of a passport, lowercased but  *)
(* with its inner spaces.  Nothing compares the number with anything: one  *)
(* number spelt in two ways is two numbers, and the number of somebody     *)
(* else is as good as one's own.  Who applies by passport must have shown  *)
(* a document to the identity service (Stripe) in a session, which backs   *)
(* one voter only; of the document the names are compared, not the number. *)
(*                                                                         *)
(* A request looks for a voter to resume, and inserts one in a later step: *)
(* the unique constraints, checked as it inserts, are all that stands      *)
(* between two requests that found nothing.                                *)
(***************************************************************************)
EXTENDS Naturals, FiniteSets

CONSTANTS
    People,
    Browsers,
    Forms,          \* what may be typed at each browser when it starts
    Numbers,        \* numbers as they are typed
    Sessions,       \* identity verification sessions
    VoterIds,
    MaxLost,        \* bound on requests that fail or whose answer is lost
    None

Methods == {"ni", "passport"}
(* person stands for the names and the date of birth that are typed.       *)
Filled == [person : People, method : Methods, number : Numbers]
Statuses == {"requires_input", "processing", "verified"}

(* A voter as it is stored; none of these columns is written again but the *)
(* status.                                                                 *)
Voters ==
    [person : People, ni : Numbers \cup {None}, passport : Numbers \cup {None}, kyc : Sessions \cup {None},
     status : {"PENDING", "ACTIVE"}]

ASSUME RegistrationAssumption ==
    /\ Forms \subseteq [Browsers -> Filled] /\ MaxLost \in Nat
    /\ None \notin People \cup Numbers \cup Sessions \cup VoterIds \cup Voters

VARIABLES
    voter,        \* committed rows
    stripe,       \* sessions at the identity service
    form,         \* the registration form of each browser
    call,         \* its request to /voter/register
    lost          \* requests that have failed so far

regVars == <<voter, stripe, form, call, lost>>

SessionStates == [status : Statuses, document : People \cup {None}, opened : BOOLEAN]

FormStates ==
    [typed : Filled,
     kycSessionId : Sessions \cup {None}, kycStatus : Statuses \cup {None},
     polls : SUBSET Sessions,               \* sessions whose status is being polled
     voterId : VoterIds \cup {None}]

CallStates == [stage : {"idle", "sent", "insert"}, kyc : Sessions \cup {None}]
NoCall == [stage |-> "idle", kyc |-> None]

TypeOK ==
    /\ voter \in [VoterIds -> Voters \cup {None}]
    /\ stripe \in [Sessions -> SessionStates]
    /\ form \in [Browsers -> FormStates]
    /\ call \in [Browsers -> CallStates]
    /\ lost \in 0 .. MaxLost

Rows == {v \in VoterIds : voter[v] # None}
Passport(b) == form[b].typed.method = "passport"

Init ==
    /\ voter = [v \in VoterIds |-> None]
    /\ stripe = [s \in Sessions |->
                   [status |-> "requires_input", document |-> None, opened |-> FALSE]]
    /\ \E typed \in Forms :
         form = [b \in Browsers |->
                   [typed |-> typed[b], kycSessionId |-> None, kycStatus |-> None,
                    polls |-> {}, voterId |-> None]]
    /\ call = [b \in Browsers |-> NoCall]
    /\ lost = 0

-----------------------------------------------------------------------------
(* Identity verification, as in production (the mock sessions of a test    *)
(* set-up are always verified).  A new session keeps the status shown for  *)
(* the one before until its first poll, and the polls of that one go on.   *)
StartKycVerification(b, s) ==
    /\ Passport(b) /\ form[b].kycStatus # "verified" /\ ~stripe[s].opened
    /\ stripe' = [stripe EXCEPT ![s].opened = TRUE]
    /\ form' = [form EXCEPT ![b].kycSessionId = s]
    /\ UNCHANGED <<voter, call, lost>>

(* Anybody in the household may hold a document before the camera.         *)
ShowDocument(b, s, p) ==
    /\ form[b].kycSessionId = s /\ stripe[s].status = "requires_input"
    /\ stripe' = [stripe EXCEPT ![s].status = "processing", ![s].document = p]
    /\ form' = [form EXCEPT ![b].polls = @ \cup {s}]
    /\ UNCHANGED <<voter, call, lost>>

StripeDecides(s) ==
    /\ stripe[s].status = "processing"
    /\ \E status \in {"requires_input", "verified"} :
         stripe' = [stripe EXCEPT ![s].status = status]
    /\ UNCHANGED <<voter, form, call, lost>>

(* A poll writes the pair, whichever session the form has by now.          *)
Poll(b, s) ==
    /\ s \in form[b].polls
    /\ form' = [form EXCEPT ![b].kycSessionId = s, ![b].kycStatus = stripe[s].status,
                            ![b].polls = IF stripe[s].status = "processing" THEN @ ELSE @ \ {s}]
    /\ UNCHANGED <<voter, stripe, call, lost>>

-----------------------------------------------------------------------------
(* The button of the form.  A voter created before is not created again,   *)
(* whatever the form now says.                                             *)
Submit(b) ==
    /\ call[b].stage = "idle" /\ form[b].voterId = None
    /\ Passport(b) => form[b].kycStatus = "verified"
    /\ call' = [call EXCEPT ![b] = [stage |-> "sent", kyc |-> IF Passport(b)
                                                               THEN form[b].kycSessionId ELSE None]]
    /\ UNCHANGED <<voter, stripe, form, lost>>

TokenNI(t) == IF t.method = "ni" THEN t.number ELSE None
TokenPassport(t) == IF t.method = "passport" THEN t.number ELSE None
Same(x, y) == x # None /\ x = y

(* The row carries the number the form was filled in with.                 *)
Carries(v, t) ==
    Same(voter[v].ni, TokenNI(t)) \/ Same(voter[v].passport, TokenPassport(t))

KycVerified(s, t) ==   \* mutant: the names on the document are not compared
    s # None /\ stripe[s].status = "verified"

(* The session is verified and its document names the applicant.  Asked of *)
(* those without a national insurance number.                              *)
KycBacks(s, t) ==
    s # None /\ stripe[s].status = "verified" /\ stripe[s].document = t.person

PendingByPassport(t) ==   \* mutant: the national insurance number is not looked up
    {v \in Rows : Same(voter[v].passport, TokenPassport(t)) /\ voter[v].status = "PENDING"}

PendingFor(t) == {v \in Rows : Carries(v, t) /\ voter[v].status = "PENDING"}

(* What the request goes on with: it is refused, it resumes a voter that   *)
(* is pending, or it will insert one.                                      *)
Answered(b, id) ==
    /\ call' = [call EXCEPT ![b] = NoCall]
    /\ form' = [form EXCEPT ![b].voterId = id]

RefuseKyc(b) ==
    /\ call[b].stage = "sent" /\ Passport(b) /\ ~KycBacks(call[b].kyc, form[b].typed)
    /\ call' = [call EXCEPT ![b] = NoCall]
    /\ UNCHANGED <<voter, stripe, form, lost>>

FindPending(b) ==
    /\ call[b].stage = "sent"
    /\ Passport(b) => KycBacks(call[b].kyc, form[b].typed)
    /\ IF PendingFor(form[b].typed) = {}
         THEN call' = [call EXCEPT ![b].stage = "insert"] /\ UNCHANGED form
         ELSE \E v \in PendingFor(form[b].typed) : Answered(b, v)
    /\ UNCHANGED <<voter, stripe, lost>>

RowOf(b) ==
    [person |-> form[b].typed.person, ni |-> TokenNI(form[b].typed),
     passport |-> TokenPassport(form[b].typed), kyc |-> call[b].kyc, status |-> "PENDING"]

UniqueKyc(row) ==   \* mutant: no unique index on the search tokens
    \A v \in Rows : ~Same(voter[v].kyc, row.kyc)

(* Unique columns of voter and voter_passport.                             *)
Unique(row) ==
    \A v \in Rows : /\ ~Same(voter[v].ni, row.ni)
                    /\ ~Same(voter[v].passport, row.passport)
                    /\ ~Same(voter[v].kyc, row.kyc)

Insert(b) ==
    /\ call[b].stage = "insert" /\ Unique(RowOf(b))
    /\ \E v \in VoterIds \ Rows :
         /\ voter' = [voter EXCEPT ![v] = RowOf(b)]
         /\ Answered(b, v)
    /\ UNCHANGED <<stripe, lost>>

RefuseInsert(b) ==
    /\ call[b].stage = "insert" /\ ~Unique(RowOf(b))
    /\ call' = [call EXCEPT ![b] = NoCall]
    /\ UNCHANGED <<voter, stripe, form, lost>>

(* The request fails, or commits and its answer is lost: the form offers   *)
(* the button again either way.                                            *)
Lose(b) ==
    /\ call[b].stage # "idle" /\ lost < MaxLost
    /\ lost' = lost + 1
    /\ call' = [call EXCEPT ![b] = NoCall]
    /\ \/ UNCHANGED voter
       \/ /\ call[b].stage = "insert" /\ Unique(RowOf(b))
          /\ \E v \in VoterIds \ Rows : voter' = [voter EXCEPT ![v] = RowOf(b)]
    /\ UNCHANGED <<stripe, form>>

(* The address is proved and a device enrolled (see VoterRecords), by one  *)
(* who has been told the voter's id.                                       *)
Activate(b) ==
    /\ form[b].voterId # None
    /\ voter' = [voter EXCEPT ![form[b].voterId].status = "ACTIVE"]
    /\ voter' # voter
    /\ UNCHANGED <<stripe, form, call, lost>>

Kyc(b, s) ==
    StartKycVerification(b, s) \/ Poll(b, s) \/ \E p \in People : ShowDocument(b, s, p)
Serve(b) == RefuseKyc(b) \/ FindPending(b) \/ Insert(b) \/ RefuseInsert(b)

Next ==
    \/ \E b \in Browsers : Submit(b) \/ Serve(b) \/ Lose(b) \/ Activate(b)
    \/ \E b \in Browsers, s \in Sessions : Kyc(b, s)
    \/ \E s \in Sessions : StripeDecides(s)

(* Applicants press the button until they are told their voter's id, and a *)
(* server that has a request serves it.                                    *)
Fairness == \A b \in Browsers : WF_regVars(Submit(b)) /\ WF_regVars(Serve(b))

Spec == Init /\ [][Next]_regVars /\ Fairness

-----------------------------------------------------------------------------
(* One number is one voter: once a browser has been told a voter id, the   *)
(* rows that carry the number typed there are that voter and no other, so  *)
(* whoever types the number is told the same voter, whichever browsers and *)
(* however often, requests that overlap or were given up included          *)
(* (voter_service.py:129-142, the unique search tokens).  It says nothing  *)
(* of people: one who spells a number in two ways has two voters.          *)
OneVoterPerNumber ==
    \A b \in Browsers :
        form[b].voterId # None =>
            \A v \in Rows : Carries(v, form[b].typed) <=> v = form[b].voterId

(* Behind each voter without a national insurance number is a session of   *)
(* their own document, verified, that backs no other voter: a document     *)
(* shown by another member of the household, or a poll of an earlier       *)
(* session that overwrites the form's, does not get a voter registered     *)
(* (kyc_service.py:161-224).                                               *)
DocumentBehindVoter ==
    \A v \in Rows :
        voter[v].ni = None =>
            /\ voter[v].kyc # None /\ stripe[voter[v].kyc].status = "verified"
            /\ stripe[voter[v].kyc].document = voter[v].person
            /\ \A w \in Rows : voter[w].kyc = voter[v].kyc => v = w

(* Applicants by national insurance number whose answers are lost get the  *)
(* same voter back in the end: for every number typed, one of the browsers *)
(* where it is typed is told its voter's id (voter_service.py:129-142).    *)
TypedNI(b, n) == ~Passport(b) /\ form[b].typed.number = n

ApplicantReachesVoter ==
    \A n \in Numbers :
        (\E b \in Browsers : TypedNI(b, n))
            ~> (\E b \in Browsers : TypedNI(b, n) /\ form[b].voterId # None)
=============================================================================
