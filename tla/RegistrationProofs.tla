-------------------------- MODULE RegistrationProofs --------------------------
(***************************************************************************)
(* Theorems about Registration, for any people, browsers and identity      *)
(* sessions, and any number of lost answers.                               *)
(***************************************************************************)
EXTENDS Registration, TLAPS

(* A request that is about to insert has passed the check of its session.  *)
InsertChecked ==
    \A b \in Browsers :
        call[b].stage = "insert" /\ Passport(b) => KycBacks(call[b].kyc, form[b].typed)

(* The page knows committed voters only, which carry what is typed there.  *)
KnownRows ==
    \A b \in Browsers :
        form[b].voterId # None =>
            form[b].voterId \in Rows /\ Carries(form[b].voterId, form[b].typed)

(* A row without a national insurance number has its own document.         *)
Documented(row) ==
    row.ni = None => /\ row.kyc # None /\ stripe[row.kyc].status = "verified"
                     /\ stripe[row.kyc].document = row.person

Apart(x, y) == ~Same(x.ni, y.ni) /\ ~Same(x.passport, y.passport) /\ ~Same(x.kyc, y.kyc)

RowsSound == \A v \in Rows : Documented(voter[v])

RowsApart == \A v, w \in Rows : v # w => Apart(voter[v], voter[w])

RegInv == TypeOK /\ InsertChecked /\ KnownRows /\ RowsSound /\ RowsApart

-----------------------------------------------------------------------------
(* Records stay records.                                                   *)
LEMMA FormKeeps ==
    ASSUME NEW f \in FormStates
    PROVE  /\ \A s \in Sessions :
                LET g == [f EXCEPT !.kycSessionId = s] IN
                g \in FormStates /\ g.typed = f.typed /\ g.voterId = f.voterId
           /\ \A v \in VoterIds \cup {None} :
                LET g == [f EXCEPT !.voterId = v] IN
                g \in FormStates /\ g.typed = f.typed /\ g.voterId = v
BY DEF FormStates

LEMMA TypedForm ==
    ASSUME TypeOK, NEW b \in Browsers
    PROVE  form[b].typed \in Filled
BY DEF TypeOK, FormStates

LEMMA RowIsVoter ==
    ASSUME TypeOK, NEW b \in Browsers
    PROVE  /\ RowOf(b) \in Voters
           /\ RowOf(b).ni = None => Passport(b)
           /\ RowOf(b).kyc = call[b].kyc /\ RowOf(b).person = form[b].typed.person
           /\ RowOf(b).ni = TokenNI(form[b].typed) /\ RowOf(b).passport = TokenPassport(form[b].typed)
           /\ TokenNI(form[b].typed) # None \/ TokenPassport(form[b].typed) # None
<1>1. /\ form[b].typed.person \in People /\ form[b].typed.number \in Numbers
      /\ form[b].typed.method \in Methods /\ call[b].kyc \in Sessions \cup {None}
  BY TypedForm DEF TypeOK, CallStates, Filled
<1>2. /\ TokenNI(form[b].typed) \in Numbers \cup {None}
      /\ TokenPassport(form[b].typed) \in Numbers \cup {None}
  BY <1>1 DEF TokenNI, TokenPassport
<1>3. RowOf(b) \in Voters
  BY <1>1, <1>2 DEF RowOf, Voters
<1>4. /\ RowOf(b).person = form[b].typed.person /\ RowOf(b).kyc = call[b].kyc
      /\ RowOf(b).ni = TokenNI(form[b].typed) /\ RowOf(b).passport = TokenPassport(form[b].typed)
  BY DEF RowOf
<1>5. /\ TokenNI(form[b].typed) = None => Passport(b)
      /\ TokenNI(form[b].typed) # None \/ TokenPassport(form[b].typed) # None
  BY <1>1, RegistrationAssumption DEF TokenNI, TokenPassport, Passport, Methods
<1> QED BY <1>3, <1>4, <1>5

(* Rows that carry one number are one row, for rows that stand apart.      *)
LEMMA CarriersMeet ==
    ASSUME RowsApart, NEW t, NEW v \in Rows, NEW w \in Rows, Carries(v, t), Carries(w, t),
           TokenNI(t) = None \/ TokenPassport(t) = None
    PROVE  v = w
BY DEF RowsApart, Apart, Carries, Same

-----------------------------------------------------------------------------
(* What the steps have in common: what was typed stays, a verified session *)
(* is not touched, and a row is written once, but for its status.          *)
Grows ==
    /\ \A v \in Rows : v \in Rows' /\ voter'[v].person = voter[v].person
                       /\ voter'[v].ni = voter[v].ni /\ voter'[v].passport = voter[v].passport
                       /\ voter'[v].kyc = voter[v].kyc

TypedKept == \A b \in Browsers : form'[b].typed = form[b].typed

VerifiedKept ==
    \A s \in Sessions : stripe[s].status = "verified" =>
        stripe'[s].status = "verified" /\ stripe'[s].document = stripe[s].document

LEMMA FormUpdated ==
    ASSUME TypeOK, NEW b \in Browsers, NEW f \in FormStates, f.typed = form[b].typed,
           form' = [form EXCEPT ![b] = f]
    PROVE  /\ form' \in [Browsers -> FormStates] /\ TypedKept
           /\ form'[b] = f /\ \A d \in Browsers : d # b => form'[d] = form[d]
BY DEF TypeOK, TypedKept

LEMMA InitTypes ==
    ASSUME Init PROVE RegInv
<1>1. PICK typed \in Forms :
        form = [b \in Browsers |->
                  [typed |-> typed[b], kycSessionId |-> None, kycStatus |-> None,
                   polls |-> {}, voterId |-> None]]
  BY DEF Init
<1>2. typed \in [Browsers -> Filled]
  BY RegistrationAssumption
<1>3. form \in [Browsers -> FormStates] /\ \A b \in Browsers : form[b].voterId = None
  BY <1>1, <1>2 DEF FormStates
<1>4. /\ voter \in [VoterIds -> Voters \cup {None}] /\ Rows = {}
      /\ stripe \in [Sessions -> SessionStates]
      /\ call \in [Browsers -> CallStates] /\ \A b \in Browsers : call[b].stage = "idle"
  BY DEF Init, Rows, SessionStates, Statuses, CallStates, NoCall
<1>5. lost \in 0 .. MaxLost
  BY RegistrationAssumption DEF Init
<1> QED BY <1>3, <1>4, <1>5 DEF RegInv, TypeOK, InsertChecked, KnownRows, RowsSound, RowsApart

(* A step that inserts nothing keeps the rows sound.                       *)
LEMMA RowsKept ==
    ASSUME RegInv, Grows, VerifiedKept, Rows' = Rows
    PROVE  RowsSound' /\ RowsApart'
<1>1. ASSUME NEW v \in Rows'
      PROVE  Documented(voter[v])'
  <2>1. /\ v \in Rows /\ voter'[v].person = voter[v].person /\ voter'[v].ni = voter[v].ni
        /\ voter'[v].passport = voter[v].passport /\ voter'[v].kyc = voter[v].kyc
        /\ voter[v] \in Voters
    BY <1>1 DEF Grows, Rows, RegInv, TypeOK
  <2>2. Documented(voter[v]) /\ voter[v].kyc \in Sessions \cup {None}
    BY <2>1 DEF RegInv, RowsSound, Voters
  <2> QED BY <2>1, <2>2 DEF Documented, VerifiedKept
<1>2. RowsApart'
  BY DEF RowsApart, Apart, Grows, RegInv, Same
<1> QED BY <1>1, <1>2 DEF RowsSound

(* The insert that the unique constraints let through.                     *)
LEMMA RowAdded ==
    ASSUME RegInv, NEW b \in Browsers, call[b].stage = "insert", Unique(RowOf(b)),
           NEW v \in VoterIds \ Rows, voter' = [voter EXCEPT ![v] = RowOf(b)],
           UNCHANGED stripe
    PROVE  /\ voter' \in [VoterIds -> Voters \cup {None}] /\ Grows /\ Rows' = Rows \cup {v}
           /\ RowsSound' /\ RowsApart'
<1> DEFINE row == RowOf(b)
<1>1. /\ row \in Voters /\ (row.ni = None => Passport(b))
      /\ row.kyc = call[b].kyc /\ row.person = form[b].typed.person
  BY RowIsVoter DEF RegInv
<1>2. row # None
  BY <1>1, RegistrationAssumption
<1>3. Documented(row)
  BY <1>1 DEF Documented, RegInv, InsertChecked, KycBacks
<1> HIDE DEF row
<1>4. voter \in [VoterIds -> Voters \cup {None}]
  BY DEF RegInv, TypeOK
<1>5. /\ voter' \in [VoterIds -> Voters \cup {None}] /\ voter'[v] = row
      /\ \A w \in VoterIds : w # v => voter'[w] = voter[w]
  BY <1>1, <1>4 DEF row
<1>6. Rows' = Rows \cup {v}
  BY <1>2, <1>5 DEF Rows
<1>7. Grows
  BY <1>5, <1>6 DEF Grows, Rows
<1>8. RowsSound'
  <2>2. ASSUME NEW w \in Rows PROVE Documented(voter[w])'
    BY <1>5 DEF RegInv, RowsSound, Documented, Rows
  <2>3. Documented(voter[v])'
    BY <1>1, <1>3, <1>5 DEF Documented
  <2> QED BY <1>6, <2>2, <2>3 DEF RowsSound
<1>9. RowsApart'
  <2>1. \A w \in Rows : Apart(voter[w], row) /\ Apart(row, voter[w])
    BY DEF Unique, Apart, Same, row
  <2>2. \A w \in Rows : w \in VoterIds /\ w # v /\ voter'[w] = voter[w]
    BY <1>5 DEF Rows
  <2>3. \A w, x \in Rows : w # x => Apart(voter[w], voter[x])
    BY DEF RegInv, RowsApart
  <2>4. \A w, x \in Rows' : w # x => Apart(voter'[w], voter'[x])
    BY <1>5, <1>6, <2>1, <2>2, <2>3
  <2> QED BY <2>4 DEF RowsApart, Apart, Same
<1> QED BY <1>5, <1>6, <1>7, <1>8, <1>9

-----------------------------------------------------------------------------
(* Forms and calls.                                                        *)
LEMMA ChecksKept ==
    ASSUME RegInv, TypedKept, VerifiedKept, Grows, TypeOK',
           \A b \in Browsers : call'[b].stage = "insert" =>
               /\ call'[b].kyc = call[b].kyc
               /\ \/ call[b].stage = "insert"
                  \/ Passport(b) => KycBacks(call[b].kyc, form[b].typed),
           \A b \in Browsers :
               \/ form'[b].voterId = form[b].voterId
               \/ form'[b].voterId \in Rows' /\ Carries(form[b].voterId, form[b].typed)'
    PROVE  InsertChecked' /\ KnownRows'
<1>1. InsertChecked'
  <2>1. ASSUME NEW b \in Browsers, call'[b].stage = "insert", Passport(b)'
        PROVE  KycBacks(call[b].kyc, form[b].typed)'
    <3>1. Passport(b) /\ form'[b].typed = form[b].typed /\ call'[b].kyc = call[b].kyc
      BY <2>1 DEF Passport, TypedKept
    <3>2. KycBacks(call[b].kyc, form[b].typed)
      BY <2>1, <3>1 DEF RegInv, InsertChecked
    <3>3. call[b].kyc \in Sessions
      BY <3>2 DEF KycBacks, RegInv, TypeOK, CallStates
    <3> QED BY <3>1, <3>2, <3>3 DEF KycBacks, VerifiedKept
  <2> QED BY <2>1 DEF InsertChecked
<1>2. ASSUME NEW b \in Browsers, form'[b].voterId # None
      PROVE  form'[b].voterId \in Rows' /\ Carries(form[b].voterId, form[b].typed)'
  <2>1. form'[b].typed = form[b].typed
    BY DEF TypedKept
  <2>2. CASE form'[b].voterId = form[b].voterId
    BY <1>2, <2>1, <2>2 DEF RegInv, KnownRows, Grows, Carries
  <2> QED BY <2>2
<1> QED BY <1>1, <1>2 DEF KnownRows

LEMMA KycKeeps ==
    ASSUME RegInv, NEW b \in Browsers, NEW s \in Sessions, Kyc(b, s)
    PROVE  RegInv'
<1>1. /\ UNCHANGED <<voter, call, lost>> /\ form[b] \in FormStates /\ stripe[s] \in SessionStates
      /\ form \in [Browsers -> FormStates] /\ stripe \in [Sessions -> SessionStates]
      /\ form[b].polls \in SUBSET Sessions /\ stripe[s].status \in Statuses
      /\ form[b].kycStatus \in Statuses \cup {None}
  BY DEF Kyc, StartKycVerification, Poll, ShowDocument, RegInv, TypeOK, FormStates, SessionStates
<1>2. /\ form' \in [Browsers -> FormStates] /\ stripe' \in [Sessions -> SessionStates]
      /\ TypedKept /\ VerifiedKept /\ \A c \in Browsers : form'[c].voterId = form[c].voterId
  <2>1. CASE StartKycVerification(b, s)
    <3> DEFINE f == [form[b] EXCEPT !.kycSessionId = s]
    <3>1. /\ form' = [form EXCEPT ![b] = f]
          /\ stripe' = [stripe EXCEPT ![s] = [stripe[s] EXCEPT !.opened = TRUE]]
      BY <2>1 DEF StartKycVerification
    <3>2. f \in FormStates /\ f.typed = form[b].typed /\ f.voterId = form[b].voterId
      BY <1>1, FormKeeps
    <3> HIDE DEF f
    <3>3. /\ [stripe[s] EXCEPT !.opened = TRUE] \in SessionStates
          /\ [stripe[s] EXCEPT !.opened = TRUE].status = stripe[s].status
          /\ [stripe[s] EXCEPT !.opened = TRUE].document = stripe[s].document
      BY <1>1 DEF SessionStates
    <3>4. stripe' \in [Sessions -> SessionStates] /\ VerifiedKept
      BY <1>1, <3>1, <3>3 DEF VerifiedKept
    <3>5. /\ form' \in [Browsers -> FormStates] /\ TypedKept
          /\ form'[b] = f /\ \A d \in Browsers : d # b => form'[d] = form[d]
      BY <3>1, <3>2, FormUpdated DEF RegInv
    <3> QED BY <3>2, <3>4, <3>5
  <2>2. CASE Poll(b, s)
    <3>1. UNCHANGED stripe
      BY <2>2 DEF Poll
    <3>2. PICK ps \in SUBSET Sessions :
            form' = [form EXCEPT ![b] = [form[b] EXCEPT !.kycSessionId = s,
                                           !.kycStatus = stripe[s].status, !.polls = ps]]
      BY <1>1, <2>2 DEF Poll
    <3> DEFINE f == [form[b] EXCEPT !.kycSessionId = s, !.kycStatus = stripe[s].status,
                                    !.polls = ps]
    <3>3. f \in FormStates /\ f.typed = form[b].typed /\ f.voterId = form[b].voterId
      BY <1>1 DEF FormStates
    <3>4. form' = [form EXCEPT ![b] = f]
      BY <3>2
    <3> HIDE DEF f
    <3>5. /\ form' \in [Browsers -> FormStates] /\ TypedKept
          /\ form'[b] = f /\ \A d \in Browsers : d # b => form'[d] = form[d]
      BY <3>3, <3>4, FormUpdated DEF RegInv
    <3> QED BY <1>1, <3>1, <3>3, <3>5 DEF VerifiedKept
  <2>3. CASE \E p \in People : ShowDocument(b, s, p)
    <3>1. PICK p \in People : ShowDocument(b, s, p)
      BY <2>3
    <3> DEFINE f == [form[b] EXCEPT !.polls = form[b].polls \cup {s}]
               t == [stripe[s] EXCEPT !.status = "processing", !.document = p]
    <3>2. /\ stripe[s].status = "requires_input"
          /\ form' = [form EXCEPT ![b] = f] /\ stripe' = [stripe EXCEPT ![s] = t]
      BY <3>1 DEF ShowDocument
    <3>3. f \in FormStates /\ f.typed = form[b].typed /\ f.voterId = form[b].voterId
      BY <1>1 DEF FormStates
    <3>4. t \in SessionStates
      BY <1>1 DEF SessionStates, Statuses
    <3> HIDE DEF f, t
    <3>5. stripe' \in [Sessions -> SessionStates] /\ VerifiedKept
      BY <1>1, <3>2, <3>4 DEF VerifiedKept
    <3>6. /\ form' \in [Browsers -> FormStates] /\ TypedKept
          /\ form'[b] = f /\ \A d \in Browsers : d # b => form'[d] = form[d]
      BY <3>2, <3>3, FormUpdated DEF RegInv
    <3> QED BY <3>3, <3>5, <3>6
  <2> QED BY <2>1, <2>2, <2>3 DEF Kyc
<1>3. TypeOK'
  BY <1>1, <1>2 DEF RegInv, TypeOK
<1>4. Grows /\ Rows' = Rows
  BY <1>1 DEF Grows, Rows
<1> QED BY <1>1, <1>2, <1>3, <1>4, RowsKept, ChecksKept DEF RegInv, InsertChecked

LEMMA StripeKeeps ==
    ASSUME RegInv, NEW s \in Sessions, StripeDecides(s)
    PROVE  RegInv'
<1>1. PICK st \in Statuses :
        /\ stripe[s].status = "processing" /\ stripe[s] \in SessionStates
        /\ stripe' = [stripe EXCEPT ![s] = [stripe[s] EXCEPT !.status = st]]
        /\ UNCHANGED <<voter, form, call, lost>>
  BY DEF StripeDecides, Statuses, RegInv, TypeOK
<1>2. stripe' \in [Sessions -> SessionStates] /\ VerifiedKept
  <2>1. [stripe[s] EXCEPT !.status = st] \in SessionStates
    BY <1>1 DEF SessionStates
  <2> QED BY <1>1, <2>1 DEF RegInv, TypeOK, VerifiedKept
<1>3. TypeOK' /\ Grows /\ Rows' = Rows /\ TypedKept
  BY <1>1, <1>2 DEF RegInv, TypeOK, Grows, Rows, TypedKept
<1> QED BY <1>1, <1>2, <1>3, RowsKept, ChecksKept DEF RegInv, InsertChecked

(* Requests that write no row.                                             *)
LEMMA CallStepKeeps ==
    ASSUME RegInv, NEW b \in Browsers, UNCHANGED <<voter, stripe>>,
           lost' \in 0 .. MaxLost,
           NEW c \in CallStates, call' = [call EXCEPT ![b] = c],
           NEW v, v = form[b].voterId \/ (v \in Rows /\ Carries(v, form[b].typed)),
           form' = [form EXCEPT ![b] = [form[b] EXCEPT !.voterId = v]],
           c.stage = "insert" => c.kyc = call[b].kyc
                                 /\ (Passport(b) => KycBacks(call[b].kyc, form[b].typed))
    PROVE  RegInv'
<1>1. /\ form[b] \in FormStates /\ v \in VoterIds \cup {None}
      /\ form[b].kycSessionId \in Sessions \cup {None} /\ form[b].kycStatus \in Statuses \cup {None}
      /\ form[b].polls \in SUBSET Sessions
  BY DEF RegInv, TypeOK, FormStates, Rows
<1>2. /\ form' \in [Browsers -> FormStates] /\ TypedKept
      /\ form'[b].voterId = v /\ \A d \in Browsers : d # b => form'[d].voterId = form[d].voterId
  <2> DEFINE f == [form[b] EXCEPT !.voterId = v]
  <2>1. f \in FormStates /\ f.typed = form[b].typed /\ f.voterId = v
    BY <1>1, FormKeeps
  <2>2. form' = [form EXCEPT ![b] = f]
    OBVIOUS
  <2> HIDE DEF f
  <2> QED BY <2>1, <2>2, FormUpdated DEF RegInv
<1>3. TypeOK' /\ Grows /\ Rows' = Rows /\ VerifiedKept
  BY <1>2 DEF RegInv, TypeOK, Grows, Rows, VerifiedKept
<1>4. /\ call'[b] = c /\ \A d \in Browsers : d # b => call'[d] = call[d]
  BY DEF RegInv, TypeOK
<1>5. \/ form'[b].voterId = form[b].voterId
      \/ form'[b].voterId \in Rows' /\ Carries(form[b].voterId, form[b].typed)'
  BY <1>2, <1>3 DEF Carries, TypedKept
<1>6. InsertChecked' /\ KnownRows'
  BY <1>2, <1>3, <1>4, <1>5, ChecksKept DEF RegInv
<1> QED BY <1>3, <1>6, RowsKept DEF RegInv

LEMMA FormAsItWas ==
    ASSUME TypeOK, NEW b \in Browsers
    PROVE  form = [form EXCEPT ![b] = [form[b] EXCEPT !.voterId = form[b].voterId]]
BY DEF TypeOK, FormStates

LEMMA SubmitKeeps ==
    ASSUME RegInv, NEW b \in Browsers, Submit(b)
    PROVE  RegInv'
<1>1. PICK k \in Sessions \cup {None} : call' = [call EXCEPT ![b] = [stage |-> "sent", kyc |-> k]]
  BY DEF Submit, RegInv, TypeOK, FormStates
<1>2. UNCHANGED <<voter, stripe, form, lost>>
  BY DEF Submit
<1>3. /\ [stage |-> "sent", kyc |-> k] \in CallStates
      /\ [stage |-> "sent", kyc |-> k].stage # "insert"
  BY DEF CallStates
<1>4. form' = [form EXCEPT ![b] = [form[b] EXCEPT !.voterId = form[b].voterId]]
  BY <1>2, FormAsItWas DEF RegInv
<1>5. lost' \in 0 .. MaxLost
  BY <1>2 DEF RegInv, TypeOK
<1> QED BY <1>1, <1>2, <1>3, <1>4, <1>5, CallStepKeeps

LEMMA RefusalKeeps ==
    ASSUME RegInv, NEW b \in Browsers, call' = [call EXCEPT ![b] = NoCall],
           UNCHANGED <<voter, stripe, form>>, lost' \in 0 .. MaxLost
    PROVE  RegInv'
<1>1. NoCall \in CallStates /\ NoCall.stage # "insert"
  BY DEF CallStates, NoCall
<1>2. form' = [form EXCEPT ![b] = [form[b] EXCEPT !.voterId = form[b].voterId]]
  BY FormAsItWas DEF RegInv
<1> QED BY <1>1, <1>2, CallStepKeeps

LEMMA FindKeeps ==
    ASSUME RegInv, NEW b \in Browsers, FindPending(b)
    PROVE  RegInv'
<1>1. /\ Passport(b) => KycBacks(call[b].kyc, form[b].typed)
      /\ UNCHANGED <<voter, stripe, lost>> /\ lost' \in 0 .. MaxLost
      /\ call[b] \in CallStates /\ NoCall \in CallStates /\ NoCall.stage # "insert"
  BY DEF FindPending, RegInv, TypeOK, CallStates, NoCall
<1>2. CASE PendingFor(form[b].typed) = {}
  <2>1. /\ call' = [call EXCEPT ![b] = [call[b] EXCEPT !.stage = "insert"]] /\ UNCHANGED form
    BY <1>2 DEF FindPending
  <2>2. /\ [call[b] EXCEPT !.stage = "insert"] \in CallStates
        /\ [call[b] EXCEPT !.stage = "insert"].kyc = call[b].kyc
    BY <1>1 DEF CallStates
  <2>3. form' = [form EXCEPT ![b] = [form[b] EXCEPT !.voterId = form[b].voterId]]
    BY <2>1, FormAsItWas DEF RegInv
  <2> QED BY <1>1, <2>1, <2>2, <2>3, CallStepKeeps
<1>3. CASE PendingFor(form[b].typed) # {}
  <2>1. PICK v \in PendingFor(form[b].typed) : Answered(b, v)
    BY <1>3 DEF FindPending
  <2>2. v \in Rows /\ Carries(v, form[b].typed)
    BY DEF PendingFor
  <2>3. /\ call' = [call EXCEPT ![b] = NoCall]
        /\ form' = [form EXCEPT ![b] = [form[b] EXCEPT !.voterId = v]]
    BY <2>1 DEF Answered
  <2> QED BY <1>1, <2>2, <2>3, CallStepKeeps
<1> QED BY <1>2, <1>3

(* Inserts, whether the answer arrives or not.                             *)
LEMMA InsertKeeps ==
    ASSUME RegInv, NEW b \in Browsers, call[b].stage = "insert", Unique(RowOf(b)),
           NEW v \in VoterIds \ Rows, voter' = [voter EXCEPT ![v] = RowOf(b)],
           UNCHANGED stripe, lost' \in 0 .. MaxLost, call' = [call EXCEPT ![b] = NoCall],
           NEW id \in {form[b].voterId, v},
           form' = [form EXCEPT ![b] = [form[b] EXCEPT !.voterId = id]]
    PROVE  RegInv'
<1>1. /\ voter' \in [VoterIds -> Voters \cup {None}] /\ Grows /\ Rows' = Rows \cup {v}
      /\ RowsSound' /\ RowsApart'
  BY RowAdded
<1>2. /\ form[b] \in FormStates /\ id \in VoterIds \cup {None}
      /\ form[b].kycSessionId \in Sessions \cup {None} /\ form[b].kycStatus \in Statuses \cup {None}
      /\ form[b].polls \in SUBSET Sessions
  BY DEF RegInv, TypeOK, FormStates
<1>3. /\ form' \in [Browsers -> FormStates] /\ TypedKept
      /\ form'[b].voterId = id /\ \A d \in Browsers : d # b => form'[d].voterId = form[d].voterId
  <2> DEFINE f == [form[b] EXCEPT !.voterId = id]
  <2>1. f \in FormStates /\ f.typed = form[b].typed /\ f.voterId = id
    BY <1>2, FormKeeps
  <2>2. form' = [form EXCEPT ![b] = f]
    OBVIOUS
  <2> HIDE DEF f
  <2> QED BY <2>1, <2>2, FormUpdated DEF RegInv
<1>4. /\ call' \in [Browsers -> CallStates] /\ call'[b].stage = "idle"
      /\ \A d \in Browsers : d # b => call'[d] = call[d]
  BY DEF RegInv, TypeOK, CallStates, NoCall
<1>5. TypeOK' /\ VerifiedKept
  BY <1>1, <1>3, <1>4 DEF RegInv, TypeOK, VerifiedKept
<1>6. id = v => id \in Rows' /\ Carries(form[b].voterId, form[b].typed)'
  <2>1. /\ voter'[v].ni = TokenNI(form[b].typed) /\ voter'[v].passport = TokenPassport(form[b].typed)
        /\ TokenNI(form[b].typed) # None \/ TokenPassport(form[b].typed) # None
    BY RowIsVoter DEF RegInv, TypeOK
  <2> QED BY <1>1, <1>3, <2>1 DEF Carries, Same, TypedKept
<1>7. InsertChecked' /\ KnownRows'
  BY <1>1, <1>3, <1>4, <1>5, <1>6, ChecksKept DEF RegInv
<1> QED BY <1>1, <1>5, <1>7 DEF RegInv

LEMMA LoseKeeps ==
    ASSUME RegInv, NEW b \in Browsers, Lose(b)
    PROVE  RegInv'
<1>1. lost' \in 0 .. MaxLost
  BY RegistrationAssumption DEF Lose, RegInv, TypeOK
<1>2. CASE UNCHANGED voter
  BY <1>1, <1>2, RefusalKeeps DEF Lose
<1>3. CASE /\ call[b].stage = "insert" /\ Unique(RowOf(b))
           /\ \E v \in VoterIds \ Rows : voter' = [voter EXCEPT ![v] = RowOf(b)]
  <2>1. PICK v \in VoterIds \ Rows : voter' = [voter EXCEPT ![v] = RowOf(b)]
    BY <1>3
  <2>2. form' = [form EXCEPT ![b] = [form[b] EXCEPT !.voterId = form[b].voterId]]
    BY FormAsItWas DEF Lose, RegInv
  <2> QED BY <1>1, <1>3, <2>1, <2>2, InsertKeeps DEF Lose
<1> QED BY <1>2, <1>3 DEF Lose

LEMMA ActivateKeeps ==
    ASSUME RegInv, NEW b \in Browsers, Activate(b)
    PROVE  RegInv'
<1> DEFINE v == form[b].voterId
<1>1. v \in Rows /\ voter[v] \in Voters
  BY DEF Activate, RegInv, KnownRows, Rows, TypeOK
<1>2. /\ voter' = [voter EXCEPT ![v] = [voter[v] EXCEPT !.status = "ACTIVE"]]
      /\ UNCHANGED <<stripe, form, call, lost>>
  BY DEF Activate
<1>3. /\ [voter[v] EXCEPT !.status = "ACTIVE"] \in Voters
      /\ [voter[v] EXCEPT !.status = "ACTIVE"].person = voter[v].person
      /\ [voter[v] EXCEPT !.status = "ACTIVE"].ni = voter[v].ni
      /\ [voter[v] EXCEPT !.status = "ACTIVE"].passport = voter[v].passport
      /\ [voter[v] EXCEPT !.status = "ACTIVE"].kyc = voter[v].kyc
  BY <1>1 DEF Voters
<1> HIDE DEF v
<1>4. [voter[v] EXCEPT !.status = "ACTIVE"] # None
  BY <1>3, RegistrationAssumption
<1>5. TypeOK' /\ Rows' = Rows /\ Grows
  BY <1>1, <1>2, <1>3, <1>4 DEF RegInv, TypeOK, Rows, Grows
<1>6. TypedKept /\ VerifiedKept
  BY <1>2 DEF TypedKept, VerifiedKept
<1> QED BY <1>2, <1>5, <1>6, RowsKept, ChecksKept DEF RegInv, InsertChecked

LEMMA NextKeeps ==
    ASSUME RegInv, [Next]_regVars PROVE RegInv'
<1>1. ASSUME NEW b \in Browsers, Serve(b) PROVE RegInv'
  <2>1. lost \in 0 .. MaxLost
    BY DEF RegInv, TypeOK
  <2>2. CASE RefuseKyc(b)
    BY <2>1, <2>2, RefusalKeeps DEF RefuseKyc
  <2>3. CASE FindPending(b)
    BY <2>3, FindKeeps
  <2>4. CASE Insert(b)
    <3>1. PICK v \in VoterIds \ Rows : voter' = [voter EXCEPT ![v] = RowOf(b)] /\ Answered(b, v)
      BY <2>4 DEF Insert
    <3> QED BY <2>1, <2>4, <3>1, InsertKeeps DEF Insert, Answered
  <2>5. CASE RefuseInsert(b)
    BY <2>1, <2>5, RefusalKeeps DEF RefuseInsert
  <2> QED BY <1>1, <2>2, <2>3, <2>4, <2>5 DEF Serve
<1>2. CASE UNCHANGED regVars
  BY <1>2 DEF regVars, RegInv, TypeOK, InsertChecked, KnownRows, RowsSound, RowsApart,
              Documented, Apart, Carries, Same, Rows, Passport, KycBacks
<1> QED BY <1>1, <1>2, SubmitKeeps, LoseKeeps, ActivateKeeps, KycKeeps, StripeKeeps DEF Next

-----------------------------------------------------------------------------
(* Every behaviour of the form, the identity sessions and the table is     *)
(* well typed.                                                             *)
THEOREM TypeCorrect == Spec => []TypeOK
<1>1. RegInv => TypeOK
  BY DEF RegInv
<1> QED BY <1>1, InitTypes, NextKeeps, PTL DEF Spec

(* A voter without a national insurance number has a session of their own  *)
(* document behind them that backs nobody else, for any number of people,  *)
(* browsers, sessions and lost answers (kyc_service.py:161-224).           *)
THEOREM OwnDocument == Spec => []DocumentBehindVoter
<1>1. RegInv => DocumentBehindVoter
  <2>1. ASSUME RegInv, NEW v \in Rows, voter[v].ni = None, NEW w \in Rows,
               voter[w].kyc = voter[v].kyc
        PROVE  v = w
    BY <2>1 DEF RegInv, RowsSound, Documented, RowsApart, Apart, Same
  <2> QED BY <2>1 DEF RegInv, RowsSound, Documented, DocumentBehindVoter
<1> QED BY <1>1, InitTypes, NextKeeps, PTL DEF Spec

(* The rows that carry a number are the one voter that whoever typed it is *)
(* told, for any numbers, forms and browsers, requests that overlap and    *)
(* answers that are lost (voter_service.py:129-142).                       *)
THEOREM OneNumberOneVoter == Spec => []OneVoterPerNumber
<1>1. ASSUME RegInv, NEW b \in Browsers, form[b].voterId # None, NEW v \in Rows
      PROVE  Carries(v, form[b].typed) <=> v = form[b].voterId
  <2>1. form[b].voterId \in Rows /\ Carries(form[b].voterId, form[b].typed)
    BY <1>1 DEF RegInv, KnownRows
  <2>2. TokenNI(form[b].typed) = None \/ TokenPassport(form[b].typed) = None
    BY DEF TokenNI, TokenPassport
  <2> QED BY <1>1, <2>1, <2>2, CarriersMeet DEF RegInv
<1>2. RegInv => OneVoterPerNumber
  BY <1>1 DEF OneVoterPerNumber
<1> QED BY <1>2, InitTypes, NextKeeps, PTL DEF Spec
=============================================================================
