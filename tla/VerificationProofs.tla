------------------------- MODULE VerificationProofs -------------------------
(***************************************************************************)
(* Theorems about Verification, for any number of phones, credentials,     *)
(* proofs and codes.                                                       *)
(***************************************************************************)
EXTENDS Verification, SequenceTheorems, TLAPS

Credentials == [device : Phones, active : BOOLEAN, used : Times]
PhonePages == [step : {"off", "ready", "capturing", "checked"}, key : Keys \cup {0},
               templates : BOOLEAN]
CheckStates == [code : 0 .. MaxCodes, overtaken : BOOLEAN]
Codes == [state : {"sending", "live", "dead", "lost"}, mailed : BOOLEAN, replaces : SUBSET Nat]
WebPages == [purpose : {"vote", "update"},
             step : {"identity", "method", "biometric", "email", "past"},
             status : {"idle", "awaiting", "verified", "failed", "typing"},
             polls : SUBSET Times, entered : Times, begun : Times]

-----------------------------------------------------------------------------
(* Credentials and phones.  At most one credential is active: an enrolment *)
(* retires the others in the transaction that adds its own.                *)
KeyTypes ==
    /\ credential \in Seq(Credentials) /\ Len(credential) <= MaxKeys
    /\ proofs \in Times
    /\ phone \in [Phones -> PhonePages]

OneActive == \A j, k \in ActiveKeys : j = k

UsedByNow == \A k \in DOMAIN credential : credential[k].used <= proofs

PhonesKeep ==
    \A h \in Phones : phone[h].step \in {"capturing", "checked"} => phone[h].key \in DOMAIN credential

KeyInv == KeyTypes /\ OneActive /\ UsedByNow /\ PhonesKeep

LEMMA NewestOfOne ==
    ASSUME NEW S, NEW k \in S, k \in Nat, \A j \in S : j = k
    PROVE  Newest(S) = k
<1>1. \A j \in S : j <= k
  OBVIOUS
<1> QED BY <1>1 DEF Newest

LEMMA KeyDomain ==
    KeyTypes => /\ DOMAIN credential = 1 .. Len(credential) /\ Len(credential) \in Nat
                /\ \A k \in DOMAIN credential : credential[k] \in Credentials /\ k \in Keys
BY VerificationAssumption, LenProperties, ElementOfSeq DEF KeyTypes, Keys

LEMMA CurrentIsActive ==
    ASSUME KeyTypes, OneActive
    PROVE  /\ \A k \in ActiveKeys : Current = k /\ LastUsed = credential[k].used
           /\ ActiveKeys = {} => Current = 0 /\ LastUsed = 0
<1>1. ActiveKeys \subseteq Nat \ {0}
  BY KeyDomain DEF ActiveKeys
<1>2. ASSUME NEW k \in ActiveKeys PROVE Current = k
  BY <1>1, NewestOfOne DEF Current, OneActive
<1> QED BY <1>1, <1>2 DEF Current, LastUsed

LEMMA LastUsedType ==
    ASSUME KeyTypes, OneActive, UsedByNow
    PROVE  LastUsed \in Times /\ LastUsed <= proofs /\ proofs \in Nat
<1>1. proofs \in Times /\ proofs \in Nat /\ 0 \in Times
  BY VerificationAssumption DEF KeyTypes, Times
<1>2. CASE ActiveKeys = {}
  BY <1>1, <1>2, CurrentIsActive DEF Times
<1>3. ASSUME NEW k \in ActiveKeys PROVE LastUsed \in Times /\ LastUsed <= proofs
  BY CurrentIsActive, KeyDomain DEF ActiveKeys, Credentials, UsedByNow
<1> QED BY <1>1, <1>2, <1>3

(* What becomes of the credentials: all are retired for a new one, one is  *)
(* revoked, or one is used.                                                *)
LEMMA Retired ==
    ASSUME KeyTypes, NEW h \in Phones,
           credential' = Append([k \in DOMAIN credential |-> [credential[k] EXCEPT !.active = FALSE]],
                                [device |-> h, active |-> TRUE, used |-> 0])
    PROVE  /\ credential' \in Seq(Credentials) /\ Len(credential') = Len(credential) + 1
           /\ DOMAIN credential' = 1 .. Len(credential) + 1
           /\ \A k \in DOMAIN credential : /\ credential'[k].used = credential[k].used
                                           /\ ~credential'[k].active
           /\ credential'[Len(credential) + 1] = [device |-> h, active |-> TRUE, used |-> 0]
<1> DEFINE n == Len(credential)
           old == [k \in DOMAIN credential |-> [credential[k] EXCEPT !.active = FALSE]]
           new == [device |-> h, active |-> TRUE, used |-> 0]
<1>1. n \in Nat /\ DOMAIN credential = 1 .. n
  BY KeyDomain
<1>2. \A k \in 1 .. n : credential[k] \in Credentials
  BY KeyDomain
<1>3. \A k \in 1 .. n : /\ [credential[k] EXCEPT !.active = FALSE] \in Credentials
                        /\ [credential[k] EXCEPT !.active = FALSE].used = credential[k].used
                        /\ ~[credential[k] EXCEPT !.active = FALSE].active
  BY <1>2 DEF Credentials
<1>4. old \in [1 .. n -> Credentials]
  BY <1>1, <1>3
<1>5. old \in Seq(Credentials)
  BY <1>1, <1>4, SeqDef
<1>6. Len(old) = n
  BY <1>1, <1>4, <1>5, LenProperties
<1>7. new \in Credentials
  BY VerificationAssumption DEF Credentials, Times
<1>8. \A k \in 1 .. n : /\ old[k] \in Credentials /\ old[k].used = credential[k].used
                        /\ ~old[k].active
  BY <1>1, <1>3
<1>9. credential' = Append(old, new)
  OBVIOUS
<1> HIDE DEF old, new
<1>10. /\ Append(old, new) \in Seq(Credentials) /\ Len(Append(old, new)) = n + 1
       /\ \A k \in 1 .. n : Append(old, new)[k] = old[k]
       /\ Append(old, new)[n + 1] = new
  BY <1>1, <1>5, <1>6, <1>7, AppendProperties
<1>11. DOMAIN credential' = 1 .. n + 1
  BY <1>9, <1>10, LenProperties
<1> QED BY <1>1, <1>8, <1>9, <1>10, <1>11 DEF new

LEMMA Replaced ==
    ASSUME KeyTypes, NEW k \in DOMAIN credential, NEW e \in Credentials,
           credential' = [credential EXCEPT ![k] = e]
    PROVE  /\ credential' \in Seq(Credentials) /\ Len(credential') = Len(credential)
           /\ DOMAIN credential' = DOMAIN credential /\ credential'[k] = e
           /\ \A j \in DOMAIN credential : j # k => credential'[j] = credential[j]
<1>1. k \in 1 .. Len(credential) /\ DOMAIN credential = 1 .. Len(credential)
      /\ credential \in Seq(Credentials)
  BY KeyDomain DEF KeyTypes
<1>2. /\ credential' \in Seq(Credentials) /\ Len(credential') = Len(credential)
      /\ \A j \in 1 .. Len(credential) : credential'[j] = IF j = k THEN e ELSE credential[j]
  BY <1>1, ExceptSeq
<1>3. DOMAIN credential' = 1 .. Len(credential)
  BY <1>2, LenProperties
<1> QED BY <1>1, <1>2, <1>3

LEMMA Revoked ==
    ASSUME KeyTypes, NEW k \in DOMAIN credential,
           credential' = [credential EXCEPT ![k].active = FALSE]
    PROVE  /\ credential' \in Seq(Credentials) /\ Len(credential') = Len(credential)
           /\ DOMAIN credential' = DOMAIN credential
           /\ ~credential'[k].active /\ credential'[k].used = credential[k].used
           /\ \A j \in DOMAIN credential : j # k => credential'[j] = credential[j]
<1> DEFINE e == [credential[k] EXCEPT !.active = FALSE]
<1>1. credential[k] \in Credentials /\ k \in 1 .. Len(credential)
      /\ DOMAIN credential = 1 .. Len(credential)
  BY KeyDomain
<1>2. e \in Credentials /\ ~e.active /\ e.used = credential[k].used
  BY <1>1 DEF Credentials
<1>3. credential' = [credential EXCEPT ![k] = e]
  OBVIOUS
<1> HIDE DEF e
<1> QED BY <1>1, <1>2, <1>3, Replaced

LEMMA Used ==
    ASSUME KeyTypes, NEW k \in DOMAIN credential, NEW t \in Times,
           credential' = [credential EXCEPT ![k].used = t]
    PROVE  /\ credential' \in Seq(Credentials) /\ Len(credential') = Len(credential)
           /\ DOMAIN credential' = DOMAIN credential
           /\ credential'[k].active = credential[k].active /\ credential'[k].used = t
           /\ \A j \in DOMAIN credential : j # k => credential'[j] = credential[j]
<1> DEFINE e == [credential[k] EXCEPT !.used = t]
<1>1. credential[k] \in Credentials /\ k \in 1 .. Len(credential)
      /\ DOMAIN credential = 1 .. Len(credential)
  BY KeyDomain
<1>2. e \in Credentials /\ e.active = credential[k].active /\ e.used = t
  BY <1>1 DEF Credentials
<1>3. credential' = [credential EXCEPT ![k] = e]
  OBVIOUS
<1> HIDE DEF e
<1> QED BY <1>1, <1>2, <1>3, Replaced

LEMMA StepType ==
    ASSUME NEW p \in PhonePages, NEW step \in {"off", "ready", "capturing", "checked"}
    PROVE  /\ [p EXCEPT !.step = step] \in PhonePages /\ [p EXCEPT !.step = step].step = step
           /\ [p EXCEPT !.step = step].key = p.key
BY DEF PhonePages

LEMMA StepKeyType ==
    ASSUME NEW p \in PhonePages, NEW step \in {"off", "ready", "capturing", "checked"},
           NEW k, k = 0 \/ k \in Keys
    PROVE  /\ [p EXCEPT !.step = step, !.key = k] \in PhonePages
           /\ [p EXCEPT !.step = step, !.key = k].step = step
           /\ [p EXCEPT !.step = step, !.key = k].key = k
BY DEF PhonePages

LEMMA ResetType ==
    ASSUME NEW p \in PhonePages, NEW step \in {"off", "ready"}
    PROVE  /\ [p EXCEPT !.step = step, !.key = 0] \in PhonePages
           /\ [p EXCEPT !.step = step, !.key = 0].step \in {"off", "ready"}
BY DEF PhonePages

LEMMA TemplatesType ==
    ASSUME NEW p \in PhonePages
    PROVE  /\ [p EXCEPT !.templates = TRUE] \in PhonePages
           /\ [p EXCEPT !.templates = TRUE].step = p.step
BY DEF PhonePages

(* A step of the keys: what it does to the credentials and to a phone.     *)
LEMMA KeysStep ==
    ASSUME KeyInv,
           credential' \in Seq(Credentials), Len(credential') <= MaxKeys,
           DOMAIN credential \subseteq DOMAIN credential',
           proofs' \in Times, proofs' >= proofs,
           \A k \in DOMAIN credential' : credential'[k].used <= proofs',
           \A j, k \in DOMAIN credential' : credential'[j].active /\ credential'[k].active => j = k,
           NEW h \in Phones, NEW p \in PhonePages,
           phone' = [phone EXCEPT ![h] = p] \/ phone' = phone,
           p.step \in {"capturing", "checked"} => p.key \in DOMAIN credential
    PROVE  KeyInv'
<1>1. KeyTypes'
  BY DEF KeyInv, KeyTypes
<1>2. OneActive' /\ UsedByNow'
  BY DEF OneActive, UsedByNow, ActiveKeys
<1>3. PhonesKeep'
  BY DEF KeyInv, KeyTypes, PhonesKeep
<1> QED BY <1>1, <1>2, <1>3 DEF KeyInv

(* A step that leaves the credentials alone.                               *)
LEMMA PhoneStep ==
    ASSUME KeyInv, UNCHANGED <<credential, proofs>>, NEW h \in Phones, NEW p \in PhonePages,
           phone' = [phone EXCEPT ![h] = p] \/ phone' = phone,
           p.step \in {"capturing", "checked"} => p.key \in DOMAIN credential
    PROVE  KeyInv' /\ LastUsed' = LastUsed /\ proofs' = proofs
<1>1. KeyTypes'
  BY DEF KeyInv, KeyTypes
<1>2. OneActive' /\ UsedByNow'
  BY DEF KeyInv, OneActive, UsedByNow, ActiveKeys
<1>3. PhonesKeep'
  BY DEF KeyInv, KeyTypes, PhonesKeep
<1>4. LastUsed' = LastUsed
  BY DEF LastUsed, Current, ActiveKeys
<1> QED BY <1>1, <1>2, <1>3, <1>4 DEF KeyInv

(* What a page can learn of a step of the phones: the last use is as it    *)
(* was, or of a credential never used, or of just now.                     *)
Seen == proofs' >= proofs /\ LastUsed' \in {0, LastUsed, proofs + 1}
        /\ (LastUsed' = proofs + 1 => proofs' = proofs + 1)

LEMMA OfPhoneInv ==
    ASSUME KeyInv, NEW h \in Phones, OfPhone(h)
    PROVE  KeyInv' /\ Seen
<1>a. /\ phone[h] \in PhonePages /\ proofs \in Nat /\ proofs \in Times /\ 0 \in Times
      /\ KeyTypes /\ OneActive
  BY VerificationAssumption DEF KeyInv, KeyTypes, Times
<1>b. /\ DOMAIN credential = 1 .. Len(credential) /\ Len(credential) \in Nat
      /\ \A k \in DOMAIN credential : credential[k] \in Credentials /\ k \in Keys
  BY <1>a, KeyDomain
<1>c. LastUsed \in Nat /\ LastUsed <= proofs
  BY LastUsedType DEF KeyInv, Times
<1>1. ASSUME NEW step \in {"off", "ready"}, UNCHANGED <<credential, proofs>>,
             phone' = [phone EXCEPT ![h] = [phone[h] EXCEPT !.step = step, !.key = 0]]
      PROVE  KeyInv' /\ Seen
  <2> DEFINE p == [phone[h] EXCEPT !.step = step, !.key = 0]
  <2>1. p \in PhonePages /\ p.step \in {"off", "ready"}
    BY <1>a, ResetType
  <2>2. phone' = [phone EXCEPT ![h] = p]
    BY <1>1
  <2> HIDE DEF p
  <2>3. KeyInv' /\ LastUsed' = LastUsed /\ proofs' = proofs
    BY <1>1, <2>1, <2>2, PhoneStep
  <2> QED BY <1>a, <1>c, <2>3 DEF Seen
<1>2. CASE Enrol(h)
  <2> DEFINE p == [phone[h] EXCEPT !.templates = TRUE]
  <2>1. p \in PhonePages /\ p.step = "off" /\ phone' = [phone EXCEPT ![h] = p] /\ proofs' = proofs
    BY <1>a, <1>2, TemplatesType DEF Enrol, OnPhone
  <2> HIDE DEF p
  <2>2. CASE credential' = credential
    <3>1. KeyInv' /\ LastUsed' = LastUsed /\ proofs' = proofs
      BY <2>1, <2>2, PhoneStep
    <3> QED BY <1>a, <1>c, <3>1 DEF Seen
  <2>3. CASE credential' # credential
    <3>1. /\ Len(credential) < MaxKeys
          /\ credential' = Append([k \in DOMAIN credential |-> [credential[k] EXCEPT !.active = FALSE]],
                                  [device |-> h, active |-> TRUE, used |-> 0])
      BY <1>2, <2>3 DEF Enrol
    <3> DEFINE n == Len(credential) + 1
    <3>2. /\ credential' \in Seq(Credentials) /\ Len(credential') = n
          /\ DOMAIN credential' = 1 .. n
          /\ \A k \in DOMAIN credential : credential'[k].used = credential[k].used
                                         /\ ~credential'[k].active
          /\ credential'[n] = [device |-> h, active |-> TRUE, used |-> 0]
      BY <1>a, <3>1, Retired
    <3>3. \A k \in 1 .. n : k \in DOMAIN credential \/ k = n
      BY <1>b
    <3>4. \A k \in DOMAIN credential' : credential'[k].used <= proofs
      BY <1>a, <1>b, <3>2, <3>3 DEF KeyInv, UsedByNow
    <3>5. ActiveKeys' = {n}
      BY <1>b, <3>2, <3>3 DEF ActiveKeys
    <3>9. \A j, k \in DOMAIN credential' : credential'[j].active /\ credential'[k].active => j = k
      BY <3>5 DEF ActiveKeys
    <3>6. DOMAIN credential \subseteq DOMAIN credential' /\ Len(credential') <= MaxKeys
      BY <1>b, <3>1, <3>2, VerificationAssumption
    <3>7. KeyInv'
      <4>1. proofs' >= proofs /\ \A k \in DOMAIN credential' : credential'[k].used <= proofs'
        BY <1>a, <2>1, <3>4
      <4> HIDE DEF n
      <4> QED BY <1>a, <2>1, <3>2, <3>6, <3>9, <4>1, KeysStep
    <3>8. LastUsed' = 0
      <4>1. Newest({n}) = n
        BY <1>b, NewestOfOne
      <4> QED BY <3>2, <3>5, <4>1 DEF LastUsed, Current
    <3> QED BY <1>a, <2>1, <3>7, <3>8 DEF Seen
  <2> QED BY <2>2, <2>3
<1>3. CASE ScanQr(h)
  <2> DEFINE p == [phone[h] EXCEPT !.step = "ready"]
  <2>1. p \in PhonePages /\ p.step = "ready"
    BY <1>a, StepType
  <2>2. UNCHANGED <<credential, proofs>> /\ phone' = [phone EXCEPT ![h] = p]
    BY <1>3 DEF ScanQr, OnPhone
  <2> HIDE DEF p
  <2>3. KeyInv' /\ LastUsed' = LastUsed /\ proofs' = proofs
    BY <2>1, <2>2, PhoneStep
  <2> QED BY <1>a, <1>c, <2>3 DEF Seen
<1>4. CASE HandleStartVerify(h)
  <2> DEFINE p == [phone[h] EXCEPT !.step = "capturing", !.key = Current]
  <2>1. Current \in DOMAIN credential
    BY <1>a, <1>4, CurrentIsActive DEF HandleStartVerify, ActiveKeys
  <2>2. p \in PhonePages /\ p.key = Current
    <3>1. Current \in Keys
      BY <1>b, <2>1
    <3> QED BY <1>a, <3>1, StepKeyType
  <2>3. UNCHANGED <<credential, proofs>> /\ phone' = [phone EXCEPT ![h] = p]
    BY <1>4 DEF HandleStartVerify, OnPhone
  <2> HIDE DEF p
  <2>4. KeyInv' /\ LastUsed' = LastUsed /\ proofs' = proofs
    BY <2>1, <2>2, <2>3, PhoneStep
  <2> QED BY <1>a, <1>c, <2>4 DEF Seen
<1>5. CASE HandleCaptureComplete(h)
  <2> DEFINE p == [phone[h] EXCEPT !.step = "checked"]
  <2>1. p \in PhonePages /\ p.key = phone[h].key
    BY <1>a, StepType
  <2>2. p.key \in DOMAIN credential
    BY <1>5, <2>1 DEF KeyInv, PhonesKeep, HandleCaptureComplete
  <2>3. UNCHANGED <<credential, proofs>> /\ phone' = [phone EXCEPT ![h] = p]
    BY <1>5 DEF HandleCaptureComplete, OnPhone
  <2> HIDE DEF p
  <2>4. KeyInv' /\ LastUsed' = LastUsed /\ proofs' = proofs
    BY <2>1, <2>2, <2>3, PhoneStep
  <2> QED BY <1>a, <1>c, <2>4 DEF Seen
<1>6. CASE RefuseVerify(h) \/ FailVerify(h)
  BY <1>1, <1>6 DEF RefuseVerify, FailVerify, OnPhone
<1>7. CASE CommitVerify(h)
  <2> DEFINE k == phone[h].key
             t == proofs + 1
  <2>1. k \in DOMAIN credential /\ t \in Times /\ proofs' = t
    BY <1>a, <1>7, VerificationAssumption DEF KeyInv, PhonesKeep, CommitVerify, Times
  <2>2. credential' = [credential EXCEPT ![k].used = t]
    BY <1>7 DEF CommitVerify
  <2>3. /\ credential' \in Seq(Credentials) /\ Len(credential') = Len(credential)
        /\ DOMAIN credential' = DOMAIN credential
        /\ credential'[k].active = credential[k].active /\ credential'[k].used = t
        /\ \A j \in DOMAIN credential : j # k => credential'[j] = credential[j]
    <3> HIDE DEF k, t
    <3> QED BY <1>a, <2>1, <2>2, Used
  <2>4. PICK step \in {"off", "ready"} :
          phone' = [phone EXCEPT ![h] = [phone[h] EXCEPT !.step = step, !.key = 0]]
    BY <1>7 DEF CommitVerify, OnPhone
  <2> DEFINE p == [phone[h] EXCEPT !.step = step, !.key = 0]
  <2>5. p \in PhonePages /\ p.step \in {"off", "ready"}
    BY <1>a, <2>4, ResetType
  <2>11. phone' = [phone EXCEPT ![h] = p]
    BY <2>4
  <2>6. \A j \in DOMAIN credential' : credential'[j].used <= t
    BY <1>a, <1>b, <2>1, <2>3 DEF KeyInv, UsedByNow, Credentials, Times
  <2>7. ActiveKeys' = ActiveKeys
    BY <2>1, <2>3 DEF ActiveKeys
  <2> HIDE DEF p
  <2>8. /\ Len(credential') <= MaxKeys /\ proofs' >= proofs
        /\ \A i, j \in DOMAIN credential' : credential'[i].active /\ credential'[j].active => i = j
    BY <1>a, <2>1, <2>3, <2>7 DEF KeyInv, KeyTypes, OneActive, ActiveKeys
  <2>9. KeyInv'
    BY <2>1, <2>3, <2>5, <2>6, <2>8, <2>11, KeysStep
  <2>10. LastUsed' \in {0, LastUsed, t}
    <3>1. Current' = Current
      BY <2>7 DEF Current
    <3>2. Current = 0 \/ Current \in DOMAIN credential
      BY <1>a, CurrentIsActive DEF ActiveKeys
    <3> QED BY <2>1, <2>3, <3>1, <3>2 DEF LastUsed
  <2> QED BY <1>a, <2>1, <2>8, <2>9, <2>10 DEF Seen
<1> QED BY <1>2, <1>3, <1>4, <1>5, <1>6, <1>7 DEF OfPhone

LEMMA RevokeInv ==
    ASSUME KeyInv, NEW k \in Keys, Revoke(k)
    PROVE  KeyInv' /\ Seen
<1>a. KeyTypes /\ OneActive /\ UsedByNow /\ proofs \in Nat /\ proofs \in Times
  BY DEF KeyInv, KeyTypes, Times
<1>1. k \in DOMAIN credential /\ k \in ActiveKeys /\ UNCHANGED <<proofs, phone>>
  BY DEF Revoke, ActiveKeys
<1>2. /\ credential' \in Seq(Credentials) /\ Len(credential') = Len(credential)
      /\ DOMAIN credential' = DOMAIN credential
      /\ ~credential'[k].active /\ credential'[k].used = credential[k].used
      /\ \A j \in DOMAIN credential : j # k => credential'[j] = credential[j]
  BY <1>a, <1>1, Revoked DEF Revoke
<1>3. ActiveKeys' = {}
  BY <1>a, <1>1, <1>2 DEF ActiveKeys, OneActive
<1>4. KeyTypes' /\ UsedByNow' /\ PhonesKeep'
  BY <1>a, <1>1, <1>2 DEF KeyInv, KeyTypes, UsedByNow, PhonesKeep
<1>5. KeyInv'
  BY <1>3, <1>4 DEF KeyInv, OneActive
<1>6. LastUsed' = 0
  BY <1>3 DEF LastUsed, Current
<1> QED BY <1>a, <1>1, <1>5, <1>6 DEF Seen

-----------------------------------------------------------------------------
(* The page.  What a poll compares with was the last use at some moment    *)
(* since the page began to ask; so a last use that differs is of a new     *)
(* credential that was never used, or came after.                          *)
PollSound(b) == LastUsed = 0 \/ LastUsed = b \/ LastUsed > page.entered

PageInv ==
    /\ page \in WebPages
    /\ page.entered <= proofs
    /\ page.step \in {"identity", "method"} => page.status = "idle"
    /\ page.step # "biometric" => page.polls = {}
    /\ \A b \in page.polls : PollSound(b)
    /\ VerifiedSinceAsked

LEMMA PageInit == Init => KeyInv /\ PageInv
<1> SUFFICES ASSUME Init PROVE KeyInv /\ PageInv
  OBVIOUS
<1> DEFINE first == [device |-> Registered, active |-> TRUE, used |-> 0]
<1>1. 0 \in Times /\ first \in Credentials /\ 1 <= MaxKeys
  BY VerificationAssumption DEF Times, Credentials
<1>2. credential = <<first>> /\ proofs = 0
  BY DEF Init
<1>3. credential \in Seq(Credentials) /\ Len(credential) = 1 /\ DOMAIN credential = {1}
      /\ credential[1] = first
  <2> HIDE DEF first
  <2> QED BY <1>1, <1>2
<1>4. phone \in [Phones -> PhonePages] /\ \A h \in Phones : phone[h].step = "off"
  BY DEF Init, PhonePages
<1>5. KeyInv
  BY <1>1, <1>2, <1>3, <1>4
     DEF KeyInv, KeyTypes, OneActive, UsedByNow, PhonesKeep, ActiveKeys
<1>6. PageInv
  <2>1. page \in WebPages
    BY <1>1 DEF Init, WebPages
  <2>2. page.step = "identity" /\ page.status = "idle" /\ page.polls = {} /\ page.entered = 0
    BY DEF Init
  <2> QED BY <1>2, <2>1, <2>2 DEF PageInv, VerifiedSinceAsked
<1> QED BY <1>5, <1>6

Fits(p) ==
    /\ p.entered <= proofs
    /\ p.step \in {"identity", "method"} => p.status = "idle"
    /\ p.step # "biometric" => p.polls = {}
    /\ \A b \in p.polls : LastUsed = 0 \/ LastUsed = b \/ LastUsed > p.entered
    /\ p.step = "biometric" /\ p.status = "verified" => proofs > p.entered

(* A step of the page; and what it sees of a step of the phones.           *)
LEMMA PageStep ==
    ASSUME KeyInv, PageInv, NEW p \in WebPages, OnPage(p), Fits(p)
    PROVE  KeyInv' /\ PageInv'
<1>1. UNCHANGED <<credential, proofs, phone>> /\ page' = p
  BY DEF OnPage
<1>2. KeyInv'
  BY <1>1 DEF KeyInv, KeyTypes, OneActive, UsedByNow, PhonesKeep, ActiveKeys
<1>3. LastUsed' = LastUsed
  BY <1>1 DEF LastUsed, Current, ActiveKeys
<1>4. \A b \in p.polls : PollSound(b)'
  BY <1>1, <1>3 DEF PollSound, Fits
<1>5. VerifiedSinceAsked'
  BY <1>1 DEF VerifiedSinceAsked, Fits
<1> QED BY <1>1, <1>2, <1>4, <1>5 DEF PageInv, Fits

LEMMA PageSees ==
    ASSUME KeyInv, PageInv, KeyInv', Seen, page' = page
    PROVE  PageInv'
<1>1. page.entered \in Nat /\ proofs \in Nat /\ proofs' \in Nat
  BY DEF PageInv, WebPages, KeyInv, KeyTypes, Times
<1>2. LastUsed \in Nat
  BY LastUsedType DEF KeyInv, Times
<1>3. ASSUME NEW b \in page.polls PROVE PollSound(b)'
  <2>1. PollSound(b)
    BY DEF PageInv
  <2>2. LastUsed' = 0 \/ LastUsed' = LastUsed \/ LastUsed' > page.entered
    BY <1>1 DEF Seen, PageInv
  <2> QED BY <2>1, <2>2 DEF PollSound
<1>4. page.entered <= proofs'
  BY <1>1 DEF Seen, PageInv
<1>5. VerifiedSinceAsked'
  BY <1>1 DEF Seen, PageInv, VerifiedSinceAsked
<1> QED BY <1>3, <1>4, <1>5 DEF PageInv

LEMMA OfPageInv ==
    ASSUME KeyInv, PageInv, OfPage
    PROVE  KeyInv' /\ PageInv' /\ UNCHANGED <<code, mailHistory>>
<1>a. /\ page \in WebPages /\ 0 \in Times /\ proofs \in Times /\ LastUsed \in Times
      /\ LastUsed <= proofs
  BY VerificationAssumption, LastUsedType DEF PageInv, KeyInv, KeyTypes, Times
<1>b. /\ 0 \in Nat /\ proofs \in Nat /\ LastUsed \in Nat /\ page.entered \in Nat
      /\ page.entered <= proofs /\ page.polls \subseteq Times
  BY <1>a DEF Times, WebPages, PageInv
<1>c. UNCHANGED <<code, mailHistory>>
  BY DEF OfPage, OnPage, AfterIdentity, ChooseMethod, HandleStartVerification, HandleCancel,
         GoOn, Reopen, BackToMethods, Poll, GiveUp
<1>1. CASE AfterIdentity
  <2> DEFINE p == [page EXCEPT
                     !.step = IF page.purpose = "vote" THEN "biometric" ELSE "method",
                     !.entered = IF page.purpose = "vote" THEN proofs ELSE 0]
  <2>1. /\ p \in WebPages /\ p.entered \in {0, proofs} /\ p.status = page.status
        /\ p.polls = page.polls
    BY <1>a DEF WebPages
  <2>2. page.status = "idle" /\ page.polls = {} /\ OnPage(p)
    BY <1>1 DEF AfterIdentity, PageInv
  <2> HIDE DEF p
  <2>3. Fits(p)
    BY <1>b, <2>1, <2>2 DEF Fits
  <2> QED BY <1>c, <2>1, <2>2, <2>3, PageStep
<1>2. ASSUME NEW step \in {"biometric", "email"}, ChooseMethod(step)
      PROVE  KeyInv' /\ PageInv'
  <2> DEFINE p == [page EXCEPT !.step = step, !.entered = proofs]
  <2>1. /\ p \in WebPages /\ p.entered = proofs /\ p.status = page.status
        /\ p.polls = page.polls
    BY <1>a DEF WebPages
  <2>2. page.status = "idle" /\ page.polls = {} /\ OnPage(p)
    BY <1>2 DEF ChooseMethod, PageInv
  <2> HIDE DEF p
  <2>3. Fits(p)
    BY <1>b, <2>1, <2>2 DEF Fits
  <2> QED BY <1>c, <2>1, <2>2, <2>3, PageStep
<1>3. CASE HandleStartVerification
  <2> PICK stray \in {{}, page.polls} :
             OnPage([page EXCEPT !.status = "awaiting", !.polls = stray \cup {Baseline},
                                 !.begun = proofs])
    BY <1>3 DEF HandleStartVerification
  <2> DEFINE p == [page EXCEPT !.status = "awaiting", !.polls = stray \cup {Baseline},
                               !.begun = proofs]
  <2>1. /\ p \in WebPages /\ p.entered = page.entered /\ p.status = "awaiting"
        /\ p.polls = stray \cup {LastUsed} /\ p.step = "biometric"
    BY <1>3, <1>a DEF WebPages, Baseline, HandleStartVerification
  <2>2. OnPage(p)
    OBVIOUS
  <2> HIDE DEF p
  <2>3. \A b \in p.polls : LastUsed = 0 \/ LastUsed = b \/ LastUsed > p.entered
    BY <2>1 DEF PageInv, PollSound
  <2>4. Fits(p)
    BY <1>b, <2>1, <2>3 DEF Fits
  <2> QED BY <1>c, <2>1, <2>2, <2>4, PageStep
<1>4. ASSUME NEW b \in Times, Poll(b) \/ GiveUp(b)
      PROVE  KeyInv' /\ PageInv'
  <2>1. b \in page.polls /\ page.step = "biometric"
    BY <1>4 DEF Poll, GiveUp
  <2>2. PollSound(b)
    BY <2>1 DEF PageInv
  <2>3. CASE Poll(b)
    <3> DEFINE p == [page EXCEPT !.status = "verified", !.polls = @ \ {b}, !.begun = 0]
    <3>1. /\ p \in WebPages /\ p.entered = page.entered /\ p.status = "verified"
          /\ p.polls = page.polls \ {b} /\ p.step = "biometric"
      BY <1>a, <2>1 DEF WebPages
    <3>2. OnPage(p)
      BY <2>3 DEF Poll
    <3> HIDE DEF p
    <3>3. proofs > p.entered
      BY <1>a, <1>b, <2>2, <2>3, <3>1 DEF Poll, UsedSince, PollSound
    <3>4. \A c \in p.polls : LastUsed = 0 \/ LastUsed = c \/ LastUsed > p.entered
      BY <3>1 DEF PageInv, PollSound
    <3>5. Fits(p)
      BY <1>b, <3>1, <3>3, <3>4 DEF Fits
    <3> QED BY <3>1, <3>2, <3>5, PageStep
  <2>4. CASE GiveUp(b)
    <3> DEFINE p == [page EXCEPT !.status = "failed", !.polls = @ \ {b}, !.begun = 0]
    <3>1. /\ p \in WebPages /\ p.entered = page.entered /\ p.status = "failed"
          /\ p.polls = page.polls \ {b} /\ p.step = "biometric"
      BY <1>a, <2>1 DEF WebPages
    <3>2. OnPage(p)
      BY <2>4 DEF GiveUp
    <3> HIDE DEF p
    <3>4. \A c \in p.polls : LastUsed = 0 \/ LastUsed = c \/ LastUsed > p.entered
      BY <3>1 DEF PageInv, PollSound
    <3>5. Fits(p)
      BY <1>b, <3>1, <3>4 DEF Fits
    <3> QED BY <3>1, <3>2, <3>5, PageStep
  <2> QED BY <1>4, <2>3, <2>4
<1>5. CASE HandleCancel
  <2> PICK stray \in {{}, page.polls} :
             OnPage([page EXCEPT !.status = "idle", !.polls = stray, !.begun = 0])
    BY <1>5 DEF HandleCancel
  <2> DEFINE p == [page EXCEPT !.status = "idle", !.polls = stray, !.begun = 0]
  <2>1. /\ p \in WebPages /\ p.entered = page.entered /\ p.status = "idle"
        /\ p.polls = stray /\ p.step = "biometric"
    BY <1>5, <1>a DEF WebPages, HandleCancel
  <2>2. OnPage(p)
    OBVIOUS
  <2> HIDE DEF p
  <2>3. \A b \in p.polls : LastUsed = 0 \/ LastUsed = b \/ LastUsed > p.entered
    BY <2>1 DEF PageInv, PollSound
  <2>4. Fits(p)
    BY <1>b, <2>1, <2>3 DEF Fits
  <2> QED BY <1>c, <2>1, <2>2, <2>4, PageStep
<1>6. CASE GoOn
  <2> DEFINE p == [page EXCEPT !.step = "past", !.polls = {}, !.entered = 0]
  <2>1. p \in WebPages /\ p.entered = 0 /\ p.polls = {} /\ p.step = "past"
    BY <1>a DEF WebPages
  <2>2. OnPage(p)
    BY <1>6 DEF GoOn
  <2> HIDE DEF p
  <2>3. Fits(p)
    BY <1>b, <2>1, <2>2 DEF Fits
  <2> QED BY <1>c, <2>1, <2>2, <2>3, PageStep
<1>7. CASE Reopen
  <2> DEFINE p == [page EXCEPT !.step = "identity", !.status = "idle"]
  <2>1. /\ p \in WebPages /\ p.entered = page.entered /\ p.polls = page.polls
        /\ p.step = "identity" /\ p.status = "idle"
    BY <1>a DEF WebPages
  <2>2. OnPage(p) /\ page.polls = {}
    BY <1>7 DEF Reopen, PageInv
  <2> HIDE DEF p
  <2>3. Fits(p)
    BY <1>b, <2>1, <2>2 DEF Fits
  <2> QED BY <1>c, <2>1, <2>2, <2>3, PageStep
<1>8. CASE BackToMethods
  <2> DEFINE p == [page EXCEPT !.step = "method", !.status = "idle", !.entered = 0]
  <2>1. /\ p \in WebPages /\ p.entered = 0 /\ p.polls = page.polls
        /\ p.step = "method" /\ p.status = "idle"
    BY <1>a DEF WebPages
  <2>2. OnPage(p) /\ page.polls = {}
    BY <1>8 DEF BackToMethods, PageInv
  <2> HIDE DEF p
  <2>3. Fits(p)
    BY <1>b, <2>1, <2>2 DEF Fits
  <2> QED BY <1>c, <2>1, <2>2, <2>3, PageStep
<1> QED BY <1>c, <1>1, <1>2, <1>3, <1>4, <1>5, <1>6, <1>7, <1>8 DEF OfPage

(* An answer about codes changes no more of the page than its status, and  *)
(* only where it asks for a code.                                          *)
LEMMA MailStep ==
    ASSUME KeyInv, PageInv, UNCHANGED <<credential, proofs, phone>>,
           NEW status \in {"typing", "verified"},
           \/ page' = page
           \/ page.step = "email" /\ page' = [page EXCEPT !.status = status]
    PROVE  KeyInv' /\ PageInv'
<1>1. KeyInv'
  BY DEF KeyInv, KeyTypes, OneActive, UsedByNow, PhonesKeep, ActiveKeys
<1>2. LastUsed' = LastUsed
  BY DEF LastUsed, Current, ActiveKeys
<1>3. page \in WebPages
  BY DEF PageInv
<1>4. CASE page' = page
  BY <1>1, <1>2, <1>4 DEF PageInv, PollSound, VerifiedSinceAsked
<1>5. CASE page.step = "email" /\ page' = [page EXCEPT !.status = status]
  <2>1. /\ page' \in WebPages /\ page'.step = "email" /\ page'.entered = page.entered
        /\ page'.polls = page.polls
    BY <1>3, <1>5 DEF WebPages
  <2> QED BY <1>1, <1>5, <2>1 DEF PageInv, VerifiedSinceAsked
<1> QED BY <1>1, <1>4, <1>5

-----------------------------------------------------------------------------
(* Codes.  One that was accepted is dead, for good.  As long as no two     *)
(* were sent at the same time, the one that is being sent is the last and  *)
(* will replace all that are live; and nothing after a live one has ever   *)
(* been live.  A check that was not overtaken has a code that was never    *)
(* accepted, and nothing after that code has been live either.             *)
CodeTypes ==
    /\ code \in Seq(Codes) /\ Len(code) <= MaxCodes
    /\ \A c \in DOMAIN code : code[c].replaces \subseteq 1 .. c - 1
    /\ accepted \in [1 .. MaxCodes -> Nat]
    /\ sideBySide \in BOOLEAN
    /\ checking \in [Checks -> CheckStates]

AcceptedDead ==
    \A c \in 1 .. MaxCodes : accepted[c] > 0 => c \in DOMAIN code /\ code[c].state = "dead"

SendingLast == \A c \in Sending : c = Len(code) /\ Live \subseteq code[c].replaces

LiveIsLatest ==
    \A c \in Live, d \in DOMAIN code : d > c => code[d].state \in {"sending", "lost"}

StillFirst(c) ==
    /\ accepted[c] = 0
    /\ ~sideBySide => \A d \in DOMAIN code : d > c => code[d].state \in {"sending", "lost"}

ChecksSound ==
    \A q \in Checks : checking[q].code # 0 =>
        /\ checking[q].code \in DOMAIN code /\ code[checking[q].code].state \in {"live", "dead"}
        /\ ~checking[q].overtaken => StillFirst(checking[q].code)

CodeInv ==
    /\ CodeTypes /\ AcceptedDead /\ (~sideBySide => SendingLast /\ LiveIsLatest)
    /\ ChecksSound

LEMMA CodeDomain ==
    ASSUME CodeTypes
    PROVE  /\ DOMAIN code = 1 .. Len(code) /\ Len(code) \in Nat
           /\ \A c \in DOMAIN code : code[c] \in Codes /\ c \in 1 .. MaxCodes
BY VerificationAssumption, LenProperties, ElementOfSeq DEF CodeTypes

LEMMA NoCheckType == NoCheck \in CheckStates /\ NoCheck.code = 0
BY VerificationAssumption DEF NoCheck, CheckStates

(* Checks are overtaken for good, and keep the code they found.            *)
LEMMA OvertakeType ==
    ASSUME CodeTypes, NEW codes
    PROVE  /\ Overtake(codes) \in [Checks -> CheckStates]
           /\ \A q \in Checks :
                /\ Overtake(codes)[q].code = checking[q].code
                /\ ~Overtake(codes)[q].overtaken =>
                     ~checking[q].overtaken /\ checking[q].code \notin codes
<1>1. \A q \in Checks : checking[q] \in CheckStates
  BY DEF CodeTypes
<1>2. ASSUME NEW e \in CheckStates
      PROVE  LET o == [e EXCEPT !.overtaken = TRUE]
             IN  o \in CheckStates /\ o.code = e.code /\ o.overtaken
  BY DEF CheckStates
<1>3. ASSUME NEW q \in Checks
      PROVE  /\ Overtake(codes)[q] \in CheckStates
             /\ Overtake(codes)[q].code = checking[q].code
             /\ ~Overtake(codes)[q].overtaken =>
                  ~checking[q].overtaken /\ checking[q].code \notin codes
  <2>1. CASE checking[q].code \in codes
    BY <1>1, <1>2, <2>1 DEF Overtake
  <2>2. CASE checking[q].code \notin codes
    BY <1>1, <2>2 DEF Overtake
  <2> QED BY <2>1, <2>2
<1>4. Overtake(codes) = [q \in Checks |-> Overtake(codes)[q]]
  BY DEF Overtake
<1> QED BY <1>3, <1>4

LEMMA InitCodes == Init => CodeInv
<1> SUFFICES ASSUME Init PROVE CodeInv
  OBVIOUS
<1>1. code = <<>> /\ DOMAIN code = {} /\ Len(code) = 0 /\ code \in Seq(Codes)
  BY DEF Init
<1>2. CodeTypes
  <2>1. accepted \in [1 .. MaxCodes -> Nat] /\ sideBySide \in BOOLEAN
    BY DEF Init
  <2>2. checking \in [Checks -> CheckStates]
    <3>1. NoCheck \in CheckStates
      BY VerificationAssumption, NoCheckType
    <3> QED BY <3>1 DEF Init
  <2> QED BY <1>1, <2>1, <2>2, VerificationAssumption DEF CodeTypes
<1>3. AcceptedDead
  BY DEF Init, AcceptedDead
<1>4. ChecksSound
  BY NoCheckType DEF Init, ChecksSound
<1> QED BY <1>1, <1>2, <1>3, <1>4 DEF CodeInv, SendingLast, LiveIsLatest, Sending, Live

(* The states of codes change, and nothing else about them.                *)
LEMMA Restated ==
    ASSUME CodeTypes, NEW f \in [DOMAIN code -> Codes], code' = f,
           \A d \in DOMAIN code : f[d].replaces = code[d].replaces
    PROVE  /\ code' \in Seq(Codes) /\ Len(code') = Len(code) /\ DOMAIN code' = DOMAIN code
           /\ Len(code') <= MaxCodes
           /\ \A c \in DOMAIN code' : code'[c].replaces \subseteq 1 .. c - 1
<1>1. DOMAIN code = 1 .. Len(code) /\ Len(code) \in Nat
  BY CodeDomain
<1>2. f \in Seq(Codes)
  BY <1>1, SeqDef
<1>3. Len(f) = Len(code) /\ DOMAIN f = DOMAIN code
  BY <1>1, <1>2, LenProperties
<1> QED BY <1>1, <1>2, <1>3 DEF CodeTypes

LEMMA StateType ==
    ASSUME NEW c \in Codes, NEW s, s = "live" \/ s = "dead" \/ s = "lost"
    PROVE  /\ [c EXCEPT !.state = s] \in Codes /\ [c EXCEPT !.state = s].state = s
           /\ [c EXCEPT !.state = s].replaces = c.replaces
BY DEF Codes

LEMMA SendCodeInv ==
    ASSUME CodeInv, SendCode PROVE CodeInv'
<1> DEFINE n == Len(code)
<1>a. /\ DOMAIN code = 1 .. n /\ n \in Nat /\ CodeTypes /\ n < MaxCodes
      /\ \A c \in DOMAIN code : code[c] \in Codes
  BY CodeDomain DEF CodeInv, SendCode
<1> PICK mailed \in BOOLEAN :
      code' = Append(code, [state |-> "sending", mailed |-> mailed, replaces |-> Live])
  BY DEF SendCode, OnCodes, Invalidates
<1> DEFINE new == [state |-> "sending", mailed |-> mailed, replaces |-> Live]
<1>1. Live \subseteq 1 .. n /\ new \in Codes
  BY <1>a DEF Live, Codes
<1>2. new.state = "sending" /\ new.replaces = Live /\ code' = Append(code, new)
  OBVIOUS
<1>3. code \in Seq(Codes)
  BY <1>a DEF CodeTypes
<1> HIDE DEF new
<1>4. /\ code' \in Seq(Codes) /\ Len(code') = n + 1
      /\ \A c \in 1 .. n : code'[c] = code[c]
      /\ code'[n + 1] = new
  BY <1>1, <1>2, <1>3, AppendProperties
<1>5. DOMAIN code' = 1 .. n + 1
  BY <1>4, LenProperties
<1>6. /\ accepted' = accepted /\ checking' = checking
      /\ sideBySide' = (sideBySide \/ Sending # {})
  BY DEF SendCode
<1>7. \A c \in DOMAIN code' : c \in 1 .. n \/ c = n + 1
  BY <1>a, <1>5
<1>8. CodeTypes'
  <2>1. \A c \in DOMAIN code' : code'[c].replaces \subseteq 1 .. c - 1
    <3>1. \A c \in 1 .. n : code'[c].replaces \subseteq 1 .. c - 1
      BY <1>a, <1>4 DEF CodeTypes
    <3>2. code'[n + 1].replaces \subseteq 1 .. (n + 1) - 1
      <4>1. (n + 1) - 1 = n
        BY <1>a
      <4> QED BY <1>1, <1>2, <1>4, <4>1
    <3> QED BY <1>7, <3>1, <3>2
  <2>2. sideBySide' \in BOOLEAN
    BY <1>6
  <2>3. Len(code') <= MaxCodes
    BY <1>a, <1>4, VerificationAssumption
  <2> QED BY <1>a, <1>4, <1>6, <2>1, <2>2, <2>3 DEF CodeTypes
<1>9. AcceptedDead'
  BY <1>a, <1>4, <1>5, <1>6 DEF CodeInv, AcceptedDead
<1>10. Live' = Live
  BY <1>a, <1>2, <1>4, <1>5, <1>7 DEF Live
<1>11. ASSUME ~sideBySide' PROVE SendingLast' /\ LiveIsLatest'
  <2>1. ~sideBySide /\ Sending = {}
    BY <1>6, <1>11
  <2>2. Sending' = {n + 1}
    BY <1>a, <1>2, <1>4, <1>5, <1>7, <2>1 DEF Sending
  <2>3. SendingLast'
    BY <1>2, <1>4, <1>10, <2>2 DEF SendingLast
  <2>4. LiveIsLatest
    BY <2>1 DEF CodeInv
  <2>5. LiveIsLatest'
    BY <1>a, <1>1, <1>2, <1>4, <1>7, <1>10, <2>4 DEF LiveIsLatest
  <2> QED BY <2>3, <2>5
<1>12. ChecksSound'
  <2> SUFFICES ASSUME NEW q \in Checks, NEW e, checking[q].code = e, e # 0
               PROVE  /\ e \in DOMAIN code' /\ code'[e].state \in {"live", "dead"}
                      /\ ~checking[q].overtaken => StillFirst(e)'
    BY <1>6 DEF ChecksSound, StillFirst
  <2>1. /\ e \in 1 .. n /\ code[e].state \in {"live", "dead"}
        /\ ~checking[q].overtaken => StillFirst(e)
    BY <1>a DEF CodeInv, ChecksSound
  <2>2. e \in DOMAIN code' /\ code'[e].state \in {"live", "dead"}
    BY <1>a, <1>4, <1>5, <2>1
  <2>3. ASSUME StillFirst(e) PROVE StillFirst(e)'
    <3>1. ~sideBySide' => ~sideBySide
      BY <1>6
    <3>2. \A d \in DOMAIN code' : code'[d] = IF d = n + 1 THEN new ELSE code[d]
      BY <1>4, <1>7, <1>a
    <3>3. ASSUME ~sideBySide, NEW d \in DOMAIN code', d > e
          PROVE  code'[d].state \in {"sending", "lost"}
      BY <1>2, <1>7, <1>a, <2>3, <3>2, <3>3 DEF StillFirst
    <3>4. accepted'[e] = 0
      BY <1>6, <2>3 DEF StillFirst
    <3> QED BY <3>1, <3>3, <3>4 DEF StillFirst
  <2> QED BY <2>1, <2>2, <2>3
<1> QED BY <1>8, <1>9, <1>11, <1>12 DEF CodeInv

LEMMA CommitSendInv ==
    ASSUME CodeInv, NEW c \in 1 .. MaxCodes, CommitSend(c) PROVE CodeInv'
<1>a. /\ DOMAIN code = 1 .. Len(code) /\ Len(code) \in Nat /\ CodeTypes
      /\ \A d \in DOMAIN code : code[d] \in Codes
      /\ c \in DOMAIN code /\ code[c].state = "sending" /\ c \in Sending
  BY CodeDomain DEF CodeInv, CommitSend, Sending
<1> DEFINE f == [d \in DOMAIN code |->
                  IF d = c THEN [code[c] EXCEPT !.state = "live"]
                  ELSE IF d \in code[c].replaces THEN [code[d] EXCEPT !.state = "dead"]
                  ELSE code[d]]
<1>1. code' = f /\ UNCHANGED <<accepted, sideBySide>> /\ checking' = Overtake(1 .. c - 1)
  BY DEF CommitSend, OnCodes
<1>2. f \in [DOMAIN code -> Codes]
  BY <1>a, StateType
<1>3. /\ f[c].state = "live"
      /\ \A d \in DOMAIN code : /\ f[d].replaces = code[d].replaces
                                /\ d # c /\ d \in code[c].replaces => f[d].state = "dead"
                                /\ d # c /\ d \notin code[c].replaces => f[d] = code[d]
  <2>1. f[c] = [code[c] EXCEPT !.state = "live"]
    BY <1>a
  <2>2. \A d \in DOMAIN code : \/ f[d] = code[d]
                               \/ f[d] = [code[d] EXCEPT !.state = "live"]
                               \/ f[d] = [code[d] EXCEPT !.state = "dead"]
    OBVIOUS
  <2>3. \A d \in DOMAIN code :
          /\ d # c /\ d \in code[c].replaces => f[d] = [code[d] EXCEPT !.state = "dead"]
          /\ d # c /\ d \notin code[c].replaces => f[d] = code[d]
    OBVIOUS
  <2> HIDE DEF f
  <2>4. f[c].state = "live"
    BY <1>a, <2>1, StateType
  <2>5. \A d \in DOMAIN code : f[d].replaces = code[d].replaces
    <3> SUFFICES ASSUME NEW d \in DOMAIN code PROVE f[d].replaces = code[d].replaces
      OBVIOUS
    <3>1. CASE f[d] = code[d]
      BY <3>1
    <3>2. CASE f[d] = [code[d] EXCEPT !.state = "live"]
      BY <1>a, <3>2, StateType
    <3>3. CASE f[d] = [code[d] EXCEPT !.state = "dead"]
      BY <1>a, <3>3, StateType
    <3> QED BY <2>2, <3>1, <3>2, <3>3
  <2>6. \A d \in DOMAIN code : d # c /\ d \in code[c].replaces => f[d].state = "dead"
    <3> SUFFICES ASSUME NEW d \in DOMAIN code, d # c, d \in code[c].replaces
                 PROVE  f[d].state = "dead"
      OBVIOUS
    <3>1. f[d] = [code[d] EXCEPT !.state = "dead"]
      BY <2>3
    <3> QED BY <1>a, <3>1, StateType
  <2> QED BY <2>3, <2>4, <2>5, <2>6
<1> HIDE DEF f
<1>4. /\ code' \in Seq(Codes) /\ Len(code') = Len(code) /\ DOMAIN code' = DOMAIN code
      /\ Len(code') <= MaxCodes
      /\ \A d \in DOMAIN code' : code'[d].replaces \subseteq 1 .. d - 1
  BY <1>a, <1>1, <1>2, <1>3, Restated
<1>8. /\ checking' \in [Checks -> CheckStates]
      /\ \A q \in Checks : /\ checking'[q].code = checking[q].code
                           /\ ~checking'[q].overtaken =>
                                ~checking[q].overtaken /\ checking[q].code \notin 1 .. c - 1
  BY <1>a, <1>1, OvertakeType
<1>5. CodeTypes'
  BY <1>a, <1>1, <1>4, <1>8 DEF CodeTypes
<1>6. AcceptedDead'
  BY <1>a, <1>1, <1>3, <1>4 DEF CodeInv, AcceptedDead
<1>7. ASSUME ~sideBySide' PROVE SendingLast' /\ LiveIsLatest'
  <2>1. SendingLast /\ LiveIsLatest
    BY <1>1, <1>7 DEF CodeInv
  <2>2. c = Len(code) /\ Live \subseteq code[c].replaces
    BY <1>a, <2>1 DEF SendingLast
  <2>3. Live' = {c}
    BY <1>a, <1>1, <1>3, <1>4, <2>2 DEF Live
  <2>4. Sending' = {}
    BY <1>a, <1>1, <1>3, <1>4, <2>1, <2>2 DEF Sending, SendingLast
  <2> QED BY <1>a, <1>4, <2>2, <2>3, <2>4 DEF SendingLast, LiveIsLatest
<1>9. ChecksSound'
  <2> SUFFICES ASSUME NEW q \in Checks, NEW e, checking[q].code = e, e # 0
               PROVE  /\ e \in DOMAIN code' /\ code'[e].state \in {"live", "dead"}
                      /\ ~checking'[q].overtaken => StillFirst(e)'
    BY <1>8 DEF ChecksSound, StillFirst
  <2>1. /\ e \in DOMAIN code /\ code[e].state \in {"live", "dead"} /\ e # c /\ e \in Nat \ {0}
        /\ ~checking[q].overtaken => StillFirst(e)
    BY <1>a DEF CodeInv, ChecksSound
  <2>2. e \in DOMAIN code' /\ code'[e].state \in {"live", "dead"}
    BY <1>1, <1>3, <1>4, <2>1
  <2>3. ASSUME ~checking'[q].overtaken PROVE StillFirst(e)'
    <3>1. StillFirst(e) /\ e > c
      BY <1>a, <1>8, <2>1, <2>3
    <3>2. code[c].replaces \subseteq 1 .. c - 1
      BY <1>a DEF CodeTypes
    <3>3. \A d \in DOMAIN code : d > e => code'[d] = code[d]
      BY <1>a, <1>1, <1>3, <2>1, <3>1, <3>2
    <3> QED BY <1>1, <1>4, <3>1, <3>3 DEF StillFirst
  <2> QED BY <2>2, <2>3
<1> QED BY <1>5, <1>6, <1>7, <1>9 DEF CodeInv

(* A code that is no longer good, or never will be.                        *)
LEMMA CodeEnds ==
    ASSUME CodeInv, NEW c \in 1 .. MaxCodes, NEW s \in {"dead", "lost"},
           c \in DOMAIN code,
           \/ code[c].state \in {"live", "dead"} /\ s = "dead"
           \/ code[c].state = "sending" /\ s = "lost",
           code' = [code EXCEPT ![c].state = s], sideBySide' = sideBySide,
           \/ accepted' = accepted /\ checking' = checking
           \/ /\ s = "dead" /\ accepted' = [accepted EXCEPT ![c] = @ + 1]
              /\ \E q \in Checks : checking' = [Overtake({c}) EXCEPT ![q] = NoCheck]
    PROVE  CodeInv'
<1>a. /\ DOMAIN code = 1 .. Len(code) /\ Len(code) \in Nat /\ CodeTypes
      /\ \A d \in DOMAIN code : code[d] \in Codes
  BY CodeDomain DEF CodeInv
<1> DEFINE e == [code[c] EXCEPT !.state = s]
           f == [code EXCEPT ![c] = e]
<1>1. code' = f
  OBVIOUS
<1>2. e \in Codes /\ e.state = s /\ e.replaces = code[c].replaces
  BY <1>a, StateType
<1>3. code \in [DOMAIN code -> Codes]
  BY <1>a, LenProperties DEF CodeTypes
<1> HIDE DEF e
<1>4. f \in [DOMAIN code -> Codes] /\ f[c] = e /\ \A d \in DOMAIN code : d # c => f[d] = code[d]
  BY <1>a, <1>2, <1>3
<1> HIDE DEF f
<1>5. /\ code' \in Seq(Codes) /\ Len(code') = Len(code) /\ DOMAIN code' = DOMAIN code
      /\ Len(code') <= MaxCodes
      /\ \A d \in DOMAIN code' : code'[d].replaces \subseteq 1 .. d - 1
  BY <1>a, <1>1, <1>2, <1>4, Restated
<1>6. accepted' \in [1 .. MaxCodes -> Nat]
      /\ \A d \in 1 .. MaxCodes : accepted'[d] > 0 => accepted[d] > 0 \/ (d = c /\ s = "dead")
  <2>1. accepted \in [1 .. MaxCodes -> Nat]
    BY <1>a DEF CodeTypes
  <2>2. CASE accepted' = accepted
    BY <2>1, <2>2
  <2>3. CASE s = "dead" /\ accepted' = [accepted EXCEPT ![c] = @ + 1]
    BY <2>1, <2>3
  <2> QED BY <2>2, <2>3
<1>11. /\ checking' \in [Checks -> CheckStates]
       /\ \A q \in Checks : checking'[q].code # 0 =>
            /\ checking'[q].code = checking[q].code
            /\ ~checking'[q].overtaken =>
                 /\ ~checking[q].overtaken
                 /\ accepted' = accepted \/ (accepted' = [accepted EXCEPT ![c] = @ + 1]
                                              /\ checking[q].code # c)
  <2>1. CASE accepted' = accepted /\ checking' = checking
    BY <1>a, <2>1 DEF CodeTypes
  <2>2. CASE /\ s = "dead" /\ accepted' = [accepted EXCEPT ![c] = @ + 1]
             /\ \E q \in Checks : checking' = [Overtake({c}) EXCEPT ![q] = NoCheck]
    <3> PICK r \in Checks : checking' = [Overtake({c}) EXCEPT ![r] = NoCheck]
      BY <2>2
    <3> DEFINE g == Overtake({c})
    <3>1. /\ g \in [Checks -> CheckStates]
          /\ \A q \in Checks : /\ g[q].code = checking[q].code
                               /\ ~g[q].overtaken => ~checking[q].overtaken /\ checking[q].code # c
      BY <1>a, OvertakeType
    <3>2. checking' = [g EXCEPT ![r] = NoCheck]
      OBVIOUS
    <3> HIDE DEF g
    <3>3. checking' \in [Checks -> CheckStates] /\ checking'[r].code = 0
          /\ \A q \in Checks : q # r => checking'[q] = g[q]
      BY <3>1, <3>2, NoCheckType
    <3> QED BY <2>2, <3>1, <3>3
  <2> QED BY <2>1, <2>2
<1>7. CodeTypes'
  BY <1>a, <1>5, <1>6, <1>11 DEF CodeTypes
<1>8. AcceptedDead'
  BY <1>a, <1>1, <1>2, <1>4, <1>5, <1>6 DEF CodeInv, AcceptedDead
<1>9. Live' \subseteq Live /\ Sending' \subseteq Sending /\ c \notin Live'
  BY <1>1, <1>2, <1>4, <1>5 DEF Live, Sending
<1>10. ASSUME ~sideBySide' PROVE SendingLast' /\ LiveIsLatest'
  <2>1. SendingLast /\ LiveIsLatest
    BY <1>10 DEF CodeInv
  <2>2. SendingLast'
    BY <1>1, <1>2, <1>4, <1>5, <1>9, <2>1 DEF SendingLast, Sending
  <2>3. ASSUME NEW l \in Live', NEW d \in DOMAIN code', d > l
        PROVE  code'[d].state \in {"sending", "lost"}
    <3>1. code[d].state \in {"sending", "lost"}
      BY <1>5, <1>9, <2>1, <2>3 DEF LiveIsLatest
    <3>2. d = c => s = "lost"
      BY <3>1 DEF Live
    <3> QED BY <1>1, <1>2, <1>4, <1>5, <2>3, <3>1, <3>2
  <2> QED BY <2>2, <2>3 DEF LiveIsLatest
<1>12. ChecksSound'
  <2> SUFFICES ASSUME NEW q \in Checks, NEW n, checking'[q].code = n, n # 0
               PROVE  /\ n \in DOMAIN code' /\ code'[n].state \in {"live", "dead"}
                      /\ ~checking'[q].overtaken => StillFirst(n)'
    BY DEF ChecksSound, StillFirst
  <2>1. /\ checking[q].code = n /\ n \in DOMAIN code /\ code[n].state \in {"live", "dead"}
        /\ ~checking[q].overtaken => StillFirst(n)
    BY <1>11 DEF CodeInv, ChecksSound
  <2>2. n \in DOMAIN code' /\ code'[n].state \in {"live", "dead"}
    BY <1>1, <1>2, <1>4, <1>5, <2>1
  <2>3. ASSUME ~checking'[q].overtaken PROVE StillFirst(n)'
    <3>1. StillFirst(n) /\ n \in 1 .. MaxCodes
      BY <1>11, <2>1, <2>3, CodeDomain DEF CodeInv
    <3>2. accepted'[n] = accepted[n]
      <4>1. /\ ~checking[q].overtaken
            /\ accepted' = accepted \/ (accepted' = [accepted EXCEPT ![c] = @ + 1] /\ n # c)
        BY <1>11, <2>1, <2>3
      <4>2. accepted \in [1 .. MaxCodes -> Nat]
        BY <1>a DEF CodeTypes
      <4> QED BY <3>1, <4>1, <4>2
    <3>3. ASSUME ~sideBySide, NEW d \in DOMAIN code, d > n
          PROVE  code'[d].state \in {"sending", "lost"}
      <4>1. code[d].state \in {"sending", "lost"}
        BY <3>1, <3>3 DEF StillFirst
      <4>2. d = c => s = "lost"
        BY <4>1
      <4> QED BY <1>1, <1>2, <1>4, <4>1, <4>2
    <3> QED BY <1>5, <3>1, <3>2, <3>3 DEF StillFirst
  <2> QED BY <2>1, <2>2, <2>3
<1> QED BY <1>7, <1>8, <1>10, <1>12 DEF CodeInv

(* A check begins, or is given up.                                         *)
LEMMA CheckStep ==
    ASSUME CodeInv, NEW q \in Checks, LookUpCode(q) \/ FailCheck(q) PROVE CodeInv'
<1>a. CodeTypes /\ UNCHANGED <<code, accepted, sideBySide>>
  BY DEF CodeInv, LookUpCode, FailCheck
<1>1. PICK e \in CheckStates :
        /\ checking' = [checking EXCEPT ![q] = e]
        /\ e.code # 0 => /\ e.code \in DOMAIN code /\ code[e.code].state \in {"live", "dead"}
                         /\ StillFirst(e.code)
  <2>1. CASE FailCheck(q)
    BY <2>1, NoCheckType DEF FailCheck
  <2>2. CASE LookUpCode(q)
    <3> PICK c \in Live : checking' = [checking EXCEPT ![q] = [code |-> c, overtaken |-> FALSE]]
      BY <2>2 DEF LookUpCode
    <3>1. c \in DOMAIN code /\ code[c].state = "live" /\ c \in 1 .. MaxCodes
      BY <1>a, CodeDomain DEF Live
    <3>2. accepted[c] = 0
      BY <1>a, <3>1 DEF CodeInv, CodeTypes, AcceptedDead
    <3>3. StillFirst(c)
      BY <3>2 DEF CodeInv, LiveIsLatest, StillFirst
    <3>4. [code |-> c, overtaken |-> FALSE] \in CheckStates
      BY <3>1, VerificationAssumption DEF CheckStates
    <3> QED BY <3>1, <3>3, <3>4
  <2> QED BY <2>1, <2>2
<1>2. /\ checking' \in [Checks -> CheckStates] /\ checking'[q] = e
      /\ \A r \in Checks : r # q => checking'[r] = checking[r]
  BY <1>a, <1>1 DEF CodeTypes
<1>3. CodeTypes'
  BY <1>a, <1>2 DEF CodeTypes
<1>4. AcceptedDead' /\ (~sideBySide' => SendingLast' /\ LiveIsLatest')
  BY <1>a DEF CodeInv, AcceptedDead, SendingLast, LiveIsLatest, Sending, Live
<1>5. ChecksSound'
  <2>1. \A c : StillFirst(c)' <=> StillFirst(c)
    BY <1>a DEF StillFirst
  <2> QED BY <1>a, <1>1, <1>2, <2>1 DEF CodeInv, ChecksSound
<1> QED BY <1>3, <1>4, <1>5 DEF CodeInv

LEMMA OfCodesInv ==
    ASSUME KeyInv, PageInv, CodeInv, OfCodes
    PROVE  KeyInv' /\ PageInv' /\ CodeInv'
<1>1. CASE SendCode
  <2>1. KeyInv' /\ PageInv'
    BY <1>1, MailStep DEF SendCode, OnCodes
  <2> QED BY <1>1, <2>1, SendCodeInv
<1>2. ASSUME NEW c \in 1 .. MaxCodes, CommitSend(c)
      PROVE  KeyInv' /\ PageInv' /\ CodeInv'
  <2>1. KeyInv' /\ PageInv'
    <3>1. \/ page' = page
          \/ page.step = "email" /\ page' = [page EXCEPT !.status = "typing"]
      <4>1. page' = page
            \/ page' \in IF code[c].mailed /\ page.step = "email" /\ page.status # "verified"
                         THEN {[page EXCEPT !.status = "typing"]} ELSE {}
        BY <1>2 DEF CommitSend
      <4> QED BY <4>1
    <3> QED BY <1>2, <3>1, MailStep DEF CommitSend, OnCodes
  <2> QED BY <1>2, <2>1, CommitSendInv
<1>3. ASSUME NEW c \in 1 .. MaxCodes, LoseCode(c)
      PROVE  KeyInv' /\ PageInv' /\ CodeInv'
  <2>1. KeyInv' /\ PageInv'
    BY <1>3, MailStep DEF LoseCode, OnCodes
  <2>2. \/ c \in Live /\ code' = [code EXCEPT ![c].state = "dead"]
        \/ c \in Sending /\ code' = [code EXCEPT ![c].state = "lost"]
    <3>1. code' = [code EXCEPT ![c].state = IF code[c].state = "live" THEN "dead" ELSE "lost"]
      BY <1>3 DEF LoseCode, OnCodes
    <3>2. CASE c \in Live
      BY <3>1, <3>2 DEF Live
    <3>3. CASE c \in Sending
      BY <3>1, <3>3 DEF Sending
    <3> QED BY <1>3, <3>2, <3>3 DEF LoseCode
  <2>4. accepted' = accepted /\ sideBySide' = sideBySide /\ checking' = checking
    BY <1>3 DEF LoseCode, mailHistory
  <2>3. CodeInv'
    <3>1. CASE c \in Live /\ code' = [code EXCEPT ![c].state = "dead"]
      BY <2>4, <3>1, CodeEnds DEF Live
    <3>2. CASE c \in Sending /\ code' = [code EXCEPT ![c].state = "lost"]
      BY <2>4, <3>2, CodeEnds DEF Sending
    <3> QED BY <2>2, <3>1, <3>2
  <2> QED BY <2>1, <2>3
<1>4. ASSUME NEW q \in Checks, HandleVerifyCode(q)
      PROVE  KeyInv' /\ PageInv' /\ CodeInv'
  <2>1. KeyInv' /\ PageInv'
    <3>1. \/ page' = page
          \/ page.step = "email" /\ page' = [page EXCEPT !.status = "verified"]
      <4>1. page' = page
            \/ page' \in IF page.step = "email" /\ page.status = "typing"
                         THEN {[page EXCEPT !.status = "verified"]} ELSE {}
        BY <1>4 DEF HandleVerifyCode
      <4> QED BY <4>1
    <3> QED BY <1>4, <3>1, MailStep DEF HandleVerifyCode, OnCodes
  <2> DEFINE c == checking[q].code
  <2>2. /\ c # 0 /\ code' = [code EXCEPT ![c].state = "dead"]
        /\ accepted' = [accepted EXCEPT ![c] = @ + 1] /\ sideBySide' = sideBySide
        /\ checking' = [Overtake({c}) EXCEPT ![q] = NoCheck]
    BY <1>4 DEF HandleVerifyCode, OnCodes, MarkUsed
  <2>3. c \in DOMAIN code /\ code[c].state \in {"live", "dead"} /\ c \in 1 .. MaxCodes
    BY <2>2, CodeDomain DEF CodeInv, ChecksSound
  <2>4. CodeInv'
    <3> HIDE DEF c
    <3> QED BY <2>2, <2>3, CodeEnds
  <2> QED BY <2>1, <2>4
<1>5. ASSUME NEW q \in Checks, LookUpCode(q) \/ FailCheck(q)
      PROVE  KeyInv' /\ PageInv' /\ CodeInv'
  <2>1. KeyInv' /\ PageInv'
    BY <1>5, MailStep DEF LookUpCode, FailCheck
  <2>2. CodeInv'
    BY <1>5, CheckStep
  <2> QED BY <2>1, <2>2
<1> QED BY <1>1, <1>2, <1>3, <1>4, <1>5 DEF OfCodes

-----------------------------------------------------------------------------
VInv == KeyInv /\ PageInv /\ CodeInv

LEMMA StepInv == VInv /\ [Next]_verificationVars => VInv'
<1> SUFFICES ASSUME VInv, [Next]_verificationVars PROVE VInv'
  OBVIOUS
<1>1. ASSUME UNCHANGED <<code, mailHistory>> PROVE CodeInv'
  BY <1>1 DEF VInv, CodeInv, CodeTypes, AcceptedDead, SendingLast, LiveIsLatest, Sending, Live,
              ChecksSound, StillFirst, mailHistory
<1>2. ASSUME NEW h \in Phones, OfPhone(h) PROVE VInv'
  <2>1. UNCHANGED <<code, page, mailHistory>>
    BY <1>2 DEF OfPhone, OnPhone, Enrol, ScanQr, HandleStartVerify, HandleCaptureComplete,
                RefuseVerify, CommitVerify, FailVerify
  <2>2. KeyInv' /\ Seen
    BY <1>2, OfPhoneInv DEF VInv
  <2> QED BY <1>1, <2>1, <2>2, PageSees DEF VInv
<1>3. ASSUME NEW k \in Keys, Revoke(k) PROVE VInv'
  <2>1. UNCHANGED <<code, page, mailHistory>>
    BY <1>3 DEF Revoke
  <2>2. KeyInv' /\ Seen
    BY <1>3, RevokeInv DEF VInv
  <2> QED BY <1>1, <2>1, <2>2, PageSees DEF VInv
<1>4. CASE OfPage
  BY <1>1, <1>4, OfPageInv DEF VInv
<1>5. CASE OfCodes
  BY <1>5, OfCodesInv DEF VInv
<1>6. CASE UNCHANGED verificationVars
  <2>1. KeyInv' /\ PageInv'
    BY <1>6, MailStep DEF VInv, verificationVars
  <2> QED BY <1>1, <1>6, <2>1 DEF VInv, verificationVars, mailHistory
<1> QED BY <1>2, <1>3, <1>4, <1>5, <1>6 DEF Next

(* Every behaviour of credentials, codes and pages is well typed.          *)
THEOREM TypeCorrect == Spec => []TypeOK
<1>1. VInv => TypeOK
  <2> SUFFICES ASSUME VInv PROVE TypeOK
    OBVIOUS
  <2>1. \A k \in DOMAIN credential : credential[k] \in Credentials
    BY KeyDomain DEF VInv, KeyInv
  <2>2. \A c \in DOMAIN code : code[c] \in Codes
    BY CodeDomain DEF VInv, CodeInv
  <2> QED BY <2>1, <2>2
       DEF VInv, KeyInv, KeyTypes, PageInv, CodeInv, CodeTypes, TypeOK, Credentials, Codes,
           PhonePages, WebPages, CheckStates
<1> QED BY <1>1, PageInit, InitCodes, StepInv, PTL DEF Spec, VInv

(* A page opened by a phone was opened by a proof made since it began to   *)
(* ask.                                                                    *)
THEOREM PageHadProof == Spec => []VerifiedSinceAsked
<1>1. VInv => VerifiedSinceAsked
  BY DEF VInv, PageInv
<1> QED BY <1>1, PageInit, InitCodes, StepInv, PTL DEF Spec, VInv

(* No phone with the active key is refused for want of it.                 *)
THEOREM PhonesAccepted == Spec => []NoPhoneLockedOut
<1>1. VInv => NoPhoneLockedOut
  <2> SUFFICES ASSUME VInv, NEW h \in Phones, phone[h].key \in ActiveKeys
               PROVE  Lookup(h) = phone[h].key
    BY DEF NoPhoneLockedOut
  <2> DEFINE k == phone[h].key
             own == {j \in ActiveKeys : credential[j].device = h}
  <2>1. \A j \in ActiveKeys : j = k
    BY DEF VInv, KeyInv, OneActive
  <2>2. k \in Nat
    BY KeyDomain DEF VInv, KeyInv, ActiveKeys, Keys
  <2>3. Current = k
    BY CurrentIsActive DEF VInv, KeyInv
  <2>4. own # {} => Newest(own) = k
    <3> SUFFICES ASSUME NEW j \in own PROVE Newest(own) = k
      OBVIOUS
    <3>1. j = k /\ k \in own /\ \A i \in own : i = k
      BY <2>1
    <3> HIDE DEF own, k
    <3> QED BY <2>2, <3>1, NewestOfOne
  <2> QED BY <2>3, <2>4 DEF Lookup
<1> QED BY <1>1, PageInit, InitCodes, StepInv, PTL DEF Spec, VInv

(* A check that nothing overtook accepts a code once, and not after a      *)
(* later one was sent, however checks and sendings interleave.             *)
THEOREM CodesEnd == Spec => CodesDie
<1> DEFINE A == \A c \in 1 .. MaxCodes : accepted'[c] > accepted[c] =>
                  \/ \E q \in Checks : /\ checking[q] = [code |-> c, overtaken |-> TRUE]
                                      /\ checking'[q] = NoCheck
                  \/ /\ accepted[c] = 0
                     /\ ~sideBySide => \A d \in DOMAIN code :
                                          d > c => code[d].state \in {"sending", "lost"}
<1>1. ASSUME VInv, Next PROVE A
  <2> SUFFICES ASSUME NEW c \in 1 .. MaxCodes, accepted'[c] > accepted[c]
               PROVE  \/ \E q \in Checks : /\ checking[q] = [code |-> c, overtaken |-> TRUE]
                                           /\ checking'[q] = NoCheck
                      \/ StillFirst(c)
    BY DEF StillFirst
  <2>1. accepted \in [1 .. MaxCodes -> Nat]
    BY <1>1 DEF VInv, CodeInv, CodeTypes
  <2>2. accepted' # accepted
    <3> SUFFICES ASSUME accepted' = accepted PROVE FALSE
      OBVIOUS
    <3>1. accepted[c] \in Nat /\ accepted[c] > accepted[c]
      BY <2>1
    <3> QED BY <3>1
  <2>3. PICK q \in Checks : HandleVerifyCode(q)
    BY <1>1, <2>2 DEF Next, OfPhone, OnPhone, Enrol, ScanQr, HandleStartVerify,
       HandleCaptureComplete, RefuseVerify, CommitVerify, FailVerify, Revoke, OfPage, OnPage,
       AfterIdentity, ChooseMethod, HandleStartVerification, HandleCancel, GoOn, Reopen,
       BackToMethods, Poll, GiveUp, OfCodes, SendCode, CommitSend, LoseCode, LookUpCode,
       FailCheck, mailHistory
  <2>4. /\ checking[q].code # 0
        /\ accepted' = [accepted EXCEPT ![checking[q].code] = @ + 1]
        /\ checking' = [Overtake({checking[q].code}) EXCEPT ![q] = NoCheck]
    BY <2>3 DEF HandleVerifyCode
  <2>5. checking[q].code = c
    BY <2>1, <2>4
  <2>6. CASE ~checking[q].overtaken
    BY <1>1, <2>4, <2>5, <2>6 DEF VInv, CodeInv, ChecksSound
  <2>7. CASE checking[q].overtaken
    <3>1. checking[q] \in CheckStates
      BY <1>1 DEF VInv, CodeInv, CodeTypes
    <3>2. checking[q] = [code |-> c, overtaken |-> TRUE]
      BY <2>5, <2>7, <3>1 DEF CheckStates
    <3>3. checking'[q] = NoCheck
      BY <2>4 DEF Overtake
    <3> QED BY <3>2, <3>3
  <2> QED BY <2>6, <2>7
<1>2. VInv /\ [Next]_verificationVars => [A]_verificationVars
  BY <1>1
<1> QED BY <1>2, PageInit, InitCodes, StepInv, PTL DEF Spec, VInv, CodesDie
=============================================================================
