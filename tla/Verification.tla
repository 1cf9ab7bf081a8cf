----------------------------- MODULE Verification -----------------------------
(***************************************************************************)
(* How a page comes to trust that the voter is at it: a phone proves the   *)
(* voter's face and ear by signing a challenge, and the page notices that  *)
(* the credential has been used; or the voter types a code that was mailed *)
(* (biometricVerification.tsx, emailCodeVerification.tsx, the phone's      *)
(* pages, biometric_service, email_verification_service).                  *)
(*                                                                         *)
(* One voter.  Enrolments do not overlap here; VoterRecords is about those *)
(* that do.                                                                *)
(***************************************************************************)
EXTENDS Naturals, Sequences, FiniteSets

CONSTANTS
    Phones,
    Registered,                     \* the phone of the registration
    Checks,                         \* requests that check an email code
    MaxKeys, MaxProofs, MaxCodes    \* bounds on what is ever created

ASSUME VerificationAssumption ==
    MaxKeys \in Nat \ {0} /\ MaxProofs \in Nat /\ MaxCodes \in Nat /\ Registered \in Phones

VARIABLES
    credential,  \* device credentials in the order they were created
    proofs,      \* verifications the server has accepted; also its clock
    phone,       \* the verification page of each phone
    code,        \* email codes in the order they were created
    page,        \* the page that asks for the verification
    checking,    \* the code each check has found to be the newest that is good
    accepted,    \* history: how often each code was accepted
    sideBySide   \* history: two codes were sent at the same time

verificationVars == <<credential, proofs, phone, code, page, checking, accepted, sideBySide>>
mailHistory == <<checking, accepted, sideBySide>>

Keys == 1 .. MaxKeys
Times == 0 .. MaxProofs   \* 0: never used

TypeOK ==
    /\ Len(credential) <= MaxKeys
    /\ \A k \in DOMAIN credential :
         credential[k] \in [device : Phones, active : BOOLEAN, used : Times]
    /\ proofs \in Times
    /\ phone \in [Phones -> [step : {"off", "ready", "capturing", "checked"},
                             key : Keys \cup {0}, templates : BOOLEAN]]
    /\ Len(code) <= MaxCodes
    /\ \A c \in DOMAIN code :
         /\ code[c].state \in {"sending", "live", "dead", "lost"} /\ code[c].mailed \in BOOLEAN
         /\ code[c].replaces \subseteq 1 .. c - 1
    /\ page \in [purpose : {"vote", "update"},
                 step : {"identity", "method", "biometric", "email", "past"},
                 status : {"idle", "awaiting", "verified", "failed", "typing"},
                 polls : SUBSET Times, entered : Times, begun : Times]
    /\ checking \in [Checks -> [code : 0 .. MaxCodes, overtaken : BOOLEAN]]
    /\ accepted \in [1 .. MaxCodes -> Nat]
    /\ sideBySide \in BOOLEAN

ActiveKeys == {k \in DOMAIN credential : credential[k].active}
Newest(keys) == CHOOSE k \in keys : \A j \in keys : j <= k

(* Credentials are listed newest first; the first active one is meant.     *)
Current == IF ActiveKeys = {} THEN 0 ELSE Newest(ActiveKeys)
LastUsed == IF Current = 0 THEN 0 ELSE credential[Current].used

NoCheck == [code |-> 0, overtaken |-> FALSE]

Init ==
    /\ credential = <<[device |-> Registered, active |-> TRUE, used |-> 0]>>
    /\ proofs = 0
    /\ phone = [h \in Phones |-> [step |-> "off", key |-> 0, templates |-> h = Registered]]
    /\ code = <<>>
    /\ page \in [purpose : {"vote", "update"}, step : {"identity"}, status : {"idle"},
                 polls : {{}}, entered : {0}, begun : {0}]
    /\ checking = [q \in Checks |-> NoCheck]
    /\ accepted = [c \in 1 .. MaxCodes |-> 0]
    /\ sideBySide = FALSE

OnPhone(h, p) == phone' = [phone EXCEPT ![h] = p] /\ UNCHANGED <<code, page, mailHistory>>
OnPage(p) == page' = p /\ UNCHANGED <<credential, proofs, phone, code, mailHistory>>

-----------------------------------------------------------------------------
(* Enrolment.  The phone keeps its templates before the server has agreed; *)
(* the server lets go of every earlier credential.                         *)
Enrol(h) ==
    /\ phone[h].step = "off"
    /\ OnPhone(h, [phone[h] EXCEPT !.templates = TRUE])
    /\ \/ /\ Len(credential) < MaxKeys
          /\ credential' = Append([k \in DOMAIN credential |-> [credential[k] EXCEPT !.active = FALSE]],
                                  [device |-> h, active |-> TRUE, used |-> 0])
       \/ UNCHANGED credential
    /\ UNCHANGED proofs

Revoke(k) ==
    /\ k \in ActiveKeys
    /\ credential' = [credential EXCEPT ![k].active = FALSE]
    /\ UNCHANGED <<proofs, phone, code, page, mailHistory>>

(* Verification on the phone.  It unlocks whichever key the server lists,  *)
(* its own or another phone's, and with it signs a challenge of its own,   *)
(* which the server checks in the transaction that marks it used.          *)
ScanQr(h) ==
    /\ page.status = "awaiting" /\ phone[h].step = "off"
    /\ OnPhone(h, [phone[h] EXCEPT !.step = "ready"])
    /\ UNCHANGED <<credential, proofs>>

HandleStartVerify(h) ==
    /\ phone[h].step = "ready" /\ Current # 0 /\ phone[h].templates
    /\ OnPhone(h, [phone[h] EXCEPT !.step = "capturing", !.key = Current])
    /\ UNCHANGED <<credential, proofs>>

LookupRetired(h) ==   \* mutant: retired credentials of the device are found
    LET own == {k \in DOMAIN credential : credential[k].device = h} IN
    IF own # {} THEN Newest(own) ELSE Current

(* The credential the server holds the signature against: the device's own *)
(* if it has an active one, or else the newest active one.                 *)
Lookup(h) ==
    LET own == {k \in ActiveKeys : credential[k].device = h} IN
    IF own # {} THEN Newest(own) ELSE Current

HandleCaptureComplete(h) ==
    /\ phone[h].step = "capturing" /\ proofs < MaxProofs
    /\ Lookup(h) # 0 /\ Lookup(h) = phone[h].key
    /\ OnPhone(h, [phone[h] EXCEPT !.step = "checked"])
    /\ UNCHANGED <<credential, proofs>>

(* No match, another key's signature, or a challenge that has expired.     *)
RefuseVerify(h) ==
    /\ phone[h].step = "capturing"
    /\ OnPhone(h, [phone[h] EXCEPT !.step = "ready", !.key = 0])
    /\ UNCHANGED <<credential, proofs>>

CommitVerify(h) ==
    /\ phone[h].step = "checked" /\ proofs < MaxProofs
    /\ proofs' = proofs + 1
    /\ credential' = [credential EXCEPT ![phone[h].key].used = proofs']
    /\ \E step \in {"off", "ready"} :   \* success, or the answer is lost
         OnPhone(h, [phone[h] EXCEPT !.step = step, !.key = 0])

FailVerify(h) ==
    /\ phone[h].step = "checked"
    /\ OnPhone(h, [phone[h] EXCEPT !.step = "ready", !.key = 0])
    /\ UNCHANGED <<credential, proofs>>

-----------------------------------------------------------------------------
(* The page.  After the name and address a voting page goes to the phone;  *)
(* one for updates lets the voter choose.                                  *)
AfterIdentity ==
    /\ page.step = "identity"
    /\ OnPage([page EXCEPT !.step = IF page.purpose = "vote" THEN "biometric" ELSE "method",
                           !.entered = IF page.purpose = "vote" THEN proofs ELSE 0])

(* Bound: who has asked for a code does not go on to the phone after all;  *)
(* the two ways have only the page in common.                              *)
ChooseMethod(step) ==
    /\ page.step = "method" /\ (step = "biometric" => code = <<>>)
    /\ OnPage([page EXCEPT !.step = step, !.entered = proofs])

BaselineNone == 0   \* mutant: any use of the credential will do

Baseline == LastUsed

(* A poll that was cancelled before its first answer goes on unseen.       *)
HandleStartVerification ==
    /\ page.step = "biometric" /\ page.status \in {"idle", "failed"}
    /\ \E stray \in {{}, page.polls} :
         OnPage([page EXCEPT !.status = "awaiting", !.polls = stray \cup {Baseline},
                             !.begun = proofs])

UsedSinceSeenBefore(b) ==   \* mutant: a credential never used before is not noticed
    Current # 0 /\ LastUsed # 0 /\ b # 0 /\ LastUsed # b

UsedSince(b) == Current # 0 /\ LastUsed # 0 /\ LastUsed # b

Poll(b) ==
    /\ page.step = "biometric" /\ b \in page.polls /\ UsedSince(b)
    /\ OnPage([page EXCEPT !.status = "verified", !.polls = @ \ {b}, !.begun = 0])

GiveUp(b) ==
    /\ page.step = "biometric" /\ b \in page.polls
    /\ OnPage([page EXCEPT !.status = "failed", !.polls = @ \ {b}, !.begun = 0])

HandleCancel ==
    /\ page.step = "biometric" /\ page.status = "awaiting"
    /\ \E stray \in {{}, page.polls} : OnPage([page EXCEPT !.status = "idle", !.polls = stray, !.begun = 0])

GoOn ==
    /\ page.step \in {"biometric", "email"} /\ page.status = "verified"
    /\ OnPage([page EXCEPT !.step = "past", !.polls = {}, !.entered = 0])

(* The voter comes back another time.                                      *)
Reopen ==
    /\ page.step = "past"
    /\ OnPage([page EXCEPT !.step = "identity", !.status = "idle"])

BackToMethods ==
    /\ page.step = "email" /\ page.status # "verified"
    /\ OnPage([page EXCEPT !.step = "method", !.status = "idle", !.entered = 0])

-----------------------------------------------------------------------------
(* Email codes.  The row and the death of the earlier ones become visible  *)
(* with the commit, after the mail has gone; a page that does not wait for *)
(* it may ask for another.                                                 *)
Live == {c \in DOMAIN code : code[c].state = "live"}
Sending == {c \in DOMAIN code : code[c].state = "sending"}

Invalidates == Live

OnCodes(codes) == code' = codes /\ UNCHANGED <<credential, proofs, phone>>

SendCode ==
    /\ page.step = "email" /\ page.status # "verified" /\ Len(code) < MaxCodes
    /\ \E mailed \in BOOLEAN :
         OnCodes(Append(code, [state |-> "sending", mailed |-> mailed, replaces |-> Invalidates]))
    /\ sideBySide' = (sideBySide \/ Sending # {})
    /\ UNCHANGED <<page, checking, accepted>>

(* History: checks under way of a code that meanwhile gave way to another, *)
(* or was accepted for somebody else.                                      *)
Overtake(codes) ==
    [q \in Checks |-> IF checking[q].code \in codes
                      THEN [checking[q] EXCEPT !.overtaken = TRUE] ELSE checking[q]]

(* A mail that could not be sent is an answer; what was written is kept.   *)
CommitSend(c) ==
    /\ c \in Sending
    /\ OnCodes([d \in DOMAIN code |->
                  IF d = c THEN [code[c] EXCEPT !.state = "live"]
                  ELSE IF d \in code[c].replaces THEN [code[d] EXCEPT !.state = "dead"]
                  ELSE code[d]])
    /\ page' \in {page} \cup IF code[c].mailed /\ page.step = "email" /\ page.status # "verified"
                             THEN {[page EXCEPT !.status = "typing"]} ELSE {}
    /\ checking' = Overtake(1 .. c - 1)
    /\ UNCHANGED <<accepted, sideBySide>>

(* The transaction is lost, or ten minutes pass.                           *)
LoseCode(c) ==
    /\ c \in Sending \cup Live
    /\ OnCodes([code EXCEPT ![c].state = IF @ = "live" THEN "dead" ELSE "lost"])
    /\ UNCHANGED <<page, mailHistory>>

(* A check reads the newest of the codes that are good, and no other, and  *)
(* compares it with what was typed; a mismatch changes nothing.            *)
LookUpCode(q) ==
    /\ page.step = "email" /\ page.status = "typing" /\ checking[q].code = 0
    /\ \E c \in Live :
         /\ c = Newest(Live) /\ code[c].mailed
         /\ checking' = [checking EXCEPT ![q] = [code |-> c, overtaken |-> FALSE]]
    /\ UNCHANGED <<credential, proofs, phone, code, page, accepted, sideBySide>>

MarkUsedNever(c) == code   \* mutant: the code is not used up

MarkUsed(c) == [code EXCEPT ![c].state = "dead"]

(* What it found is marked used whatever became of it in between; a        *)
(* sending that holds the row is waited for.                               *)
HandleVerifyCode(q) ==
    LET c == checking[q].code IN
    /\ c # 0 /\ \A d \in Sending : c \notin code[d].replaces
    /\ OnCodes(MarkUsed(c))
    /\ accepted' = [accepted EXCEPT ![c] = @ + 1]
    /\ checking' = [Overtake({c}) EXCEPT ![q] = NoCheck]
    /\ page' \in {page} \cup IF page.step = "email" /\ page.status = "typing"
                             THEN {[page EXCEPT !.status = "verified"]} ELSE {}
    /\ UNCHANGED sideBySide

FailCheck(q) ==
    /\ checking[q].code # 0
    /\ checking' = [checking EXCEPT ![q] = NoCheck]
    /\ UNCHANGED <<credential, proofs, phone, code, page, accepted, sideBySide>>

OfPhone(h) ==
    \/ Enrol(h) \/ ScanQr(h) \/ HandleStartVerify(h) \/ HandleCaptureComplete(h)
    \/ RefuseVerify(h) \/ CommitVerify(h) \/ FailVerify(h)

OfPage ==
    \/ AfterIdentity \/ \E step \in {"biometric", "email"} : ChooseMethod(step)
    \/ HandleStartVerification \/ HandleCancel \/ GoOn \/ Reopen \/ BackToMethods
    \/ \E b \in Times : Poll(b) \/ GiveUp(b)

OfCodes ==
    \/ SendCode
    \/ \E c \in 1 .. MaxCodes : CommitSend(c) \/ LoseCode(c)
    \/ \E q \in Checks : LookUpCode(q) \/ HandleVerifyCode(q) \/ FailCheck(q)

Next ==
    \/ \E h \in Phones : OfPhone(h)
    \/ \E k \in Keys : Revoke(k)
    \/ OfPage \/ OfCodes

(* The page polls every two seconds for as long as it waits.               *)
Spec == Init /\ [][Next]_verificationVars /\ WF_verificationVars(\E b \in Times : Poll(b))

-----------------------------------------------------------------------------
(* A page that was opened by a phone was opened by a proof the server      *)
(* accepted after the page had begun to ask, whatever polls were           *)
(* cancelled, timed out and begun again, devices enrolled anew or revoked  *)
(* (biometricVerification.tsx:99-122).                                     *)
VerifiedSinceAsked ==
    page.step = "biometric" /\ page.status = "verified" => proofs > page.entered

(* A phone that holds the key the server lists is not refused for want of  *)
(* the right credential, with several phones and re-enrolments             *)
(* (biometric_service.py:186-203).                                         *)
NoPhoneLockedOut ==
    \A h \in Phones : phone[h].step = "capturing" /\ phone[h].key \in ActiveKeys
                        => Lookup(h) = phone[h].key

(* A code is accepted once, and not after a later one was sent, unless the *)
(* two were sent at the same time; only a check that was under way when    *)
(* the code was accepted or a later one came may still accept it           *)
(* (email_verification_service.py:37-83).                                  *)
CodesDie ==
    [][\A c \in 1 .. MaxCodes : accepted'[c] > accepted[c] =>
         \/ \E q \in Checks : /\ checking[q] = [code |-> c, overtaken |-> TRUE]
                             /\ checking'[q] = NoCheck
         \/ /\ accepted[c] = 0
            /\ ~sideBySide => \A d \in DOMAIN code :
                                 d > c => code[d].state \in {"sending", "lost"}]_verificationVars

(* A proof made while the page waits for it, with a credential that is not *)
(* replaced, gets through to the page, the first proof as well as later    *)
(* ones.                                                                   *)
ProofIsNoticed ==
    \A k \in Keys :
        page.status = "awaiting" /\ Current = k /\ LastUsed > page.begun
            ~> page.status # "awaiting" \/ Current # k
=============================================================================
