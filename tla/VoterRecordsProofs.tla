-------------------------- MODULE VoterRecordsProofs --------------------------
(***************************************************************************)
(* Theorems about VoterRecords, for any number of callers, addresses,      *)
(* constituencies and devices.                                             *)
(***************************************************************************)
EXTENDS VoterRecords, FiniteSetTheorems, SequenceTheorems, TLAPS

(* No PATCH sends an address status ACTIVE.                                *)
NoStatusSent == \A sends \in Patches : sends.status # "ACTIVE"

(* Whoever revokes devices, edits or deletes addresses does so alone.      *)
RemovesAlone == \A c \in Callers : May[c] \cap {"revoke", "update", "delete"} # {} => c \in Alone

(* Enrolments come from one caller, and so one after the other.            *)
OneEnroller == \A c, d \in Callers : "enrol" \in May[c] \cap May[d] => c = d

(* The page alone adds addresses and hands in documents; who edits or      *)
(* deletes addresses does so alone, and of the types asks for none but     *)
(* OVERSEAS.                                                               *)
PageFiles ==
    /\ \A c \in Callers :
         /\ "create" \in May[c] \/ "prove" \in May[c] => c = Page
         /\ "update" \in May[c] \/ "delete" \in May[c] => c \in Alone
    /\ \A sends \in Patches : sends.type \in {"OVERSEAS", Same}

(* What a call may look like, given the addresses that exist.              *)
CallFits(q) ==
    /\ q \in CallStates
    /\ q.kind = "idle" => q.stage = "read"
    /\ q.stage = "read" => q.demotes = {} /\ ~q.activates
    /\ q.activates => q.kind \in {"prove", "enrol"}
    /\ q.kind \in {"update", "prove"} => q.seen \in Rows /\ q.on \in AddressIds
    /\ q.kind = "update" => q.sends \in Patches
    /\ q.kind = "create" =>
         q.stage = "decided" /\ q.on \in AddressIds /\ q.seen \in Rows /\ q.seen.status = "PENDING"
    /\ q.kind = "delete" => q.stage = "read" /\ q.on \in AddressIds
    /\ q.kind = "enrol" => q.demotes = {} /\ q.on = None

(* A call that has written holds rows that exist, and one that does not    *)
(* exist yet.                                                              *)
HoldsFit(q) ==
    q.stage = "decided" =>
        /\ q.demotes \subseteq Live
        /\ q.kind \in {"update", "prove"} => q.on \in Live
        /\ q.kind = "create" => q.on \notin Live

HeldBy(q) == IF q.stage = "decided" THEN q.demotes \cup {q.on} ELSE {}

HeldApart ==
    \A c, d \in Callers : c # d => HeldBy(call[c]) \cap HeldBy(call[d]) \subseteq {None}

CallsFit == \A c \in Callers : CallFits(call[c]) /\ HoldsFit(call[c])

RecInv == TypeOK /\ CallsFit /\ HeldApart

Deciding(c) == call[c].stage = "decided" /\ call[c].kind \in {"prove", "enrol"}

(* Until a proof and an enrolment decide side by side, whoever decides     *)
(* against activation does so because the other half is missing, and it    *)
(* stays missing.                                                          *)
ReadyInv ==
    crossed \/
    /\ \A c, d \in Callers : Deciding(c) /\ Deciding(d) => c = d
    /\ voter.status = "PENDING" =>
         /\ ActiveAddresses = {} \/ ActiveKeys = {}
         /\ \A c \in Callers : Deciding(c) /\ ~call[c].activates =>
              /\ call[c].kind = "prove" => ActiveKeys = {}
              /\ call[c].kind = "enrol" => ActiveAddresses = {}

(* Calls of those who go alone have no company, and callers keep to what   *)
(* they may do.                                                            *)
KeepApart ==
    /\ \A c \in Callers : call[c].kind # "idle" => call[c].kind \in May[c]
    /\ \A c, d \in Callers :
         c # d /\ call[c].kind # "idle" /\ call[d].kind # "idle" => c \notin Alone

(* Whoever decided for activation still has the other half.                *)
HalvesThere ==
    \A c \in Callers : Deciding(c) /\ call[c].activates =>
        /\ call[c].kind = "prove" => ActiveKeys # {}
        /\ call[c].kind = "enrol" => ActiveAddresses # {}

(* One active credential at most, which an enrolment under way knows of.   *)
DeviceInv ==
    /\ \A j, k \in ActiveKeys : j = k
    /\ \A c \in Callers : call[c].kind = "enrol" =>
         call[c].kind \in May[c] /\ ActiveKeys \subseteq call[c].retires

(* One current address, whose constituency is known; it is the voter's,    *)
(* and the one the page remembers, as long as no address is abroad.        *)
CurrentKnown ==
    /\ \A a, b \in OfType("LOCAL_CURRENT") : a = b
    /\ \A a \in Live : address[a].type # "OVERSEAS" => address[a].area # None
    /\ OfType("OVERSEAS") = {} =>
         /\ \A a \in OfType("LOCAL_CURRENT") : voter.area = address[a].area
         /\ page.addressId # None => page.addressId \in OfType("LOCAL_CURRENT")

(* What a request under way knows of the addresses still holds.            *)
CallKnown(c) ==
    /\ call[c].kind = "create" =>
         /\ c = Page /\ page.addressId = None
         /\ call[c].seen.type \in {"LOCAL_CURRENT", "OVERSEAS"}
         /\ call[c].seen.type # "OVERSEAS" => call[c].seen.area # None
         /\ call[c].demotes = OfType("LOCAL_CURRENT")
    /\ call[c].kind = "update" =>
         /\ c \in Alone /\ call[c].on \in Live /\ call[c].seen = address[call[c].on]
         /\ call[c].sends.type \in {"OVERSEAS", Same}
         /\ call[c].demotes \subseteq OfType("LOCAL_CURRENT")
         /\ call[c].sends.type = Same => call[c].demotes = {}
    /\ call[c].kind = "delete" => c \in Alone /\ call[c].on \in OfType("PAST")
    /\ call[c].kind = "prove" =>
         /\ c = Page /\ call[c].on = page.addressId /\ call[c].on \in Live
         /\ call[c].seen = address[call[c].on] /\ call[c].demotes = {}

WhereInv == CurrentKnown /\ \A c \in Callers : CallKnown(c)

-----------------------------------------------------------------------------
(* The credentials are a sequence.                                         *)
LEMMA KeyLength ==
    ASSUME TypeOK
    PROVE  /\ Len(key) \in 0 .. MaxKeys /\ DOMAIN key = 1 .. Len(key)
           /\ key \in [1 .. Len(key) -> BOOLEAN]
<1>1. PICK n \in 0 .. MaxKeys : key \in [1 .. n -> BOOLEAN]
  BY DEF TypeOK
<1>2. n \in Nat
  BY RecordsAssumption
<1>3. key \in Seq(BOOLEAN)
  BY <1>1, <1>2, SeqDef
<1>4. Len(key) = n
  BY <1>1, <1>2, <1>3, LenProperties
<1> QED BY <1>1, <1>4

LEMMA NoCallFits ==
    ASSUME TypeOK
    PROVE  /\ NoCall \in CallStates /\ CallFits(NoCall) /\ HoldsFit(NoCall)
           /\ NoCall.kind = "idle" /\ NoCall.stage = "read" /\ ~NoCall.activates
           /\ HeldBy(NoCall) = {}
BY DEF NoCall, AsIs, CallStates, Sent, CallFits, HoldsFit, HeldBy

LEMMA InitHolds ==
    ASSUME Init
    PROVE  RecInv /\ ReadyInv /\ KeepApart /\ HalvesThere /\ DeviceInv
<1>1. key = <<>> /\ key \in [1 .. 0 -> BOOLEAN] /\ DOMAIN key = {} /\ 0 \in 0 .. MaxKeys
  BY RecordsAssumption DEF Init
<1>2. Live = {} /\ ActiveAddresses = {} /\ ActiveKeys = {}
  BY <1>1 DEF Init, Live, ActiveAddresses, ActiveKeys
<1>3. NoCall \in CallStates
  BY DEF NoCall, AsIs, CallStates, Sent
<1>4. TypeOK
  BY <1>1, <1>3 DEF Init, TypeOK
<1>5. \A c \in Callers : call[c] = NoCall
  BY DEF Init
<1>6. CallsFit /\ HeldApart
  BY <1>4, <1>5, NoCallFits DEF CallsFit, HeldApart
<1>7. ReadyInv /\ KeepApart /\ HalvesThere /\ DeviceInv
  BY <1>2, <1>4, <1>5, NoCallFits DEF ReadyInv, KeepApart, HalvesThere, DeviceInv, Deciding
<1> QED BY <1>4, <1>6, <1>7 DEF RecInv

-----------------------------------------------------------------------------
(* A step that changes one call and no row.                                *)
CallSteps(c, q) ==
    /\ call' = [call EXCEPT ![c] = q]
    /\ UNCHANGED <<voter, address, key>>

LEMMA CallStepKeeps ==
    ASSUME RecInv, NEW c \in Callers, NEW q, CallSteps(c, q), CallFits(q), HoldsFit(q),
           \A d \in Callers \ {c} : HeldBy(q) \cap HeldBy(call[d]) \subseteq {None},
           page' \in [addressId : AddressIds \cup {None}, addressVerified : BOOLEAN,
                      polling : BOOLEAN, biometricEnrolled : BOOLEAN],
           crossed' \in BOOLEAN
    PROVE  RecInv'
<1>1. /\ call \in [Callers -> CallStates] /\ q \in CallStates
      /\ call'[c] = q /\ \A d \in Callers : d # c => call'[d] = call[d]
      /\ call' \in [Callers -> CallStates]
  BY DEF RecInv, TypeOK, CallSteps, CallFits
<1>2. TypeOK'
  BY <1>1 DEF RecInv, TypeOK, CallSteps
<1>3. Live' = Live
  BY DEF Live, CallSteps
<1>4. CallsFit'
  BY <1>1, <1>3 DEF RecInv, CallsFit, CallFits, HoldsFit
<1>5. ASSUME NEW d \in Callers, NEW e \in Callers, d # e
      PROVE  HeldBy(call'[d]) \cap HeldBy(call'[e]) \subseteq {None}
  BY <1>1, <1>5 DEF RecInv, HeldApart
<1>6. HeldApart'
  BY <1>5 DEF HeldApart, HeldBy
<1> QED BY <1>2, <1>4, <1>6 DEF RecInv

(* Requests that take no lock leave nobody's in the way.                   *)
LEMMA UnlockedKeeps ==
    ASSUME RecInv, NEW c \in Callers, NEW q, CallSteps(c, q), CallFits(q), q.stage = "read",
           page' \in [addressId : AddressIds \cup {None}, addressVerified : BOOLEAN,
                      polling : BOOLEAN, biometricEnrolled : BOOLEAN],
           crossed' \in BOOLEAN
    PROVE  RecInv'
<1>1. HoldsFit(q) /\ HeldBy(q) = {}
  BY DEF HoldsFit, HeldBy
<1> QED BY <1>1, CallStepKeeps

LEMMA CreateKeeps ==
    ASSUME RecInv, NEW c \in Callers, NEW type \in Kinds, NEW area \in Areas \cup {None},
           CreateAddress(c, type, area)
    PROVE  RecInv' /\ call'[c].kind = "create"
<1>1. PICK ds \in SUBSET Live, a \in AddressIds \ Live :
        /\ Unlocked(c, ds) /\ \A d \in Callers : call[d].on # a
        /\ Goes(c, [NoCall EXCEPT !.kind = "create", !.stage = "decided", !.on = a,
                       !.seen = [type |-> type, status |-> "PENDING", area |-> area],
                       !.demotes = ds])
  BY DEF CreateAddress, Demotes, OfType
<1>2. UNCHANGED <<voter, address, key, page, crossed>>
  BY DEF CreateAddress
<1> DEFINE row == [type |-> type, status |-> "PENDING", area |-> area]
           q == [NoCall EXCEPT !.kind = "create", !.stage = "decided", !.on = a,
                   !.seen = row, !.demotes = ds]
<1>3. row \in Rows /\ row.status = "PENDING" /\ ds \subseteq AddressIds
  BY RecordsAssumption DEF Rows, Live
<1> HIDE DEF row
<1>4. /\ q \in CallStates /\ q.kind = "create" /\ q.stage = "decided" /\ q.on = a
      /\ q.seen = row /\ q.demotes = ds /\ ~q.activates
  BY <1>3 DEF NoCall, AsIs, CallStates, Sent, Requests
<1>5. call' = [call EXCEPT ![c] = q]
  BY <1>1 DEF Goes, row
<1> HIDE DEF q
<1>6. CallFits(q) /\ HoldsFit(q) /\ HeldBy(q) = ds \cup {a}
  BY <1>3, <1>4 DEF CallFits, HoldsFit, HeldBy
<1>7. ASSUME NEW d \in Callers \ {c} PROVE HeldBy(q) \cap HeldBy(call[d]) = {}
  <2>1. Held(d) \cap ds = {} /\ Held(d) = HeldBy(call[d])
    BY <1>1 DEF Unlocked, Held, HeldBy
  <2>2. a \notin HeldBy(call[d])
    BY <1>1 DEF RecInv, CallsFit, HoldsFit, HeldBy
  <2> QED BY <1>6, <2>1, <2>2
<1>8. CallSteps(c, q) /\ page' = page /\ crossed' = crossed
  BY <1>2, <1>5 DEF CallSteps
<1>9. RecInv'
  BY <1>6, <1>7, <1>8, CallStepKeeps DEF RecInv, TypeOK
<1> QED BY <1>4, <1>5, <1>9 DEF RecInv, TypeOK

LEMMA ReadForUpdateKeeps ==
    ASSUME RecInv, NEW c \in Callers, NEW a \in AddressIds, NEW sends \in Patches,
           ReadForUpdate(c, a, sends)
    PROVE  RecInv'
<1> DEFINE q == [NoCall EXCEPT !.kind = "update", !.on = a, !.sends = sends, !.seen = address[a]]
<1>1. address[a] \in Rows /\ sends \in Sent
  BY RecordsAssumption DEF ReadForUpdate, Live, RecInv, TypeOK
<1>2. CallFits(q) /\ q.stage = "read"
  BY <1>1 DEF CallFits, NoCall, AsIs, CallStates, Requests, Sent
<1>3. CallSteps(c, q) /\ page' = page /\ crossed' = crossed
  BY DEF ReadForUpdate, Goes, CallSteps
<1> HIDE DEF q
<1> QED BY <1>2, <1>3, UnlockedKeeps DEF RecInv, TypeOK

LEMMA WriteUpdateKeeps ==
    ASSUME RecInv, NEW c \in Callers, WriteUpdate(c)
    PROVE  RecInv'
<1> DEFINE r == call[c]
<1>1. PICK ds \in SUBSET Live :
        /\ r.kind = "update" /\ r.stage = "read" /\ r.on \in Live
        /\ Unlocked(c, ds \cup {r.on})
        /\ Goes(c, [r EXCEPT !.stage = "decided", !.demotes = ds])
        /\ UNCHANGED <<voter, address, key, page, crossed>>
  BY DEF WriteUpdate, Demotes, OfType
<1>2. r \in CallStates /\ CallFits(r)
  BY DEF RecInv, CallsFit, CallFits
<1> HIDE DEF r
<1> DEFINE q == [r EXCEPT !.stage = "decided", !.demotes = ds]
<1>3. /\ q \in CallStates /\ q.kind = r.kind /\ q.stage = "decided" /\ q.on = r.on
      /\ q.seen = r.seen /\ q.sends = r.sends /\ q.demotes = ds /\ q.activates = r.activates
  BY <1>1, <1>2 DEF CallStates, Live
<1> HIDE DEF q
<1>4. CallFits(q) /\ HoldsFit(q) /\ HeldBy(q) = ds \cup {r.on}
  BY <1>1, <1>2, <1>3 DEF CallFits, HoldsFit, HeldBy
<1>5. ASSUME NEW d \in Callers \ {c} PROVE HeldBy(q) \cap HeldBy(call[d]) = {}
  BY <1>1, <1>4 DEF Unlocked, Held, HeldBy
<1>6. CallSteps(c, q) /\ page' = page /\ crossed' = crossed
  BY <1>1 DEF CallSteps, Goes, q
<1> QED BY <1>4, <1>5, <1>6, CallStepKeeps DEF RecInv, TypeOK

LEMMA ReadForDeleteKeeps ==
    ASSUME RecInv, NEW c \in Callers, NEW a \in AddressIds, ReadForDelete(c, a)
    PROVE  RecInv'
<1> DEFINE q == [NoCall EXCEPT !.kind = "delete", !.on = a]
<1>1. CallFits(q) /\ q.stage = "read"
  BY DEF CallFits, NoCall, AsIs, CallStates, Requests, Sent
<1>2. CallSteps(c, q) /\ page' = page /\ crossed' = crossed
  BY DEF ReadForDelete, Goes, CallSteps
<1> HIDE DEF q
<1> QED BY <1>1, <1>2, UnlockedKeeps DEF RecInv, TypeOK

LEMMA ReadForProofKeeps ==
    ASSUME RecInv, NEW c \in Callers, NEW a \in AddressIds, ReadForProof(c, a)
    PROVE  RecInv'
<1> DEFINE P == [addressId : AddressIds \cup {None}, addressVerified : BOOLEAN,
                 polling : BOOLEAN, biometricEnrolled : BOOLEAN]
<1>1. page' \in P /\ UNCHANGED <<voter, address, key, crossed>> /\ address[a] \in Rows
  BY DEF ReadForProof, RecInv, TypeOK, Live
<1>2. CASE UNCHANGED call
  <2>1. TypeOK'
    BY <1>1, <1>2 DEF RecInv, TypeOK
  <2> QED BY <1>1, <1>2, <2>1 DEF RecInv, CallsFit, CallFits, HoldsFit, HeldApart, HeldBy, Live
<1>3. CASE Goes(c, [NoCall EXCEPT !.kind = "prove", !.on = a, !.seen = address[a]])
  <2> DEFINE q == [NoCall EXCEPT !.kind = "prove", !.on = a, !.seen = address[a]]
  <2>1. CallFits(q) /\ q.stage = "read"
    BY <1>1 DEF CallFits, NoCall, AsIs, CallStates, Requests, Sent
  <2>2. CallSteps(c, q) /\ crossed' \in BOOLEAN
    BY <1>1, <1>3 DEF Goes, CallSteps, RecInv, TypeOK
  <2> HIDE DEF q
  <2> QED BY <1>1, <2>1, <2>2, UnlockedKeeps
<1> QED BY <1>2, <1>3 DEF ReadForProof

LEMMA EndKeeps ==
    ASSUME RecInv, NEW c \in Callers, Goes(c, NoCall),
           UNCHANGED <<voter, address, key, page, crossed>>
    PROVE  RecInv'
<1>1. CallSteps(c, NoCall)
  BY DEF CallSteps, Goes
<1> QED BY <1>1, NoCallFits, UnlockedKeeps DEF RecInv, TypeOK

LEMMA WriteProofKeeps ==
    ASSUME RecInv, NEW c \in Callers, WriteProof(c)
    PROVE  RecInv'
<1> DEFINE r == call[c]
           acts == /\ voter.status = "PENDING"
                   /\ Ready(ActiveAddresses \cup {call[c].on}, ActiveKeys)
<1>1. /\ r.kind = "prove" /\ r.stage = "read" /\ r.on \in Live
      /\ Unlocked(c, {r.on})
      /\ Goes(c, [r EXCEPT !.stage = "decided", !.activates = acts])
      /\ UNCHANGED <<voter, address, key, page>>
  BY DEF WriteProof
<1>2. r \in CallStates /\ CallFits(r) /\ crossed' \in BOOLEAN /\ acts \in BOOLEAN
  BY DEF RecInv, TypeOK, CallsFit, CallFits, WriteProof, Crosses
<1> HIDE DEF r, acts
<1> DEFINE q == [r EXCEPT !.stage = "decided", !.activates = acts]
<1>3. /\ q \in CallStates /\ q.kind = r.kind /\ q.stage = "decided" /\ q.on = r.on
      /\ q.seen = r.seen /\ q.sends = r.sends /\ q.demotes = r.demotes
  BY <1>2 DEF CallStates
<1> HIDE DEF q
<1>4. CallFits(q) /\ HoldsFit(q) /\ HeldBy(q) = {r.on}
  BY <1>1, <1>2, <1>3 DEF CallFits, HoldsFit, HeldBy
<1>5. ASSUME NEW d \in Callers \ {c} PROVE HeldBy(q) \cap HeldBy(call[d]) = {}
  BY <1>1, <1>4 DEF Unlocked, Held, HeldBy
<1>6. CallSteps(c, q) /\ page' = page
  BY <1>1 DEF CallSteps, Goes, q
<1> QED BY <1>2, <1>4, <1>5, <1>6, CallStepKeeps DEF RecInv, TypeOK

LEMMA ReadForEnrolKeeps ==
    ASSUME RecInv, NEW c \in Callers, ReadForEnrol(c)
    PROVE  RecInv'
<1> DEFINE q == [NoCall EXCEPT !.kind = "enrol", !.retires = Retires(ActiveKeys)]
<1>1. Retires(ActiveKeys) \subseteq 1 .. MaxKeys
  BY KeyLength, RecordsAssumption DEF Retires, ActiveKeys, RecInv
<1>2. CallFits(q) /\ q.stage = "read"
  BY <1>1 DEF CallFits, NoCall, AsIs, CallStates, Requests, Sent
<1>3. CallSteps(c, q) /\ page' = page /\ crossed' = crossed
  BY DEF ReadForEnrol, Goes, CallSteps
<1> HIDE DEF q
<1> QED BY <1>2, <1>3, UnlockedKeeps DEF RecInv, TypeOK

LEMMA WriteEnrolKeeps ==
    ASSUME RecInv, NEW c \in Callers, WriteEnrol(c)
    PROVE  RecInv'
<1> DEFINE r == call[c]
           acts == voter.status = "PENDING" /\ Ready(ActiveAddresses, {Len(key) + 1})
<1>1. /\ r.kind = "enrol" /\ r.stage = "read"
      /\ Goes(c, [r EXCEPT !.stage = "decided", !.activates = acts])
      /\ UNCHANGED <<voter, address, key, page>>
  BY DEF WriteEnrol
<1>2. r \in CallStates /\ CallFits(r) /\ crossed' \in BOOLEAN /\ acts \in BOOLEAN
  BY DEF RecInv, TypeOK, CallsFit, CallFits, WriteEnrol, Crosses
<1> HIDE DEF r, acts
<1> DEFINE q == [r EXCEPT !.stage = "decided", !.activates = acts]
<1>3. /\ q \in CallStates /\ q.kind = r.kind /\ q.stage = "decided" /\ q.on = r.on
      /\ q.seen = r.seen /\ q.sends = r.sends /\ q.demotes = r.demotes
  BY <1>2 DEF CallStates
<1> HIDE DEF q
<1>4. CallFits(q) /\ HoldsFit(q) /\ HeldBy(q) = {None}
  BY <1>1, <1>2, <1>3 DEF CallFits, HoldsFit, HeldBy
<1>5. CallSteps(c, q) /\ page' = page
  BY <1>1 DEF CallSteps, Goes, q
<1> QED BY <1>2, <1>4, <1>5, CallStepKeeps DEF RecInv, TypeOK

-----------------------------------------------------------------------------
(* Steps that change rows.                                                 *)
LEMMA DeleteKeeps ==
    ASSUME RecInv, NEW c \in Callers, Delete(c)
    PROVE  RecInv' /\ ActiveAddresses' \subseteq ActiveAddresses
<1> DEFINE a == call[c].on
<1>1. /\ call[c].kind = "delete" /\ a \in Live /\ Unlocked(c, {a})
      /\ address' = [address EXCEPT ![a] = None] /\ call' = [call EXCEPT ![c] = NoCall]
      /\ UNCHANGED <<voter, key, page, crossed>>
  BY DEF Delete, Goes
<1>2. /\ address' \in [AddressIds -> Rows \cup {None}] /\ Live' = Live \ {a}
      /\ \A b \in AddressIds : b # a => address'[b] = address[b]
  BY <1>1 DEF RecInv, TypeOK, Live
<1>3. ActiveAddresses' \subseteq ActiveAddresses
  BY <1>2 DEF ActiveAddresses, Live
<1>4. /\ call' \in [Callers -> CallStates] /\ call'[c] = NoCall
      /\ \A d \in Callers : d # c => call'[d] = call[d]
  BY <1>1, NoCallFits DEF RecInv, TypeOK
<1>5. TypeOK'
  BY <1>1, <1>2, <1>4 DEF RecInv, TypeOK
<1>6. ASSUME NEW d \in Callers, d # c
      PROVE  CallFits(call'[d]) /\ HoldsFit(call[d])' /\ HeldBy(call'[d]) = HeldBy(call[d])
  <2>1. call'[d] = call[d] /\ CallFits(call[d]) /\ HoldsFit(call[d])
    BY <1>4, <1>6 DEF RecInv, CallsFit
  <2>2. a \notin HeldBy(call[d])
    BY <1>1, <1>6 DEF Unlocked, Held, HeldBy
  <2> QED BY <1>2, <2>1, <2>2 DEF HoldsFit, HeldBy
<1>7. CallFits(NoCall) /\ HeldBy(NoCall) = {} /\ NoCall.stage = "read"
  BY NoCallFits DEF RecInv
<1>8. CallsFit'
  <2>1. ASSUME NEW d \in Callers PROVE CallFits(call[d])' /\ HoldsFit(call[d])'
    BY <1>4, <1>6, <1>7 DEF CallFits, HoldsFit
  <2> QED BY <2>1 DEF CallsFit
<1>9. HeldApart'
  <2>1. ASSUME NEW d \in Callers, NEW e \in Callers, d # e
        PROVE  HeldBy(call'[d]) \cap HeldBy(call'[e]) \subseteq {None}
    BY <1>4, <1>6, <1>7, <2>1 DEF RecInv, HeldApart
  <2> QED BY <2>1 DEF HeldApart, HeldBy
<1> QED BY <1>3, <1>5, <1>8, <1>9 DEF RecInv

LEMMA RowAfterIsRow ==
    ASSUME RecInv, NEW c \in Callers, call[c].stage = "decided",
           call[c].kind \in {"create", "update", "prove"}
    PROVE  /\ call[c].on \in AddressIds /\ RowAfter(call[c]) \in Rows /\ RowAfter(call[c]) # None
           /\ call[c].kind = "create" => RowAfter(call[c]).status = "PENDING"
           /\ call[c].kind = "prove" => RowAfter(call[c]).status = "ACTIVE"
           /\ call[c].kind = "update" /\ NoStatusSent /\ RowAfter(call[c]).status = "ACTIVE" =>
                address[call[c].on].status = "ACTIVE"
<1> DEFINE r == call[c]
<1>1. CallFits(r) /\ HoldsFit(r) /\ r \in CallStates
  BY DEF RecInv, CallsFit, CallFits
<1>2. r.on \in AddressIds
  BY <1>1 DEF CallFits
<1> HIDE DEF r
<1>3. CASE r.kind = "create"
  BY <1>1, <1>2, <1>3, RecordsAssumption DEF RowAfter, CallFits, r
<1>4. CASE r.kind = "prove"
  <2>1. address[r.on] \in Rows
    BY <1>1, <1>4 DEF HoldsFit, Live, RecInv, TypeOK, r
  <2>2. RowAfter(r) = [address[r.on] EXCEPT !.status = "ACTIVE"]
    BY <1>4 DEF RowAfter
  <2>3. RowAfter(r) \in Rows /\ RowAfter(r).status = "ACTIVE"
    BY <2>1, <2>2 DEF Rows
  <2> QED BY <1>2, <1>4, <2>3, RecordsAssumption DEF r
<1>5. CASE r.kind = "update"
  <2>1. address[r.on] \in Rows
    BY <1>1, <1>5 DEF HoldsFit, Live, RecInv, TypeOK, r
  <2>2. r.sends \in Sent /\ r.sends \in Patches
    BY <1>1, <1>5, RecordsAssumption DEF CallFits
  <2>3. RowAfter(r) = [type |-> Laid(r.sends.type, address[r.on].type),
                       status |-> Laid(r.sends.status, address[r.on].status),
                       area |-> Laid(r.sends.area, address[r.on].area)]
    BY <1>5 DEF RowAfter
  <2>4. /\ Laid(r.sends.type, address[r.on].type) \in Types
        /\ Laid(r.sends.status, address[r.on].status) \in {"PENDING", "ACTIVE"}
        /\ Laid(r.sends.area, address[r.on].area) \in Areas \cup {None}
    BY <2>1, <2>2 DEF Laid, Rows, Sent
  <2>5. RowAfter(r) \in Rows /\ RowAfter(r).status = Laid(r.sends.status, address[r.on].status)
    BY <2>3, <2>4 DEF Rows
  <2>6. NoStatusSent /\ RowAfter(r).status = "ACTIVE" => address[r.on].status = "ACTIVE"
    BY <2>2, <2>5 DEF NoStatusSent, Laid
  <2> QED BY <1>2, <1>5, <2>5, <2>6, RecordsAssumption DEF r
<1> QED BY <1>3, <1>4, <1>5 DEF r

(* A row that turns into a past address keeps its status.                  *)
LEMMA Demoted ==
    ASSUME NEW row \in Rows
    PROVE  /\ [row EXCEPT !.type = "PAST"] \in Rows
           /\ [row EXCEPT !.type = "PAST"].status = row.status
BY DEF Rows, Types

LEMMA AreaIsArea ==
    ASSUME RecInv, NEW c \in Callers, call[c].stage = "decided",
           call[c].kind \in {"create", "update", "prove"}
    PROVE  AreaAfter(call[c]) \in Areas \cup {None, "Overseas"}
<1> DEFINE r == call[c]
<1>1. CallFits(r) /\ r \in CallStates
  BY DEF RecInv, CallsFit, CallFits
<1>2. r.seen \in Rows /\ r.sends \in Sent /\ voter.area \in Areas \cup {None, "Overseas"}
  BY <1>1 DEF CallFits, CallStates, RecInv, TypeOK
<1> HIDE DEF r
<1>3. r.seen.area \in Areas \cup {None} /\ r.sends.area \in Areas \cup {Same}
  BY <1>2 DEF Rows, Sent
<1>4. AreaAfter(r) \in Areas \cup {None, "Overseas"}
  BY <1>2, <1>3 DEF AreaAfter
<1> QED BY <1>4 DEF r

LEMMA CommitAddressEffect ==
    ASSUME RecInv, NEW c \in Callers, CommitAddress(c)
    PROVE  /\ address' \in [AddressIds -> Rows \cup {None}]
           /\ Live' = Live \cup {call[c].on}
           /\ call[c].on \in AddressIds
           /\ ActiveAddresses' = IF RowAfter(call[c]).status = "ACTIVE"
                                 THEN ActiveAddresses \cup {call[c].on}
                                 ELSE ActiveAddresses \ {call[c].on}
<1> DEFINE r == call[c]
<1>1. /\ r.kind \in {"create", "update", "prove"} /\ r.stage = "decided"
      /\ address' = [a \in AddressIds |->
                       IF a = r.on THEN RowAfter(r)
                       ELSE IF a \in r.demotes THEN [address[a] EXCEPT !.type = "PAST"]
                       ELSE address[a]]
  BY DEF CommitAddress
<1>2. r.demotes \subseteq Live /\ \A a \in Live : address[a] \in Rows
  BY <1>1 DEF RecInv, CallsFit, HoldsFit, Live, TypeOK
<1>3. r.on \in AddressIds /\ RowAfter(r) \in Rows /\ RowAfter(r) # None
  BY <1>1, RowAfterIsRow
<1> HIDE DEF r
<1>4. ASSUME NEW a \in AddressIds, a # r.on
      PROVE  /\ address'[a] \in Rows \cup {None} /\ (address'[a] # None <=> address[a] # None)
             /\ address[a] # None => address'[a].status = address[a].status
  <2>1. CASE a \in r.demotes
    <3>1. address'[a] = [address[a] EXCEPT !.type = "PAST"] /\ a \in Live /\ address[a] \in Rows
      BY <1>1, <1>2, <1>4, <2>1
    <3>2. address'[a] \in Rows /\ address'[a].status = address[a].status
      BY <3>1, Demoted
    <3> QED BY <3>1, <3>2, RecordsAssumption DEF Live
  <2>2. CASE a \notin r.demotes
    BY <1>1, <1>4, <2>2 DEF RecInv, TypeOK
  <2> QED BY <2>1, <2>2
<1>5. address'[r.on] = RowAfter(r)
  BY <1>1, <1>3
<1>6. Live' = Live \cup {r.on}
  BY <1>3, <1>4, <1>5 DEF Live
<1>7. address' \in [AddressIds -> Rows \cup {None}]
  <2>1. \A a \in AddressIds : address'[a] \in Rows \cup {None}
    BY <1>3, <1>4, <1>5
  <2> QED BY <1>1, <2>1
<1>8. \A a \in AddressIds : a # r.on => (a \in ActiveAddresses' <=> a \in ActiveAddresses)
  BY <1>4, <1>6 DEF ActiveAddresses, Live
<1>9. r.on \in ActiveAddresses' <=> RowAfter(r).status = "ACTIVE"
  BY <1>5, <1>6 DEF ActiveAddresses
<1>10. ActiveAddresses \subseteq AddressIds /\ ActiveAddresses' \subseteq AddressIds
  BY DEF ActiveAddresses, Live
<1>11. ActiveAddresses' = IF RowAfter(r).status = "ACTIVE" THEN ActiveAddresses \cup {r.on}
                          ELSE ActiveAddresses \ {r.on}
  BY <1>3, <1>8, <1>9, <1>10
<1> QED BY <1>3, <1>6, <1>7, <1>11 DEF r

LEMMA CommitAddressKeeps ==
    ASSUME RecInv, NEW c \in Callers, CommitAddress(c)
    PROVE  RecInv'
<1> DEFINE r == call[c]
<1>1. /\ r.kind \in {"create", "update", "prove"} /\ r.stage = "decided"
      /\ voter' = [status |-> IF r.activates THEN "ACTIVE" ELSE voter.status, area |-> AreaAfter(r)]
      /\ call' = [call EXCEPT ![c] = NoCall]
      /\ UNCHANGED <<key, crossed>>
  BY DEF CommitAddress, Goes
<1>2. /\ address' \in [AddressIds -> Rows \cup {None}]
      /\ Live' = Live \cup {r.on} /\ r.on \in AddressIds
  BY CommitAddressEffect
<1>3. page' \in [addressId : AddressIds \cup {None}, addressVerified : BOOLEAN,
                 polling : BOOLEAN, biometricEnrolled : BOOLEAN]
  <2>1. CASE page' = page
    BY <2>1 DEF RecInv, TypeOK
  <2>2. CASE page' = [page EXCEPT !.addressId = r.on]
    BY <1>2, <2>2 DEF RecInv, TypeOK
  <2>3. CASE page' = [page EXCEPT !.addressVerified = TRUE]
    BY <2>3 DEF RecInv, TypeOK
  <2> QED BY <2>1, <2>2, <2>3 DEF CommitAddress
<1>4. /\ call' \in [Callers -> CallStates] /\ call'[c] = NoCall
      /\ \A d \in Callers : d # c => call'[d] = call[d]
  BY <1>1, NoCallFits DEF RecInv, TypeOK
<1>5. voter' \in [status : {"PENDING", "ACTIVE"}, area : Areas \cup {None, "Overseas"}]
  BY <1>1, AreaIsArea DEF RecInv, TypeOK
<1>6. TypeOK'
  BY <1>1, <1>2, <1>3, <1>4, <1>5 DEF RecInv, TypeOK
<1>7. ASSUME NEW d \in Callers, d # c
      PROVE  CallFits(call'[d]) /\ HoldsFit(call[d])'
  <2>1. call'[d] = call[d] /\ CallFits(call[d]) /\ HoldsFit(call[d])
    BY <1>4, <1>7 DEF RecInv, CallsFit
  <2>2. r.on \in HeldBy(call[c]) /\ r.on # None
    BY <1>1, <1>2, RecordsAssumption DEF HeldBy
  <2>3. r.on \notin HeldBy(call[d])
    BY <1>7, <2>2 DEF RecInv, HeldApart
  <2> QED BY <1>2, <2>1, <2>3 DEF HoldsFit, HeldBy
<1>8. CallFits(NoCall) /\ HeldBy(NoCall) = {} /\ NoCall.stage = "read"
  BY NoCallFits DEF RecInv
<1>9. CallsFit'
  <2>1. ASSUME NEW d \in Callers PROVE CallFits(call[d])' /\ HoldsFit(call[d])'
    BY <1>4, <1>7, <1>8 DEF CallFits, HoldsFit
  <2> QED BY <2>1 DEF CallsFit
<1>10. HeldApart'
  <2>1. ASSUME NEW d \in Callers, NEW e \in Callers, d # e
        PROVE  HeldBy(call'[d]) \cap HeldBy(call'[e]) \subseteq {None}
    BY <1>4, <1>8, <2>1 DEF RecInv, HeldApart
  <2> QED BY <2>1 DEF HeldApart, HeldBy
<1> QED BY <1>6, <1>9, <1>10 DEF RecInv

(* Credentials change and addresses do not.                                *)
LEMMA KeyStepKeeps ==
    ASSUME RecInv, NEW c \in Callers, NEW q \in {call[c], NoCall},
           call' = [call EXCEPT ![c] = q], UNCHANGED <<address, page, crossed>>,
           voter' \in [status : {"PENDING", "ACTIVE"}, area : Areas \cup {None, "Overseas"}],
           \E n \in 0 .. MaxKeys : key' \in [1 .. n -> BOOLEAN]
    PROVE  RecInv'
<1>1. CallFits(q) /\ HoldsFit(q) /\ HeldBy(q) \subseteq HeldBy(call[c])
  BY NoCallFits DEF RecInv, CallsFit, HeldBy
<1>2. /\ call'[c] = q /\ \A d \in Callers : d # c => call'[d] = call[d]
      /\ call' \in [Callers -> CallStates]
  BY <1>1 DEF RecInv, TypeOK, CallFits
<1>3. TypeOK' /\ Live' = Live
  BY <1>2 DEF RecInv, TypeOK, Live
<1>4. CallsFit'
  BY <1>1, <1>2, <1>3 DEF RecInv, CallsFit, CallFits, HoldsFit
<1>5. HeldApart'
  <2>1. ASSUME NEW d \in Callers, NEW e \in Callers, d # e
        PROVE  HeldBy(call'[d]) \cap HeldBy(call'[e]) \subseteq {None}
    BY <1>1, <1>2, <2>1 DEF RecInv, HeldApart
  <2> QED BY <2>1 DEF HeldApart, HeldBy
<1> QED BY <1>3, <1>4, <1>5 DEF RecInv

LEMMA RevokeKeeps ==
    ASSUME RecInv, NEW c \in Callers, NEW k \in DOMAIN key, Revoke(c, k)
    PROVE  RecInv' /\ ActiveKeys' \subseteq ActiveKeys
<1>1. /\ Len(key) \in 0 .. MaxKeys /\ DOMAIN key = 1 .. Len(key)
      /\ key \in [1 .. Len(key) -> BOOLEAN]
  BY KeyLength DEF RecInv
<1>2. key' = [key EXCEPT ![k] = FALSE] /\ UNCHANGED <<voter, address, call, page, crossed>>
  BY DEF Revoke
<1>3. key' \in [1 .. Len(key) -> BOOLEAN]
  BY <1>1, <1>2
<1>4. ActiveKeys' \subseteq ActiveKeys
  BY <1>1, <1>2, <1>3 DEF ActiveKeys
<1>5. call' = [call EXCEPT ![c] = call[c]]
  BY <1>2 DEF RecInv, TypeOK
<1>6. RecInv'
  BY <1>1, <1>2, <1>3, <1>5, KeyStepKeeps DEF RecInv, TypeOK
<1> QED BY <1>4, <1>6

LEMMA CommitEnrolKeeps ==
    ASSUME RecInv, NEW c \in Callers, CommitEnrol(c)
    PROVE  /\ RecInv'
           /\ ActiveKeys' = (ActiveKeys \ call[c].retires) \cup {Len(key) + 1}
<1>1. /\ Len(key) \in 0 .. MaxKeys /\ DOMAIN key = 1 .. Len(key)
      /\ key \in [1 .. Len(key) -> BOOLEAN] /\ MaxKeys \in Nat
  BY KeyLength, RecordsAssumption DEF RecInv
<1>2. /\ Len(key) < MaxKeys /\ call' = [call EXCEPT ![c] = NoCall]
      /\ key' = [k \in 1 .. Len(key) + 1 |-> IF k \in DOMAIN key
                                            THEN key[k] /\ k \notin call[c].retires ELSE TRUE]
      /\ voter' = [voter EXCEPT !.status = IF call[c].activates THEN "ACTIVE" ELSE @]
      /\ UNCHANGED <<address, page, crossed>>
  BY DEF CommitEnrol, Goes
<1> DEFINE n == Len(key)
<1>3. n \in Nat /\ n + 1 \in 0 .. MaxKeys
  BY <1>1, <1>2
<1>4. /\ DOMAIN key' = 1 .. n + 1 /\ key'[n + 1] = TRUE
      /\ \A k \in 1 .. n : key'[k] = (key[k] /\ k \notin call[c].retires)
  <2>1. DOMAIN key' = 1 .. n + 1
    BY <1>2
  <2>2. n + 1 \in 1 .. n + 1 /\ n + 1 \notin DOMAIN key
    BY <1>1, <1>3
  <2>3. \A k \in 1 .. n : k \in 1 .. n + 1 /\ k \in DOMAIN key
    BY <1>1, <1>3
  <2> HIDE DEF n
  <2>4. key' = [k \in 1 .. n + 1 |-> IF k \in DOMAIN key
                                     THEN key[k] /\ k \notin call[c].retires ELSE TRUE]
    BY <1>2 DEF n
  <2> QED BY <2>1, <2>2, <2>3, <2>4
<1>5. key' \in [1 .. n + 1 -> BOOLEAN]
  BY <1>1, <1>2, <1>3
<1>6. 1 .. n + 1 = (1 .. n) \cup {n + 1}
  BY <1>3
<1>7. ActiveKeys = {k \in 1 .. n : key[k]}
  BY <1>1 DEF ActiveKeys
<1>8. ActiveKeys' = {k \in 1 .. n + 1 : key'[k]}
  BY <1>4 DEF ActiveKeys
<1>9. ActiveKeys' = (ActiveKeys \ call[c].retires) \cup {n + 1}
  <2> HIDE DEF n
  <2> QED BY <1>4, <1>6, <1>7, <1>8
<1>10. voter' \in [status : {"PENDING", "ACTIVE"}, area : Areas \cup {None, "Overseas"}]
  BY <1>2 DEF RecInv, TypeOK
<1>11. RecInv'
  BY <1>2, <1>3, <1>5, <1>10, KeyStepKeeps
<1> QED BY <1>9, <1>11

PageSteps == SetAddressField \/ StartEnrollment \/ Poll \/ Cancel

LEMMA PageKeeps ==
    ASSUME RecInv, PageSteps
    PROVE  RecInv' /\ UNCHANGED <<voter, address, key, call, crossed>>
<1>1. UNCHANGED <<voter, address, key, call, crossed>>
  BY DEF PageSteps, SetAddressField, StartEnrollment, Poll, Cancel
<1>2. page' \in [addressId : AddressIds \cup {None}, addressVerified : BOOLEAN,
                 polling : BOOLEAN, biometricEnrolled : BOOLEAN]
  BY DEF PageSteps, SetAddressField, StartEnrollment, Poll, Cancel, RecInv, TypeOK
<1>3. TypeOK'
  BY <1>1, <1>2 DEF RecInv, TypeOK
<1> QED BY <1>1, <1>3 DEF RecInv, CallsFit, CallFits, HoldsFit, HeldApart, HeldBy, Live

LEMMA NextKeepsRec ==
    ASSUME RecInv, [Next]_recordVars PROVE RecInv'
<1>1. ASSUME NEW c \in Callers, OnAddress(c) PROVE RecInv'
  <2>1. CASE \E type \in Kinds, area \in Areas \cup {None} : CreateAddress(c, type, area)
    BY <2>1, CreateKeeps
  <2>2. CASE \E a \in AddressIds : ReadForDelete(c, a) \/ ReadForProof(c, a)
    BY <2>2, ReadForDeleteKeeps, ReadForProofKeeps
  <2>3. CASE \E a \in AddressIds, sends \in Patches : ReadForUpdate(c, a, sends)
    BY <2>3, ReadForUpdateKeeps
  <2>4. CASE DocumentFails(c)
    BY <2>4, EndKeeps DEF DocumentFails
  <2> QED BY <1>1, <2>1, <2>2, <2>3, <2>4, WriteUpdateKeeps, WriteProofKeeps, DeleteKeeps,
             CommitAddressKeeps DEF OnAddress
<1>2. ASSUME NEW c \in Callers, OnDevice(c) PROVE RecInv'
  BY <1>2, ReadForEnrolKeeps, WriteEnrolKeeps, CommitEnrolKeeps, RevokeKeeps DEF OnDevice
<1>3. ASSUME NEW c \in Callers, Fail(c) PROVE RecInv'
  BY <1>3, EndKeeps DEF Fail
<1>4. CASE UNCHANGED recordVars
  BY <1>4 DEF recordVars, RecInv, TypeOK, CallsFit, CallFits, HoldsFit, HeldApart, HeldBy, Live
<1> QED BY <1>1, <1>2, <1>3, <1>4, PageKeeps DEF Next, PageSteps

-----------------------------------------------------------------------------
(* The steps by what they do to the two halves of the activation.          *)
Removes(c) == Delete(c) \/ \E k \in DOMAIN key : Revoke(c, k)

(* Neither half is won, and nobody comes to a decision.                    *)
Quiet ==
    /\ voter'.status = voter.status /\ crossed' = crossed
    /\ ActiveAddresses' \subseteq ActiveAddresses /\ ActiveKeys' \subseteq ActiveKeys
    /\ \A d \in Callers : call'[d] = call[d] \/ call'[d].stage = "read"
                           \/ call'[d].kind \in {"create", "update"}

LEMMA QuietIsReady ==
    ASSUME RecInv, ReadyInv, Quiet PROVE ReadyInv'
<1>1. ASSUME NEW d \in Callers, Deciding(d)' PROVE call'[d] = call[d] /\ Deciding(d)
  BY <1>1 DEF Quiet, Deciding
<1> QED BY <1>1 DEF Quiet, ReadyInv

LEMMA NoRowsSame ==
    ASSUME UNCHANGED <<address, key>>
    PROVE  ActiveAddresses' = ActiveAddresses /\ ActiveKeys' = ActiveKeys /\ Live' = Live
BY DEF ActiveAddresses, ActiveKeys, Live

LEMMA OthersStay ==
    ASSUME RecInv, NEW c \in Callers, NEW q, Goes(c, q)
    PROVE  call'[c] = q /\ \A d \in Callers : d # c => call'[d] = call[d]
BY DEF RecInv, TypeOK, Goes

LEMMA ReadsAreQuiet ==
    ASSUME RecInv, NEW c \in Callers,
           \/ \E a \in AddressIds : ReadForDelete(c, a) \/ ReadForProof(c, a)
           \/ \E a \in AddressIds, sends \in Patches : ReadForUpdate(c, a, sends)
           \/ DocumentFails(c) \/ ReadForEnrol(c) \/ Fail(c)
    PROVE  Quiet
<1>1. UNCHANGED <<voter, address, key, crossed>>
  BY DEF ReadForDelete, ReadForProof, ReadForUpdate, DocumentFails, ReadForEnrol, Fail
<1>2. \/ UNCHANGED call
      \/ \E q : Goes(c, q) /\ q.stage = "read"
  <2>1. ASSUME NEW a \in AddressIds, ReadForDelete(c, a)
        PROVE  \E q : Goes(c, q) /\ q.stage = "read"
    <3>1. [NoCall EXCEPT !.kind = "delete", !.on = a].stage = "read"
      BY DEF NoCall
    <3> QED BY <2>1, <3>1 DEF ReadForDelete
  <2>2. ASSUME NEW a \in AddressIds, ReadForProof(c, a)
        PROVE  UNCHANGED call \/ \E q : Goes(c, q) /\ q.stage = "read"
    <3>1. [NoCall EXCEPT !.kind = "prove", !.on = a, !.seen = address[a]].stage = "read"
      BY DEF NoCall
    <3> QED BY <2>2, <3>1 DEF ReadForProof
  <2>3. ASSUME NEW a \in AddressIds, NEW sends \in Patches, ReadForUpdate(c, a, sends)
        PROVE  \E q : Goes(c, q) /\ q.stage = "read"
    <3>1. [NoCall EXCEPT !.kind = "update", !.on = a, !.sends = sends,
                         !.seen = address[a]].stage = "read"
      BY DEF NoCall
    <3> QED BY <2>3, <3>1 DEF ReadForUpdate
  <2>4. ASSUME DocumentFails(c) \/ Fail(c)
        PROVE  \E q : Goes(c, q) /\ q.stage = "read"
    BY <2>4 DEF DocumentFails, Fail, NoCall
  <2>5. ASSUME ReadForEnrol(c)
        PROVE  \E q : Goes(c, q) /\ q.stage = "read"
    <3>1. [NoCall EXCEPT !.kind = "enrol", !.retires = Retires(ActiveKeys)].stage = "read"
      BY DEF NoCall
    <3> QED BY <2>5, <3>1 DEF ReadForEnrol
  <2> QED BY <2>1, <2>2, <2>3, <2>4, <2>5
<1>3. \A d \in Callers : call'[d] = call[d] \/ call'[d].stage = "read"
  BY <1>2, OthersStay
<1> QED BY <1>1, <1>3, NoRowsSame DEF Quiet

LEMMA WritesAreQuiet ==
    ASSUME RecInv, NEW c \in Callers,
           \/ \E type \in Kinds, area \in Areas \cup {None} : CreateAddress(c, type, area)
           \/ WriteUpdate(c)
    PROVE  Quiet
<1>1. UNCHANGED <<voter, address, key, crossed>>
  BY DEF CreateAddress, WriteUpdate
<1>2. call'[c].kind \in {"create", "update"} /\ \E q : Goes(c, q)
  <2>1. CASE WriteUpdate(c)
    <3>1. call[c] \in CallStates
      BY DEF RecInv, TypeOK
    <3>2. PICK ds : Goes(c, [call[c] EXCEPT !.stage = "decided", !.demotes = ds])
      BY <2>1 DEF WriteUpdate
    <3> DEFINE q == [call[c] EXCEPT !.stage = "decided", !.demotes = ds]
    <3>3. q.kind = call[c].kind /\ call[c].kind = "update"
      BY <2>1, <3>1 DEF CallStates, WriteUpdate
    <3>4. Goes(c, q)
      BY <3>2
    <3> HIDE DEF q
    <3>5. call'[c] = q
      BY <3>4, OthersStay
    <3> QED BY <3>3, <3>4, <3>5
  <2>2. CASE \E type \in Kinds, area \in Areas \cup {None} : CreateAddress(c, type, area)
    BY <2>2, CreateKeeps DEF CreateAddress
  <2> QED BY <2>1, <2>2
<1>3. \A d \in Callers : d # c => call'[d] = call[d]
  BY <1>2, OthersStay
<1> QED BY <1>1, <1>2, <1>3, NoRowsSame DEF Quiet

LEMMA RemovalsAreQuiet ==
    ASSUME RecInv, NEW c \in Callers, Removes(c)
    PROVE  Quiet
<1>1. CASE Delete(c)
  <2>1. Goes(c, NoCall) /\ UNCHANGED <<voter, key, crossed>>
    BY <1>1 DEF Delete
  <2> QED BY <1>1, <2>1, DeleteKeeps, OthersStay, NoCallFits DEF Quiet, RecInv, ActiveKeys
<1>2. CASE \E k \in DOMAIN key : Revoke(c, k)
  <2>1. UNCHANGED <<voter, address, call, crossed>>
    BY <1>2 DEF Revoke
  <2>2. ActiveKeys' \subseteq ActiveKeys
    BY <1>2, RevokeKeeps
  <2> QED BY <2>1, <2>2 DEF Quiet, ActiveAddresses, Live
<1> QED BY <1>1, <1>2 DEF Removes

LEMMA ChangesAreQuiet ==
    ASSUME RecInv, NoStatusSent, NEW c \in Callers, CommitAddress(c), call[c].kind # "prove"
    PROVE  Quiet
<1>1. call[c].kind \in {"create", "update"} /\ call[c].stage = "decided" /\ Goes(c, NoCall)
  BY DEF CommitAddress
<1>2. ~call[c].activates /\ UNCHANGED <<key, crossed>> /\ voter'.status = voter.status
  BY <1>1 DEF RecInv, CallsFit, CallFits, CommitAddress
<1>3. RowAfter(call[c]).status = "ACTIVE" => call[c].on \in ActiveAddresses
  <2>1. call[c].kind = "update" => call[c].on \in Live
    BY <1>1 DEF RecInv, CallsFit, HoldsFit
  <2> QED BY <1>1, <2>1, RowAfterIsRow DEF ActiveAddresses
<1>4. ActiveAddresses' \subseteq ActiveAddresses
  BY <1>3, CommitAddressEffect
<1>5. ActiveKeys' = ActiveKeys
  BY <1>2 DEF ActiveKeys
<1> QED BY <1>1, <1>2, <1>4, <1>5, OthersStay, NoCallFits DEF Quiet, RecInv

(* The two decisions.                                                      *)
LEMMA ProofDecides ==
    ASSUME RecInv, NEW c \in Callers, WriteProof(c)
    PROVE  /\ call'[c].stage = "decided" /\ call'[c].kind = "prove"
           /\ call'[c].activates = (voter.status = "PENDING"
                                      /\ ActiveAddresses \cup {call[c].on} # {} /\ ActiveKeys # {})
           /\ \A d \in Callers : d # c => call'[d] = call[d]
           /\ UNCHANGED <<voter, address, key>>
           /\ crossed' = (crossed \/ \E d \in Callers \ {c} : Deciding(d))
<1> DEFINE acts == /\ voter.status = "PENDING"
                   /\ Ready(ActiveAddresses \cup {call[c].on}, ActiveKeys)
           q == [call[c] EXCEPT !.stage = "decided", !.activates = acts]
<1>1. /\ Goes(c, q) /\ call[c].kind = "prove" /\ UNCHANGED <<voter, address, key>>
      /\ crossed' = (crossed \/ \E d \in Callers \ {c} : Deciding(d))
  BY DEF WriteProof, Crosses, Deciding
<1>2. call[c] \in CallStates
  BY DEF RecInv, TypeOK
<1> HIDE DEF acts
<1>3. q.kind = "prove" /\ q.stage = "decided" /\ q.activates = acts
  BY <1>1, <1>2 DEF CallStates
<1> HIDE DEF q
<1>4. call'[c] = q /\ \A d \in Callers : d # c => call'[d] = call[d]
  BY <1>1, OthersStay
<1> QED BY <1>1, <1>3, <1>4 DEF acts, Ready

LEMMA EnrolDecides ==
    ASSUME RecInv, NEW c \in Callers, WriteEnrol(c)
    PROVE  /\ call'[c].stage = "decided" /\ call'[c].kind = "enrol" /\ call[c].kind = "enrol"
           /\ call'[c].retires = call[c].retires
           /\ call'[c].activates = (voter.status = "PENDING" /\ ActiveAddresses # {})
           /\ \A d \in Callers : d # c => call'[d] = call[d]
           /\ UNCHANGED <<voter, address, key>>
           /\ crossed' = (crossed \/ \E d \in Callers \ {c} : Deciding(d))
<1> DEFINE acts == voter.status = "PENDING" /\ Ready(ActiveAddresses, {Len(key) + 1})
           q == [call[c] EXCEPT !.stage = "decided", !.activates = acts]
<1>1. /\ Goes(c, q) /\ call[c].kind = "enrol" /\ UNCHANGED <<voter, address, key>>
      /\ crossed' = (crossed \/ \E d \in Callers \ {c} : Deciding(d))
  BY DEF WriteEnrol, Crosses, Deciding
<1>2. call[c] \in CallStates
  BY DEF RecInv, TypeOK
<1> HIDE DEF acts
<1>3. q.kind = "enrol" /\ q.stage = "decided" /\ q.activates = acts /\ q.retires = call[c].retires
  BY <1>1, <1>2 DEF CallStates
<1> HIDE DEF q
<1>4. call'[c] = q /\ \A d \in Callers : d # c => call'[d] = call[d]
  BY <1>1, OthersStay
<1> QED BY <1>1, <1>3, <1>4 DEF acts, Ready

(* A decision that stands alone keeps ReadyInv.                            *)
LEMMA DecisionIsReady ==
    ASSUME RecInv, ReadyInv, NEW c \in Callers, WriteProof(c) \/ WriteEnrol(c)
    PROVE  ReadyInv'
<1>1. /\ \A d \in Callers : d # c => call'[d] = call[d]
      /\ UNCHANGED <<voter, address, key>>
      /\ crossed' = (crossed \/ \E d \in Callers \ {c} : Deciding(d))
      /\ call'[c].kind = "prove" /\ ~call'[c].activates /\ voter.status = "PENDING" => ActiveKeys = {}
      /\ call'[c].kind = "enrol" /\ ~call'[c].activates /\ voter.status = "PENDING"
           => ActiveAddresses = {}
  <2>1. CASE WriteProof(c)
    BY <2>1, ProofDecides
  <2>2. CASE WriteEnrol(c)
    BY <2>2, EnrolDecides
  <2> QED BY <2>1, <2>2
<1>2. ActiveAddresses' = ActiveAddresses /\ ActiveKeys' = ActiveKeys
  BY <1>1, NoRowsSame
<1>3. CASE crossed'
  BY <1>3 DEF ReadyInv
<1>4. CASE ~crossed'
  <2>1. ~crossed /\ \A d \in Callers : Deciding(d)' => d = c
    BY <1>1, <1>4 DEF Deciding
  <2>2. ASSUME voter'.status = "PENDING"
        PROVE  /\ ActiveAddresses' = {} \/ ActiveKeys' = {}
               /\ \A d \in Callers : Deciding(d)' /\ ~call'[d].activates =>
                    /\ call'[d].kind = "prove" => ActiveKeys' = {}
                    /\ call'[d].kind = "enrol" => ActiveAddresses' = {}
    BY <1>1, <1>2, <2>1, <2>2 DEF ReadyInv
  <2> QED BY <2>1, <2>2 DEF ReadyInv
<1> QED BY <1>3, <1>4

LEMMA ProofIsReady ==
    ASSUME RecInv, ReadyInv, NEW c \in Callers, CommitAddress(c), call[c].kind = "prove"
    PROVE  ReadyInv'
<1>1. /\ Deciding(c) /\ Goes(c, NoCall) /\ UNCHANGED <<key, crossed>>
      /\ voter'.status = IF call[c].activates THEN "ACTIVE" ELSE voter.status
  BY DEF CommitAddress, Deciding
<1>2. /\ call'[c] = NoCall /\ \A d \in Callers : d # c => call'[d] = call[d]
      /\ NoCall.stage = "read"
  BY <1>1, OthersStay, NoCallFits DEF RecInv
<1>3. ActiveKeys' = ActiveKeys
  BY <1>1 DEF ActiveKeys
<1>4. CASE crossed
  BY <1>1, <1>4 DEF ReadyInv
<1>5. CASE ~crossed
  <2>1. \A d \in Callers : ~Deciding(d)'
    BY <1>1, <1>2, <1>5 DEF ReadyInv, Deciding
  <2>2. voter'.status = "PENDING" => ActiveKeys' = {}
    BY <1>1, <1>3, <1>5 DEF ReadyInv
  <2> QED BY <2>1, <2>2 DEF ReadyInv
<1> QED BY <1>4, <1>5

LEMMA EnrolIsReady ==
    ASSUME RecInv, ReadyInv, NEW c \in Callers, CommitEnrol(c)
    PROVE  ReadyInv'
<1>1. /\ Deciding(c) /\ Goes(c, NoCall) /\ UNCHANGED <<address, crossed>>
      /\ voter'.status = IF call[c].activates THEN "ACTIVE" ELSE voter.status
      /\ call[c].kind = "enrol"
  BY DEF CommitEnrol, Deciding, RecInv, TypeOK
<1>2. /\ call'[c] = NoCall /\ \A d \in Callers : d # c => call'[d] = call[d]
      /\ NoCall.stage = "read"
  BY <1>1, OthersStay, NoCallFits DEF RecInv
<1>3. ActiveAddresses' = ActiveAddresses
  BY <1>1 DEF ActiveAddresses, Live
<1>4. CASE crossed
  BY <1>1, <1>4 DEF ReadyInv
<1>5. CASE ~crossed
  <2>1. \A d \in Callers : ~Deciding(d)'
    BY <1>1, <1>2, <1>5 DEF ReadyInv, Deciding
  <2>2. voter'.status = "PENDING" => ActiveAddresses' = {}
    BY <1>1, <1>3, <1>5 DEF ReadyInv
  <2> QED BY <2>1, <2>2 DEF ReadyInv
<1> QED BY <1>4, <1>5

LEMMA PageIsQuiet ==
    ASSUME RecInv, PageSteps \/ UNCHANGED recordVars
    PROVE  Quiet
BY PageKeeps, NoRowsSame DEF Quiet, recordVars

LEMMA NextKeepsReady ==
    ASSUME RecInv, NoStatusSent, ReadyInv, [Next]_recordVars PROVE ReadyInv'
<1>1. ASSUME NEW c \in Callers, OnAddress(c) PROVE ReadyInv'
  <2>1. CASE CommitAddress(c)
    BY <2>1, ChangesAreQuiet, QuietIsReady, ProofIsReady
  <2>2. CASE Delete(c)
    BY <2>2, RemovalsAreQuiet, QuietIsReady DEF Removes
  <2> QED BY <1>1, <2>1, <2>2, ReadsAreQuiet, WritesAreQuiet, QuietIsReady, DecisionIsReady
          DEF OnAddress
<1>2. ASSUME NEW c \in Callers, OnDevice(c) PROVE ReadyInv'
  <2>1. CASE \E k \in DOMAIN key : Revoke(c, k)
    BY <2>1, RemovalsAreQuiet, QuietIsReady DEF Removes
  <2> QED BY <1>2, <2>1, ReadsAreQuiet, QuietIsReady, DecisionIsReady, EnrolIsReady DEF OnDevice
<1>3. ASSUME NEW c \in Callers, Fail(c) PROVE ReadyInv'
  BY <1>3, ReadsAreQuiet, QuietIsReady
<1> QED BY <1>1, <1>2, <1>3, PageIsQuiet, QuietIsReady DEF Next, PageSteps

-----------------------------------------------------------------------------
(* Whose call it is and of what kind.                                      *)
KindStep(c) ==
    /\ \A d \in Callers : d # c => call'[d] = call[d]
    /\ call'[c].kind \in {call[c].kind, "idle"} \/ Start(c, call'[c].kind)

LEMMA KindStepKeeps ==
    ASSUME KeepApart, NEW c \in Callers, KindStep(c) PROVE KeepApart'
<1>1. CASE call'[c].kind \in {call[c].kind, "idle"}
  BY <1>1 DEF KeepApart, KindStep
<1>2. CASE Start(c, call'[c].kind)
  BY <1>2 DEF KeepApart, KindStep, Start, Idle
<1> QED BY <1>1, <1>2 DEF KindStep

LEMMA AddressKinds ==
    ASSUME RecInv, NEW c \in Callers, OnAddress(c) \/ Fail(c)
    PROVE  KindStep(c) /\ (call'[c] = call[c] \/ call'[c].kind # "enrol")
<1>1. NoCall.kind = "idle"
  BY DEF NoCall
<1>2. CASE DocumentFails(c) \/ Fail(c) \/ Delete(c) \/ CommitAddress(c)
  <2>1. Goes(c, NoCall)
    BY <1>2 DEF DocumentFails, Fail, Delete, CommitAddress
  <2> QED BY <1>1, <2>1, OthersStay DEF KindStep
<1>3. CASE \E type \in Kinds, area \in Areas \cup {None} : CreateAddress(c, type, area)
  <2>1. call'[c].kind = "create" /\ Start(c, "create") /\ \E q : Goes(c, q)
    BY <1>3, CreateKeeps DEF CreateAddress
  <2> QED BY <2>1, OthersStay DEF KindStep
<1>4. ASSUME NEW a \in AddressIds, ReadForDelete(c, a)
      PROVE  KindStep(c) /\ (call'[c] = call[c] \/ call'[c].kind # "enrol")
  <2> DEFINE q == [NoCall EXCEPT !.kind = "delete", !.on = a]
  <2>1. Goes(c, q) /\ Start(c, "delete") /\ q.kind = "delete"
    BY <1>4 DEF ReadForDelete, NoCall
  <2> HIDE DEF q
  <2> QED BY <2>1, OthersStay DEF KindStep
<1>5. ASSUME NEW a \in AddressIds, ReadForProof(c, a)
      PROVE  KindStep(c) /\ (call'[c] = call[c] \/ call'[c].kind # "enrol")
  <2> DEFINE q == [NoCall EXCEPT !.kind = "prove", !.on = a, !.seen = address[a]]
  <2>1. (UNCHANGED call \/ Goes(c, q)) /\ Start(c, "prove") /\ q.kind = "prove"
    BY <1>5 DEF ReadForProof, NoCall
  <2> HIDE DEF q
  <2> QED BY <2>1, OthersStay DEF KindStep
<1>6. ASSUME NEW a \in AddressIds, NEW sends \in Patches, ReadForUpdate(c, a, sends)
      PROVE  KindStep(c) /\ (call'[c] = call[c] \/ call'[c].kind # "enrol")
  <2> DEFINE q == [NoCall EXCEPT !.kind = "update", !.on = a, !.sends = sends, !.seen = address[a]]
  <2>1. Goes(c, q) /\ Start(c, "update") /\ q.kind = "update"
    BY <1>6 DEF ReadForUpdate, NoCall
  <2> HIDE DEF q
  <2> QED BY <2>1, OthersStay DEF KindStep
<1>7. CASE WriteUpdate(c)
  <2>1. PICK ds : Goes(c, [call[c] EXCEPT !.stage = "decided", !.demotes = ds])
    BY <1>7 DEF WriteUpdate
  <2> DEFINE q == [call[c] EXCEPT !.stage = "decided", !.demotes = ds]
  <2>2. q.kind = call[c].kind /\ call[c].kind = "update"
    BY <1>7 DEF RecInv, TypeOK, CallStates, WriteUpdate
  <2>3. Goes(c, q)
    BY <2>1
  <2> HIDE DEF q
  <2> QED BY <2>2, <2>3, OthersStay DEF KindStep
<1>8. CASE WriteProof(c)
  BY <1>8, ProofDecides DEF KindStep, WriteProof
<1> QED BY <1>2, <1>3, <1>4, <1>5, <1>6, <1>7, <1>8 DEF OnAddress

LEMMA EnrolRead ==
    ASSUME RecInv, NEW c \in Callers, ReadForEnrol(c)
    PROVE  /\ Start(c, "enrol") /\ call'[c].kind = "enrol" /\ call'[c].stage = "read"
           /\ call'[c].retires = ActiveKeys
           /\ \A d \in Callers : d # c => call'[d] = call[d]
           /\ UNCHANGED <<voter, address, key>>
<1> DEFINE q == [NoCall EXCEPT !.kind = "enrol", !.retires = Retires(ActiveKeys)]
<1>1. /\ q.kind = "enrol" /\ q.stage = "read" /\ q.retires = Retires(ActiveKeys)
      /\ Goes(c, q) /\ Start(c, "enrol") /\ UNCHANGED <<voter, address, key>>
  BY DEF NoCall, ReadForEnrol
<1> HIDE DEF q
<1>2. call'[c] = q /\ \A d \in Callers : d # c => call'[d] = call[d]
  BY <1>1, OthersStay
<1> QED BY <1>1, <1>2 DEF Retires

LEMMA DeviceKinds ==
    ASSUME RecInv, NEW c \in Callers, OnDevice(c)
    PROVE  KindStep(c)
<1>1. CASE ReadForEnrol(c)
  BY <1>1, EnrolRead DEF KindStep
<1>2. CASE WriteEnrol(c)
  BY <1>2, EnrolDecides DEF KindStep
<1>3. CASE CommitEnrol(c)
  BY <1>3, OthersStay DEF KindStep, CommitEnrol, NoCall
<1>4. CASE \E k \in DOMAIN key : Revoke(c, k)
  BY <1>4 DEF KindStep, Revoke
<1> QED BY <1>1, <1>2, <1>3, <1>4 DEF OnDevice

LEMMA NextKeepsApart ==
    ASSUME RecInv, KeepApart, [Next]_recordVars PROVE KeepApart'
<1>1. CASE PageSteps \/ UNCHANGED recordVars
  BY <1>1, PageKeeps DEF recordVars, KeepApart
<1> QED BY <1>1, AddressKinds, DeviceKinds, KindStepKeeps DEF Next, PageSteps

-----------------------------------------------------------------------------
(* The halves of whoever decided for activation.                           *)
LEMMA HalvesKept ==
    ASSUME HalvesThere,
           ActiveAddresses # {} => ActiveAddresses' # {}, ActiveKeys # {} => ActiveKeys' # {},
           \A d \in Callers : call'[d] = call[d] \/ ~Deciding(d)'
    PROVE  HalvesThere'
BY DEF HalvesThere, Deciding

LEMMA QuietHalves ==
    ASSUME RecInv, HalvesThere, Quiet, UNCHANGED <<address, key>>
    PROVE  HalvesThere'
<1>1. \A d \in Callers : call'[d] = call[d] \/ ~Deciding(d)'
  BY DEF Quiet, Deciding
<1> QED BY <1>1, NoRowsSame, HalvesKept

(* Whoever takes a half away is alone, and nobody has decided.             *)
LEMMA AloneHalves ==
    ASSUME RecInv, RemovesAlone, KeepApart, NEW c \in Callers,
           Removes(c) \/ (CommitAddress(c) /\ call[c].kind = "update")
    PROVE  HalvesThere'
<1>1. CASE \E k \in DOMAIN key : Revoke(c, k)
  <2>1. Start(c, "revoke") /\ UNCHANGED call
    BY <1>1 DEF Revoke
  <2>2. c \in Alone
    BY <2>1 DEF Start, RemovesAlone
  <2>3. \A d \in Callers : call'[d].kind = "idle"
    BY <2>1, <2>2 DEF Start, Idle
  <2> QED BY <2>3 DEF HalvesThere, Deciding
<1>2. CASE Delete(c) \/ (CommitAddress(c) /\ call[c].kind = "update")
  <2>1. call[c].kind \in {"delete", "update"} /\ Goes(c, NoCall)
    BY <1>2 DEF Delete, CommitAddress
  <2>2. c \in Alone
    BY <2>1 DEF KeepApart, RemovesAlone
  <2>3. \A d \in Callers : d # c => call[d].kind = "idle"
    BY <2>1, <2>2 DEF KeepApart
  <2>4. \A d \in Callers : call'[d].kind = "idle"
    BY <2>1, <2>3, OthersStay, NoCallFits DEF RecInv
  <2> QED BY <2>4 DEF HalvesThere, Deciding
<1> QED BY <1>1, <1>2 DEF Removes

LEMMA CommitHalves ==
    ASSUME RecInv, HalvesThere, NEW c \in Callers,
           CommitAddress(c), call[c].kind # "update"
    PROVE  HalvesThere'
<1>1. /\ call[c].kind \in {"create", "prove"} /\ call[c].stage = "decided" /\ Goes(c, NoCall)
      /\ UNCHANGED key
  BY DEF CommitAddress
<1>2. ActiveAddresses \subseteq ActiveAddresses'
  <2>1. CASE call[c].kind = "prove"
    BY <1>1, <2>1, CommitAddressEffect, RowAfterIsRow
  <2>2. CASE call[c].kind = "create"
    <3>1. call[c].on \notin ActiveAddresses
      BY <1>1, <2>2 DEF RecInv, CallsFit, HoldsFit, ActiveAddresses
    <3> QED BY <3>1, CommitAddressEffect
  <2> QED BY <1>1, <2>1, <2>2
<1>3. \A d \in Callers : call'[d] = call[d] \/ ~Deciding(d)'
  BY <1>1, OthersStay, NoCallFits DEF RecInv, Deciding
<1>4. ActiveKeys' = ActiveKeys
  BY <1>1 DEF ActiveKeys
<1> QED BY <1>2, <1>3, <1>4, HalvesKept

LEMMA NextKeepsHalves ==
    ASSUME RecInv, RemovesAlone, KeepApart, HalvesThere, [Next]_recordVars
    PROVE  HalvesThere'
<1>1. ASSUME NEW c \in Callers,
             \/ \E a \in AddressIds : ReadForDelete(c, a) \/ ReadForProof(c, a)
             \/ \E a \in AddressIds, sends \in Patches : ReadForUpdate(c, a, sends)
             \/ DocumentFails(c) \/ ReadForEnrol(c) \/ Fail(c)
      PROVE  HalvesThere'
  <2>1. UNCHANGED <<address, key>>
    BY <1>1 DEF ReadForDelete, ReadForProof, ReadForUpdate, DocumentFails, ReadForEnrol, Fail
  <2> QED BY <1>1, <2>1, ReadsAreQuiet, QuietHalves
<1>2. ASSUME NEW c \in Callers,
             \/ \E type \in Kinds, area \in Areas \cup {None} : CreateAddress(c, type, area)
             \/ WriteUpdate(c)
      PROVE  HalvesThere'
  <2>1. UNCHANGED <<address, key>>
    BY <1>2 DEF CreateAddress, WriteUpdate
  <2> QED BY <1>2, <2>1, WritesAreQuiet, QuietHalves
<1>3. ASSUME NEW c \in Callers, WriteProof(c) PROVE HalvesThere'
  BY <1>3, ProofDecides, NoRowsSame DEF HalvesThere, Deciding
<1>4. ASSUME NEW c \in Callers, WriteEnrol(c) PROVE HalvesThere'
  <2>1. /\ call'[c].kind = "enrol" /\ (call'[c].activates => ActiveAddresses # {})
        /\ \A d \in Callers : d # c => call'[d] = call[d]
        /\ ActiveAddresses' = ActiveAddresses /\ ActiveKeys' = ActiveKeys
    BY <1>4, EnrolDecides, NoRowsSame
  <2>2. ASSUME NEW d \in Callers, Deciding(d)', call'[d].activates
        PROVE  /\ call'[d].kind = "prove" => ActiveKeys' # {}
               /\ call'[d].kind = "enrol" => ActiveAddresses' # {}
    <3>1. CASE d = c
      BY <2>1, <2>2, <3>1
    <3>2. CASE d # c
      BY <2>1, <2>2, <3>2 DEF HalvesThere, Deciding
    <3> QED BY <3>1, <3>2
  <2> QED BY <2>2 DEF HalvesThere
<1>5. ASSUME NEW c \in Callers, CommitEnrol(c) PROVE HalvesThere'
  <2>1. ActiveKeys' # {} /\ Goes(c, NoCall) /\ UNCHANGED address
    BY <1>5, CommitEnrolKeeps DEF CommitEnrol
  <2>2. ActiveAddresses' = ActiveAddresses
    BY <2>1 DEF ActiveAddresses, Live
  <2>3. \A d \in Callers : call'[d] = call[d] \/ ~Deciding(d)'
    BY <2>1, OthersStay, NoCallFits DEF RecInv, Deciding
  <2> QED BY <2>1, <2>2, <2>3, HalvesKept
<1>6. ASSUME NEW c \in Callers, OnAddress(c) PROVE HalvesThere'
  BY <1>1, <1>2, <1>3, <1>6, AloneHalves, CommitHalves DEF OnAddress, Removes
<1>7. ASSUME NEW c \in Callers, OnDevice(c) PROVE HalvesThere'
  BY <1>1, <1>4, <1>5, <1>7, AloneHalves DEF OnDevice, Removes
<1>8. CASE PageSteps \/ UNCHANGED recordVars
  <2>1. UNCHANGED <<address, key>>
    BY <1>8, PageKeeps DEF recordVars
  <2> QED BY <1>8, <2>1, PageIsQuiet, QuietHalves
<1> QED BY <1>1, <1>6, <1>7, <1>8 DEF Next, PageSteps

(* The step that activates has both.                                       *)
LEMMA ActivationHasBoth ==
    ASSUME RecInv, HalvesThere, [Next]_recordVars,
           voter.status = "PENDING", voter'.status = "ACTIVE"
    PROVE  ActiveAddresses' # {} /\ ActiveKeys' # {}
<1>1. ASSUME NEW c \in Callers, CommitAddress(c) PROVE ActiveAddresses' # {} /\ ActiveKeys' # {}
  <2>1. /\ call[c].activates /\ call[c].stage = "decided" /\ UNCHANGED key
        /\ call[c].kind \in {"create", "update", "prove"}
    BY <1>1 DEF CommitAddress
  <2>2. call[c].kind = "prove"
    BY <2>1 DEF RecInv, CallsFit, CallFits
  <2>3. ActiveKeys # {} /\ ActiveKeys' = ActiveKeys
    BY <2>1, <2>2 DEF HalvesThere, Deciding, ActiveKeys
  <2>4. call[c].on \in ActiveAddresses'
    BY <1>1, <2>1, <2>2, CommitAddressEffect, RowAfterIsRow
  <2> QED BY <2>3, <2>4
<1>2. ASSUME NEW c \in Callers, CommitEnrol(c) PROVE ActiveAddresses' # {} /\ ActiveKeys' # {}
  <2>1. /\ call[c].activates /\ call[c].stage = "decided" /\ UNCHANGED address
        /\ call[c].kind = "enrol"
    BY <1>2 DEF CommitEnrol, RecInv, TypeOK
  <2>2. ActiveAddresses # {} /\ ActiveAddresses' = ActiveAddresses
    BY <2>1 DEF HalvesThere, Deciding, ActiveAddresses, Live
  <2> QED BY <1>2, <2>2, CommitEnrolKeeps
<1>3. ASSUME NEW c \in Callers, OnAddress(c), ~CommitAddress(c) PROVE UNCHANGED voter
  BY <1>3 DEF OnAddress, CreateAddress, ReadForDelete, ReadForProof, ReadForUpdate, WriteUpdate,
              WriteProof, DocumentFails, Delete
<1>4. ASSUME NEW c \in Callers, OnDevice(c), ~CommitEnrol(c) PROVE UNCHANGED voter
  BY <1>4 DEF OnDevice, ReadForEnrol, WriteEnrol, Revoke
<1>5. ASSUME NEW c \in Callers, Fail(c) PROVE UNCHANGED voter
  BY <1>5 DEF Fail
<1>6. CASE PageSteps \/ UNCHANGED recordVars
  BY <1>6, PageKeeps DEF recordVars
<1> QED BY <1>1, <1>2, <1>3, <1>4, <1>5, <1>6 DEF Next, PageSteps

-----------------------------------------------------------------------------
(* One device.                                                             *)
LEMMA DeviceKept ==
    ASSUME DeviceInv, ActiveKeys' \subseteq ActiveKeys,
           \A d \in Callers : call'[d] = call[d] \/ call'[d].kind # "enrol"
    PROVE  DeviceInv'
BY DEF DeviceInv

LEMMA NextKeepsDevice ==
    ASSUME RecInv, OneEnroller, DeviceInv, [Next]_recordVars
    PROVE  DeviceInv'
<1>1. ASSUME NEW c \in Callers, OnAddress(c) \/ Fail(c) PROVE DeviceInv'
  <2>1. UNCHANGED key
    BY <1>1 DEF OnAddress, CreateAddress, ReadForDelete, ReadForProof, ReadForUpdate, WriteUpdate,
                WriteProof, DocumentFails, Delete, CommitAddress, Fail
  <2>2. ActiveKeys' = ActiveKeys
    BY <2>1 DEF ActiveKeys
  <2>3. \A d \in Callers : call'[d] = call[d] \/ call'[d].kind # "enrol"
    BY <1>1, AddressKinds DEF KindStep
  <2> QED BY <2>2, <2>3, DeviceKept
<1>2. ASSUME NEW c \in Callers, ReadForEnrol(c) PROVE DeviceInv'
  <2>1. ActiveKeys' = ActiveKeys
    BY <1>2, EnrolRead, NoRowsSame
  <2> QED BY <1>2, <2>1, EnrolRead DEF DeviceInv, Start
<1>3. ASSUME NEW c \in Callers, WriteEnrol(c) PROVE DeviceInv'
  <2>1. ActiveKeys' = ActiveKeys
    BY <1>3, EnrolDecides, NoRowsSame
  <2> QED BY <1>3, <2>1, EnrolDecides DEF DeviceInv
<1>4. ASSUME NEW c \in Callers, CommitEnrol(c) PROVE DeviceInv'
  <2>1. Goes(c, NoCall) /\ call[c].kind = "enrol"
    BY <1>4 DEF CommitEnrol
  <2>2. ActiveKeys' = {Len(key) + 1}
    BY <1>4, <2>1, CommitEnrolKeeps DEF DeviceInv
  <2>3. /\ call'[c].kind = "idle" /\ \A d \in Callers : d # c => call'[d] = call[d]
    BY <2>1, OthersStay, NoCallFits DEF RecInv
  <2>4. \A d \in Callers : call'[d].kind # "enrol"
    BY <2>1, <2>3 DEF DeviceInv, OneEnroller
  <2> QED BY <2>2, <2>4 DEF DeviceInv
<1>5. ASSUME NEW c \in Callers, NEW k \in DOMAIN key, Revoke(c, k) PROVE DeviceInv'
  <2>1. UNCHANGED call
    BY <1>5 DEF Revoke
  <2> QED BY <1>5, <2>1, RevokeKeeps, DeviceKept
<1>6. CASE PageSteps \/ UNCHANGED recordVars
  <2>1. UNCHANGED <<call, key>>
    BY <1>6, PageKeeps DEF recordVars
  <2> QED BY <2>1, DeviceKept DEF ActiveKeys
<1> QED BY <1>1, <1>2, <1>3, <1>4, <1>5, <1>6 DEF Next, PageSteps, OnDevice

-----------------------------------------------------------------------------
(* Where the voter votes.  While the rows stay, what is known of them      *)
(* stays known.                                                            *)
LEMMA RowsStayKnown ==
    ASSUME WhereInv, UNCHANGED address, voter'.area = voter.area,
           page'.addressId = page.addressId \/ (page'.addressId = None /\ Idle(Page)),
           \A d \in Callers : call'[d] = call[d] \/ CallKnown(d)'
    PROVE  WhereInv'
<1>1. Live' = Live /\ \A t : OfType(t)' = OfType(t)
  BY DEF Live, OfType
<1>2. CurrentKnown'
  BY <1>1 DEF WhereInv, CurrentKnown
<1>3. ASSUME NEW d \in Callers, call'[d] = call[d] PROVE CallKnown(d)'
  <2>1. CallKnown(d)
    BY DEF WhereInv
  <2>2. CASE page'.addressId = page.addressId
    BY <1>1, <1>3, <2>1, <2>2 DEF CallKnown
  <2>3. CASE page'.addressId = None /\ Idle(Page)
    <3>1. call[d].kind \notin {"create", "prove"}
      BY <2>1, <2>3 DEF CallKnown, Idle
    <3> QED BY <1>1, <1>3, <2>1, <3>1 DEF CallKnown
  <2> QED BY <2>2, <2>3
<1> QED BY <1>2, <1>3 DEF WhereInv

LEMMA NothingToKnow ==
    ASSUME NEW c \in Callers, call'[c].kind \notin {"create", "update", "delete", "prove"}
    PROVE  CallKnown(c)'
BY DEF CallKnown

(* Requests that end, or that are about devices.                           *)
LEMMA OthersKeepWhere ==
    ASSUME RecInv, WhereInv, NEW c \in Callers, OnDevice(c) \/ DocumentFails(c) \/ Fail(c)
    PROVE  WhereInv'
<1>1. UNCHANGED <<address, page>> /\ voter'.area = voter.area
  <2>1. CASE CommitEnrol(c)
    BY <2>1 DEF CommitEnrol, RecInv, TypeOK
  <2> QED BY <2>1 DEF OnDevice, ReadForEnrol, WriteEnrol, Revoke, DocumentFails, Fail
<1>2. /\ \A d \in Callers : d # c => call'[d] = call[d]
      /\ call'[c] = call[c] \/ call'[c].kind \in {"idle", "enrol"}
  <2>1. CASE DocumentFails(c) \/ Fail(c) \/ CommitEnrol(c)
    <3>1. Goes(c, NoCall)
      BY <2>1 DEF DocumentFails, Fail, CommitEnrol
    <3> QED BY <3>1, OthersStay, NoCallFits DEF RecInv
  <2>2. CASE \E k \in DOMAIN key : Revoke(c, k)
    BY <2>2 DEF Revoke
  <2> QED BY <2>1, <2>2, EnrolRead, EnrolDecides DEF OnDevice
<1>3. \A d \in Callers : call'[d] = call[d] \/ CallKnown(d)'
  BY <1>2, NothingToKnow
<1> QED BY <1>1, <1>3, RowsStayKnown

LEMMA PageKeepsWhere ==
    ASSUME RecInv, WhereInv, PageSteps PROVE WhereInv'
<1>1. UNCHANGED <<voter, address, call>>
  BY PageKeeps
<1>2. page'.addressId = page.addressId \/ (page'.addressId = None /\ Idle(Page))
  BY DEF PageSteps, SetAddressField, StartEnrollment, Poll, Cancel, RecInv, TypeOK
<1> QED BY <1>1, <1>2, RowsStayKnown

(* Requests that read or write, and have not committed.                    *)
LEMMA CreateKnows ==
    ASSUME PageFiles, RecInv, WhereInv, NEW c \in Callers,
           NEW type \in Kinds, NEW area \in Areas \cup {None}, CreateAddress(c, type, area)
    PROVE  WhereInv'
<1>1. c = Page /\ page.addressId = None /\ type \in {"LOCAL_CURRENT", "OVERSEAS"}
  BY RecordsAssumption DEF PageFiles, CreateAddress, Start, Types
<1>2. PICK a \in AddressIds \ Live :
        Goes(c, [NoCall EXCEPT !.kind = "create", !.stage = "decided", !.on = a,
                               !.seen = [type |-> type, status |-> "PENDING", area |-> area],
                               !.demotes = OfType("LOCAL_CURRENT")])
  BY <1>1 DEF CreateAddress, Demotes
<1> DEFINE q == [NoCall EXCEPT !.kind = "create", !.stage = "decided", !.on = a,
                               !.seen = [type |-> type, status |-> "PENDING", area |-> area],
                               !.demotes = OfType("LOCAL_CURRENT")]
<1>3. /\ q.kind = "create" /\ q.seen.type = type /\ q.seen.area = area
      /\ q.demotes = OfType("LOCAL_CURRENT")
  BY DEF NoCall
<1>4. Goes(c, q)
  BY <1>2
<1>5. UNCHANGED <<voter, address, page>> /\ (type # "OVERSEAS" => area # None)
  BY DEF CreateAddress
<1> HIDE DEF q
<1>6. call'[c] = q /\ \A d \in Callers : d # c => call'[d] = call[d]
  BY <1>4, OthersStay
<1>7. OfType("LOCAL_CURRENT")' = OfType("LOCAL_CURRENT")
  BY <1>5 DEF OfType, Live
<1>8. CallKnown(c)'
  BY <1>1, <1>3, <1>5, <1>6, <1>7 DEF CallKnown
<1> QED BY <1>5, <1>6, <1>8, RowsStayKnown

LEMMA UpdateKnows ==
    ASSUME PageFiles, RecInv, WhereInv, NEW c \in Callers,
           \/ \E a \in AddressIds, sends \in Patches : ReadForUpdate(c, a, sends)
           \/ WriteUpdate(c)
    PROVE  WhereInv'
<1>1. UNCHANGED <<voter, address, page>>
  BY DEF ReadForUpdate, WriteUpdate
<1>2. Live' = Live /\ OfType("LOCAL_CURRENT")' = OfType("LOCAL_CURRENT")
  BY <1>1 DEF Live, OfType
<1>3. ASSUME NEW a \in AddressIds, NEW sends \in Patches, ReadForUpdate(c, a, sends)
      PROVE  (\A d \in Callers : d # c => call'[d] = call[d]) /\ CallKnown(c)'
  <2> DEFINE q == [NoCall EXCEPT !.kind = "update", !.on = a, !.sends = sends, !.seen = address[a]]
  <2>1. /\ q.kind = "update" /\ q.on = a /\ q.sends = sends /\ q.seen = address[a]
        /\ q.demotes = {}
    BY DEF NoCall
  <2>2. Goes(c, q) /\ a \in Live /\ c \in Alone /\ sends.type \in {"OVERSEAS", Same}
    BY <1>3 DEF ReadForUpdate, Start, PageFiles
  <2> HIDE DEF q
  <2>3. call'[c] = q /\ \A d \in Callers : d # c => call'[d] = call[d]
    BY <2>2, OthersStay
  <2> QED BY <1>1, <1>2, <2>1, <2>2, <2>3 DEF CallKnown
<1>4. ASSUME WriteUpdate(c)
      PROVE  (\A d \in Callers : d # c => call'[d] = call[d]) /\ CallKnown(c)'
  <2> DEFINE ds == IF call[c].sends.type \in {"LOCAL_CURRENT", "OVERSEAS"} \ {call[c].seen.type}
                   THEN Demotes ELSE {}
             q == [call[c] EXCEPT !.stage = "decided", !.demotes = ds]
  <2>1. Goes(c, q) /\ call[c].kind = "update"
    BY <1>4 DEF WriteUpdate
  <2>2. call[c] \in CallStates /\ CallKnown(c)
    BY DEF RecInv, TypeOK, WhereInv
  <2>3. ds \subseteq OfType("LOCAL_CURRENT") /\ (call[c].sends.type = Same => ds = {})
    BY RecordsAssumption DEF Types, Demotes
  <2> HIDE DEF ds
  <2>4. /\ q.kind = "update" /\ q.on = call[c].on /\ q.sends = call[c].sends
        /\ q.seen = call[c].seen /\ q.demotes = ds
    BY <2>1, <2>2 DEF CallStates
  <2> HIDE DEF q
  <2>5. call'[c] = q /\ \A d \in Callers : d # c => call'[d] = call[d]
    BY <2>1, OthersStay
  <2> QED BY <1>1, <1>2, <2>1, <2>2, <2>3, <2>4, <2>5 DEF CallKnown
<1> QED BY <1>1, <1>3, <1>4, RowsStayKnown

LEMMA DeleteReadKnows ==
    ASSUME PageFiles, RecInv, WhereInv, NEW c \in Callers,
           NEW a \in AddressIds, ReadForDelete(c, a)
    PROVE  WhereInv'
<1> DEFINE q == [NoCall EXCEPT !.kind = "delete", !.on = a]
<1>1. q.kind = "delete" /\ q.on = a
  BY DEF NoCall
<1>2. /\ Goes(c, q) /\ UNCHANGED <<voter, address, page>> /\ a \in OfType("PAST")
      /\ c \in Alone
  BY DEF ReadForDelete, Start, PageFiles
<1> HIDE DEF q
<1>3. call'[c] = q /\ \A d \in Callers : d # c => call'[d] = call[d]
  BY <1>2, OthersStay
<1>4. OfType("PAST")' = OfType("PAST")
  BY <1>2 DEF OfType, Live
<1>5. CallKnown(c)'
  BY <1>1, <1>2, <1>3, <1>4 DEF CallKnown
<1> QED BY <1>2, <1>3, <1>5, RowsStayKnown

LEMMA ProofKnows ==
    ASSUME PageFiles, RecInv, WhereInv, NEW c \in Callers,
           (\E a \in AddressIds : ReadForProof(c, a)) \/ WriteProof(c)
    PROVE  WhereInv'
<1>1. UNCHANGED <<voter, address>> /\ page'.addressId = page.addressId
  BY DEF ReadForProof, WriteProof, RecInv, TypeOK
<1>2. Live' = Live
  BY <1>1 DEF Live
<1>3. ASSUME NEW a \in AddressIds, ReadForProof(c, a)
      PROVE  /\ \A d \in Callers : d # c => call'[d] = call[d]
             /\ call'[c] = call[c] \/ CallKnown(c)'
  <2> DEFINE q == [NoCall EXCEPT !.kind = "prove", !.on = a, !.seen = address[a]]
  <2>1. q.kind = "prove" /\ q.on = a /\ q.seen = address[a] /\ q.demotes = {}
    BY DEF NoCall
  <2>2. /\ UNCHANGED call \/ Goes(c, q)
        /\ a \in Live /\ c = Page /\ a = page.addressId
    BY <1>3 DEF ReadForProof, Start, PageFiles
  <2> HIDE DEF q
  <2>3. CASE Goes(c, q)
    <3>1. call'[c] = q /\ \A d \in Callers : d # c => call'[d] = call[d]
      BY <2>3, OthersStay
    <3> QED BY <1>1, <1>2, <2>1, <2>2, <3>1 DEF CallKnown
  <2> QED BY <2>2, <2>3
<1>4. ASSUME WriteProof(c)
      PROVE  (\A d \in Callers : d # c => call'[d] = call[d]) /\ CallKnown(c)'
  <2> DEFINE acts == /\ voter.status = "PENDING"
                     /\ Ready(ActiveAddresses \cup {call[c].on}, ActiveKeys)
             q == [call[c] EXCEPT !.stage = "decided", !.activates = acts]
  <2>1. Goes(c, q) /\ call[c].kind = "prove"
    BY <1>4 DEF WriteProof
  <2>2. call[c] \in CallStates /\ CallKnown(c)
    BY DEF RecInv, TypeOK, WhereInv
  <2> HIDE DEF acts
  <2>3. /\ q.kind = "prove" /\ q.on = call[c].on /\ q.seen = call[c].seen
        /\ q.demotes = call[c].demotes
    BY <2>1, <2>2 DEF CallStates
  <2> HIDE DEF q
  <2>4. call'[c] = q /\ \A d \in Callers : d # c => call'[d] = call[d]
    BY <2>1, OthersStay
  <2> QED BY <1>1, <1>2, <2>1, <2>2, <2>3, <2>4 DEF CallKnown
<1> QED BY <1>1, <1>3, <1>4, RowsStayKnown

(* Of the requests about addresses, one is under way at a time.            *)
LEMMA OneOnAddresses ==
    ASSUME RecInv, WhereInv, KeepApart, NEW c \in Callers, NEW d \in Callers, c # d,
           call[c].kind \in {"create", "update", "delete", "prove"}
    PROVE  call[d].kind \notin {"create", "update", "delete", "prove"}
<1>1. \A e \in Callers : /\ call[e].kind \in {"create", "prove"} => e = Page
                         /\ call[e].kind \in {"update", "delete"} => e \in Alone
  BY DEF WhereInv, CallKnown
<1> QED BY <1>1 DEF KeepApart

LEMMA AloneOnAddresses ==
    ASSUME RecInv, WhereInv, KeepApart, NEW c \in Callers, Goes(c, NoCall),
           call[c].kind \in {"create", "update", "delete", "prove"}
    PROVE  \A d \in Callers : CallKnown(d)'
<1>1. call'[c].kind = "idle" /\ \A d \in Callers : d # c => call'[d] = call[d]
  BY OthersStay, NoCallFits DEF RecInv
<1>2. \A d \in Callers : call'[d].kind \notin {"create", "update", "delete", "prove"}
  BY <1>1, OneOnAddresses
<1> QED BY <1>2, NothingToKnow

LEMMA DeleteKeepsWhere ==
    ASSUME RecInv, WhereInv, KeepApart, NEW c \in Callers, Delete(c)
    PROVE  WhereInv'
<1> DEFINE a == call[c].on
<1>1. /\ call[c].kind = "delete" /\ Goes(c, NoCall) /\ UNCHANGED <<voter, page>>
      /\ address' = [address EXCEPT ![a] = None]
  BY DEF Delete
<1>2. a \in OfType("PAST") /\ a \in Live
  BY <1>1 DEF WhereInv, CallKnown, OfType
<1> HIDE DEF a
<1>3. /\ address'[a] = None /\ \A b \in AddressIds : b # a => address'[b] = address[b]
      /\ a \in AddressIds /\ address[a].type = "PAST"
  BY <1>1, <1>2 DEF RecInv, TypeOK, Live, OfType
<1>4. Live' = Live \ {a}
  BY <1>3 DEF Live
<1>5. /\ OfType("LOCAL_CURRENT")' = OfType("LOCAL_CURRENT")
      /\ OfType("OVERSEAS")' = OfType("OVERSEAS")
  BY <1>3, <1>4 DEF OfType, Live
<1>6. \A b \in Live' : b \in Live /\ address'[b] = address[b]
  BY <1>3, <1>4 DEF Live
<1>7. \A b \in OfType("LOCAL_CURRENT") : address'[b] = address[b]
  BY <1>3 DEF OfType, Live
<1>8. CurrentKnown'
  BY <1>1, <1>5, <1>6, <1>7 DEF WhereInv, CurrentKnown
<1> QED BY <1>1, <1>8, AloneOnAddresses DEF WhereInv

(* The rows after the commit.                                              *)
LEMMA RowsAfterCommit ==
    ASSUME RecInv, NEW c \in Callers, CommitAddress(c)
    PROVE  /\ call[c].on \in AddressIds /\ call[c].on \in Live'
           /\ address'[call[c].on] = RowAfter(call[c])
           /\ \A a \in Live' : a # call[c].on =>
                /\ a \in Live /\ address'[a].area = address[a].area
                /\ address'[a].type = IF a \in call[c].demotes THEN "PAST" ELSE address[a].type
           /\ Live \subseteq Live' /\ Live' \subseteq AddressIds
<1> DEFINE r == call[c]
<1>1. /\ Live' = Live \cup {r.on} /\ r.on \in AddressIds
  BY CommitAddressEffect
<1>2. address' = [a \in AddressIds |->
                    IF a = r.on THEN RowAfter(r)
                    ELSE IF a \in r.demotes THEN [address[a] EXCEPT !.type = "PAST"]
                    ELSE address[a]]
  BY DEF CommitAddress
<1>3. \A a \in Live : address[a] \in Rows /\ a \in AddressIds
  BY DEF Live, RecInv, TypeOK
<1> HIDE DEF r
<1>4. address'[r.on] = RowAfter(r)
  BY <1>1, <1>2
<1>5. ASSUME NEW a \in Live', a # r.on
      PROVE  /\ a \in Live /\ address'[a].area = address[a].area
             /\ address'[a].type = IF a \in r.demotes THEN "PAST" ELSE address[a].type
  <2>1. a \in Live /\ a \in AddressIds /\ address[a] \in Rows
    BY <1>1, <1>3, <1>5
  <2>2. address'[a] = IF a \in r.demotes THEN [address[a] EXCEPT !.type = "PAST"] ELSE address[a]
    BY <1>2, <1>5, <2>1
  <2>3. /\ [address[a] EXCEPT !.type = "PAST"].type = "PAST"
        /\ [address[a] EXCEPT !.type = "PAST"].area = address[a].area
    BY <2>1 DEF Rows
  <2> QED BY <2>1, <2>2, <2>3
<1> QED BY <1>1, <1>3, <1>4, <1>5 DEF r

LEMMA CommitCreateWhere ==
    ASSUME RecInv, WhereInv, NEW c \in Callers, CommitAddress(c), call[c].kind = "create"
    PROVE  CurrentKnown'
<1> DEFINE r == call[c]
           cur == OfType("LOCAL_CURRENT")
<1>1. /\ page.addressId = None /\ r.seen.type \in {"LOCAL_CURRENT", "OVERSEAS"}
      /\ r.seen.type # "OVERSEAS" => r.seen.area # None
      /\ r.demotes = cur
  BY DEF WhereInv, CallKnown
<1>2. address'[r.on] = r.seen
  BY RowsAfterCommit DEF RowAfter
<1>3. r.on \notin Live
  BY DEF CommitAddress, RecInv, CallsFit, HoldsFit
<1>4. voter'.area = AreaAfter(r) /\ page'.addressId \in {page.addressId, r.on}
  BY DEF CommitAddress, RecInv, TypeOK
<1>5. /\ r.on \in AddressIds /\ r.on \in Live'
      /\ \A a \in Live' : a # r.on =>
           /\ a \in Live /\ address'[a].area = address[a].area
           /\ address'[a].type = IF a \in cur THEN "PAST" ELSE address[a].type
      /\ Live \subseteq Live' /\ Live' \subseteq AddressIds
  BY <1>1, RowsAfterCommit
<1>6. \A a \in Live : address[a].type = "LOCAL_CURRENT" => a \in cur
  BY DEF OfType
<1>7. \A a \in cur : a \in Live /\ address[a].type = "LOCAL_CURRENT"
  BY DEF OfType
<1>8. \A a \in Live : address[a].type # "OVERSEAS" => address[a].area # None
  BY DEF WhereInv, CurrentKnown
<1>9. r.seen.type = "LOCAL_CURRENT" => AreaAfter(r) = r.seen.area
  BY <1>1 DEF AreaAfter
<1> HIDE DEF r, cur
<1>10. \A a \in OfType("LOCAL_CURRENT")' : a = r.on /\ r.seen.type = "LOCAL_CURRENT"
  BY <1>2, <1>5, <1>6 DEF OfType
<1>11. \A a \in Live' : address'[a].type # "OVERSEAS" => address'[a].area # None
  BY <1>1, <1>2, <1>5, <1>7, <1>8
<1>12. r.seen.type = "OVERSEAS" => OfType("OVERSEAS")' # {}
  BY <1>2, <1>5 DEF OfType
<1>13. r.seen.type = "LOCAL_CURRENT" => r.on \in OfType("LOCAL_CURRENT")'
  BY <1>2, <1>5 DEF OfType
<1> QED BY <1>1, <1>2, <1>4, <1>9, <1>10, <1>11, <1>12, <1>13 DEF CurrentKnown

LEMMA CommitProofWhere ==
    ASSUME RecInv, WhereInv, NEW c \in Callers, CommitAddress(c), call[c].kind = "prove"
    PROVE  CurrentKnown'
<1> DEFINE r == call[c]
<1>1. r.on = page.addressId /\ r.on \in Live /\ r.seen = address[r.on] /\ r.demotes = {}
  BY DEF WhereInv, CallKnown
<1>2. RowAfter(r) = [address[r.on] EXCEPT !.status = "ACTIVE"] /\ address[r.on] \in Rows
  BY <1>1 DEF RowAfter, RecInv, TypeOK, Live
<1>3. address'[r.on] = RowAfter(r)
  BY RowsAfterCommit
<1>4. address'[r.on].type = address[r.on].type /\ address'[r.on].area = address[r.on].area
  BY <1>2, <1>3 DEF Rows
<1>5. /\ \A a \in Live' : a # r.on =>
           a \in Live /\ address'[a].area = address[a].area /\ address'[a].type = address[a].type
      /\ Live \subseteq Live' /\ Live' \subseteq AddressIds
  BY <1>1, RowsAfterCommit
<1>6. voter'.area = AreaAfter(r) /\ page'.addressId = page.addressId
  BY DEF CommitAddress, RecInv, TypeOK
<1>7. AreaAfter(r) = IF r.seen.type = "OVERSEAS" THEN "Overseas"
                     ELSE IF r.seen.area = None THEN voter.area ELSE r.seen.area
  BY DEF AreaAfter
<1>8. r.on # None
  BY <1>1, RecordsAssumption DEF Live
<1> HIDE DEF r
<1>9. \A a \in Live' : a \in Live /\ address'[a].area = address[a].area
                                 /\ address'[a].type = address[a].type
  BY <1>1, <1>4, <1>5
<1>10. /\ OfType("LOCAL_CURRENT")' = OfType("LOCAL_CURRENT")
       /\ OfType("OVERSEAS")' = OfType("OVERSEAS")
  BY <1>5, <1>9 DEF OfType
<1>11. CurrentKnown
  BY DEF WhereInv
<1>12. OfType("OVERSEAS") = {} =>
         /\ r.on \in OfType("LOCAL_CURRENT") /\ r.seen.type = "LOCAL_CURRENT"
         /\ r.seen.area # None
  BY <1>1, <1>8, <1>11 DEF CurrentKnown, OfType
<1>13. \A a \in OfType("LOCAL_CURRENT") : address'[a].area = address[a].area
  BY <1>5, <1>9 DEF OfType
<1>14. OfType("OVERSEAS") = {} =>
         \A a \in OfType("LOCAL_CURRENT") : voter'.area = address'[a].area
  BY <1>1, <1>6, <1>7, <1>11, <1>12, <1>13 DEF CurrentKnown
<1> QED BY <1>6, <1>9, <1>10, <1>11, <1>14 DEF CurrentKnown

LEMMA CommitUpdateWhere ==
    ASSUME RecInv, WhereInv, NEW c \in Callers, CommitAddress(c), call[c].kind = "update"
    PROVE  CurrentKnown'
<1> DEFINE r == call[c]
<1>1. /\ r.on \in Live /\ r.seen = address[r.on] /\ r.sends.type \in {"OVERSEAS", Same}
      /\ r.demotes \subseteq OfType("LOCAL_CURRENT") /\ (r.sends.type = Same => r.demotes = {})
  BY DEF WhereInv, CallKnown
<1>2. /\ Same \notin Types /\ Same \notin Areas /\ None \notin Areas
      /\ r.sends.area \in Areas \cup {Same}
  BY RecordsAssumption DEF RecInv, TypeOK, CallStates, Sent
<1>3. address'[r.on] = RowAfter(r)
  BY RowsAfterCommit
<1>4. /\ RowAfter(r).type = Laid(r.sends.type, address[r.on].type)
      /\ RowAfter(r).area = Laid(r.sends.area, address[r.on].area)
  BY DEF RowAfter
<1>5. /\ r.on \in Live'
      /\ \A a \in Live' : a # r.on =>
           /\ a \in Live /\ address'[a].area = address[a].area
           /\ address'[a].type = IF a \in r.demotes THEN "PAST" ELSE address[a].type
      /\ Live \subseteq Live' /\ Live' \subseteq AddressIds
  BY RowsAfterCommit
<1>6. voter'.area = AreaAfter(r) /\ page'.addressId = page.addressId
  BY DEF CommitAddress, RecInv, TypeOK
<1>7. AreaAfter(r) = IF "LOCAL_CURRENT" \in {r.sends.type, r.seen.type} /\ r.sends.area # Same
                     THEN r.sends.area
                     ELSE IF r.sends.type = "OVERSEAS" THEN "Overseas" ELSE voter.area
  BY DEF AreaAfter
<1>8. CurrentKnown
  BY DEF WhereInv
<1>9. \A a \in Live : address[a].type # "OVERSEAS" => address[a].area # None
  BY <1>8 DEF CurrentKnown
<1> HIDE DEF r
<1>10. CASE r.sends.type = "OVERSEAS"
  <2>1. address'[r.on].type = "OVERSEAS"
    BY <1>2, <1>3, <1>4, <1>10 DEF Laid, Types
  <2>2. r.on \in OfType("OVERSEAS")'
    BY <1>5, <2>1 DEF OfType
  <2>3. \A a \in OfType("LOCAL_CURRENT")' : a \in OfType("LOCAL_CURRENT")
    BY <1>5, <2>1 DEF OfType
  <2>4. \A a \in Live' : address'[a].type # "OVERSEAS" => address'[a].area # None
    <3>1. ASSUME NEW a \in Live', address'[a].type # "OVERSEAS", a # r.on
          PROVE  address'[a].area # None
      <4>1. a \in Live /\ address[a].type # "OVERSEAS"
        BY <1>1, <1>5, <3>1 DEF OfType
      <4> QED BY <1>5, <1>9, <3>1, <4>1
    <3> QED BY <2>1, <3>1
  <2> QED BY <1>8, <2>2, <2>3, <2>4 DEF CurrentKnown
<1>11. CASE r.sends.type = Same
  <2>1. address'[r.on].type = address[r.on].type
    BY <1>3, <1>4, <1>11 DEF Laid
  <2>2. address'[r.on].area = IF r.sends.area = Same THEN address[r.on].area ELSE r.sends.area
    BY <1>3, <1>4 DEF Laid
  <2>3. \A a \in Live' : a \in Live /\ address'[a].type = address[a].type
    BY <1>1, <1>5, <1>11, <2>1
  <2>4. /\ OfType("LOCAL_CURRENT")' = OfType("LOCAL_CURRENT")
        /\ OfType("OVERSEAS")' = OfType("OVERSEAS")
    BY <1>5, <2>3 DEF OfType
  <2>5. \A a \in Live' : address'[a].type # "OVERSEAS" => address'[a].area # None
    BY <1>1, <1>2, <1>5, <1>9, <2>1, <2>2, <2>3
  <2>6. ASSUME OfType("OVERSEAS") = {}, NEW a \in OfType("LOCAL_CURRENT")
        PROVE  voter'.area = address'[a].area
    <3>1. voter.area = address[a].area /\ a \in Live /\ address[a].type = "LOCAL_CURRENT"
      BY <1>8, <2>6 DEF CurrentKnown, OfType
    <3>2. CASE a = r.on
      BY <1>1, <1>6, <1>7, <1>11, <2>2, <3>1, <3>2, <1>2 DEF Types
    <3>3. CASE a # r.on
      <4>1. r.on \notin OfType("LOCAL_CURRENT")
        BY <1>8, <2>6, <3>3 DEF CurrentKnown
      <4>2. r.seen.type # "LOCAL_CURRENT" /\ r.sends.type \notin {"LOCAL_CURRENT", "OVERSEAS"}
        BY <1>1, <1>2, <1>11, <4>1 DEF OfType, Types
      <4> QED BY <1>5, <1>6, <1>7, <3>1, <3>3, <4>2
    <3> QED BY <3>2, <3>3
  <2> QED BY <1>6, <1>8, <2>4, <2>5, <2>6 DEF CurrentKnown
<1> QED BY <1>1, <1>10, <1>11

LEMMA NextKeepsWhere ==
    ASSUME PageFiles, RecInv, KeepApart, WhereInv, [Next]_recordVars PROVE WhereInv'
<1>1. ASSUME NEW c \in Callers, CommitAddress(c) PROVE WhereInv'
  <2>1. call[c].kind \in {"create", "update", "prove"} /\ Goes(c, NoCall)
    BY <1>1 DEF CommitAddress
  <2> QED BY <1>1, <2>1, AloneOnAddresses, CommitCreateWhere, CommitProofWhere, CommitUpdateWhere
          DEF WhereInv
<1>2. ASSUME NEW c \in Callers, OnAddress(c) PROVE WhereInv'
  <2>1. CASE \E type \in Kinds, area \in Areas \cup {None} : CreateAddress(c, type, area)
    BY <2>1, CreateKnows
  <2>2. CASE \E a \in AddressIds : ReadForDelete(c, a) \/ ReadForProof(c, a)
    BY <2>2, DeleteReadKnows, ProofKnows
  <2>3. CASE \E a \in AddressIds, sends \in Patches : ReadForUpdate(c, a, sends)
    BY <2>3, UpdateKnows
  <2> QED BY <1>1, <1>2, <2>1, <2>2, <2>3, UpdateKnows, ProofKnows, OthersKeepWhere,
             DeleteKeepsWhere DEF OnAddress
<1>3. CASE UNCHANGED recordVars
  BY <1>3, RowsStayKnown DEF recordVars
<1> QED BY <1>2, <1>3, OthersKeepWhere, PageKeepsWhere DEF Next, PageSteps

-----------------------------------------------------------------------------
(* Every behaviour of addresses, credentials and the page is well typed.   *)
THEOREM TypeCorrect == Spec => []TypeOK
<1>1. RecInv => TypeOK
  BY DEF RecInv
<1> QED BY <1>1, InitHolds, NextKeepsRec, PTL DEF Spec

(* A voter with a proved address and an enrolled device is active, unless  *)
(* the two were decided side by side, for any callers and however their    *)
(* requests overlap and fail, as long as no PATCH sets an address ACTIVE   *)
(* (voter_service.py:354-411).                                             *)
THEOREM ReadyBecomesActive == NoStatusSent /\ Spec => []ReadyIsActive
<1>1. RecInv /\ ReadyInv => ReadyIsActive
  BY DEF RecInv, TypeOK, ReadyInv, ReadyIsActive
<1>2. SUFFICES ASSUME NoStatusSent PROVE Spec => []ReadyIsActive
  OBVIOUS
<1>3. RecInv /\ ReadyInv /\ [Next]_recordVars => RecInv' /\ ReadyInv'
  BY <1>2, NextKeepsRec, NextKeepsReady
<1>4. Init => RecInv /\ ReadyInv
  BY InitHolds
<1> QED BY <1>1, <1>3, <1>4, PTL DEF Spec

(* Nobody is activated by one half alone, as long as whoever revokes       *)
(* devices, edits or deletes addresses does nothing else meanwhile         *)
(* (voter_service.py:354-411, biometric_service.py:316-361).               *)
THEOREM ActivationNeedsBoth == RemovesAlone /\ Spec => ActivatedByBoth
<1>1. SUFFICES ASSUME RemovesAlone PROVE Spec => ActivatedByBoth
  OBVIOUS
<1> DEFINE Inv == RecInv /\ KeepApart /\ HalvesThere
<1>2. Inv /\ [Next]_recordVars => Inv'
  BY <1>1, NextKeepsRec, NextKeepsApart, NextKeepsHalves
<1>3. Init => Inv
  BY InitHolds
<1>4. Inv /\ [Next]_recordVars =>
        [voter.status = "PENDING" /\ voter'.status = "ACTIVE"
           => ActiveAddresses' # {} /\ ActiveKeys' # {}]_recordVars
  BY ActivationHasBoth
<1> QED BY <1>2, <1>3, <1>4, PTL DEF Spec, ActivatedByBoth

(* One device signs for a voter whose enrolments come one after the other, *)
(* whatever else goes on (biometric_service.py:82-97).                     *)
THEOREM OneDeviceEach == OneEnroller /\ Spec => []OneDeviceSigns
<1>1. RecInv /\ DeviceInv => OneDeviceSigns
  <2>1. ASSUME RecInv, DeviceInv PROVE Cardinality(ActiveKeys) <= 1
    <3>1. CASE ActiveKeys = {}
      BY <3>1, FS_EmptySet
    <3>2. CASE ActiveKeys # {}
      <4>1. PICK k \in ActiveKeys : ActiveKeys = {k}
        BY <2>1, <3>2 DEF DeviceInv
      <4>2. Cardinality({k}) = 1
        BY FS_Singleton
      <4> QED BY <4>1, <4>2
    <3> QED BY <3>1, <3>2
  <2> QED BY <2>1 DEF OneDeviceSigns
<1>2. SUFFICES ASSUME OneEnroller PROVE Spec => []OneDeviceSigns
  OBVIOUS
<1>3. RecInv /\ DeviceInv /\ [Next]_recordVars => RecInv' /\ DeviceInv'
  BY <1>2, NextKeepsRec, NextKeepsDevice
<1>4. Init => RecInv /\ DeviceInv
  BY InitHolds
<1> QED BY <1>1, <1>3, <1>4, PTL DEF Spec

(* A voter has one current local address and votes where it is, unless an  *)
(* address is abroad: for any number of addresses and constituencies, as   *)
(* long as the page alone adds and proves them, and whoever edits or       *)
(* deletes them does so alone and makes none of them current               *)
(* (address_service.py:95-262).                                            *)
THEOREM WhereCurrentIsVoted == PageFiles /\ Spec => []VotesWhereCurrent
<1>1. WhereInv => VotesWhereCurrent
  <2>1. ASSUME WhereInv PROVE Cardinality(OfType("LOCAL_CURRENT")) <= 1
    <3>1. CASE OfType("LOCAL_CURRENT") = {}
      BY <3>1, FS_EmptySet
    <3>2. CASE OfType("LOCAL_CURRENT") # {}
      <4>1. PICK a \in OfType("LOCAL_CURRENT") : OfType("LOCAL_CURRENT") = {a}
        BY <2>1, <3>2 DEF WhereInv, CurrentKnown
      <4>2. Cardinality({a}) = 1
        BY FS_Singleton
      <4> QED BY <4>1, <4>2
    <3> QED BY <3>1, <3>2
  <2> QED BY <2>1 DEF VotesWhereCurrent, WhereInv, CurrentKnown
<1>2. SUFFICES ASSUME PageFiles PROVE Spec => []VotesWhereCurrent
  OBVIOUS
<1> DEFINE Inv == RecInv /\ KeepApart /\ WhereInv
<1>3. Inv /\ [Next]_recordVars => Inv'
  BY <1>2, NextKeepsRec, NextKeepsApart, NextKeepsWhere
<1>4. Init => Inv
  <2>1. ASSUME Init PROVE WhereInv
    <3>1. Live = {} /\ \A t : OfType(t) = {}
      BY <2>1 DEF Init, Live, OfType
    <3>2. \A c \in Callers : call[c].kind = "idle"
      BY <2>1 DEF Init, NoCall
    <3> QED BY <2>1, <3>1, <3>2 DEF Init, WhereInv, CurrentKnown, CallKnown
  <2> QED BY <2>1, InitHolds
<1>5. Inv => VotesWhereCurrent
  BY <1>1
<1> QED BY <1>3, <1>4, <1>5, PTL DEF Spec
=============================================================================
