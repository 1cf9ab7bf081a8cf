----------------------------- MODULE VoterRecords -----------------------------
(***************************************************************************)
(* What becomes of a voter after the row exists: addresses, device         *)
(* credentials, and the activation that needs one of each (address_service,*)
(* the routes of voter_route.py, biometric_service, voter_service), as the *)
(* registration page and the voter's phone drive them.                     *)
(*                                                                         *)
(* One voter: nothing here reads another's rows.  A request reads, decides *)
(* while it writes, and commits; what it writes is seen by others once it  *)
(* has committed.  From its writes to the commit it holds the address rows *)
(* it has written.                                                         *)
(***************************************************************************)
EXTENDS Naturals, FiniteSets, Sequences

CONSTANTS
    AddressIds,
    MaxKeys,        \* bound on the credentials ever enrolled
    Areas,          \* constituencies of the postcodes in use
    Callers, Page,  \* who sends requests; Page is the registration page
    May,            \* kinds of request each sends
    Kinds,          \* address types asked for
    Patches,        \* what PATCH requests send
    Alone,          \* callers whose requests overlap with no other
    None, Same

Types == {"LOCAL_CURRENT", "OVERSEAS", "PAST"}
Rows == [type : Types, status : {"PENDING", "ACTIVE"}, area : Areas \cup {None}]
Sent == [type : Types \cup {Same}, status : {"PENDING", "ACTIVE", Same}, area : Areas \cup {Same}]
Requests == {"create", "update", "delete", "prove", "enrol", "revoke"}

ASSUME RecordsAssumption ==
    /\ MaxKeys \in Nat /\ Alone \subseteq Callers /\ Page \in Callers
    /\ May \in [Callers -> SUBSET Requests] /\ Kinds \subseteq Types /\ Patches \subseteq Sent
    /\ None \notin Areas \cup AddressIds \cup Rows /\ Same \notin Areas \cup Types

VARIABLES
    voter,      \* voter_status and constituency_id
    address,    \* committed rows
    key,        \* device credentials in the order they were created
    call,       \* the request of each caller
    page,       \* what the registration page remembers
    crossed     \* history: a proof and an enrolment decided side by side

recordVars == <<voter, address, key, call, page, crossed>>

CallStates ==
    [kind : Requests \cup {"idle"}, stage : {"read", "decided"},
     on : AddressIds \cup {None}, sends : Sent,
     seen : Rows \cup {None},          \* the address as it was read
     demotes : SUBSET AddressIds,      \* current addresses it makes past ones
     retires : SUBSET (1 .. MaxKeys),  \* credentials it deactivates
     activates : BOOLEAN]

AsIs == [type |-> Same, status |-> Same, area |-> Same]
NoCall == [kind |-> "idle", stage |-> "read", on |-> None, sends |-> AsIs, seen |-> None,
           demotes |-> {}, retires |-> {}, activates |-> FALSE]

TypeOK ==
    /\ voter \in [status : {"PENDING", "ACTIVE"}, area : Areas \cup {None, "Overseas"}]
    /\ address \in [AddressIds -> Rows \cup {None}]
    /\ \E n \in 0 .. MaxKeys : key \in [1 .. n -> BOOLEAN]
    /\ call \in [Callers -> CallStates]
    /\ page \in [addressId : AddressIds \cup {None}, addressVerified : BOOLEAN,
                 polling : BOOLEAN, biometricEnrolled : BOOLEAN]
    /\ crossed \in BOOLEAN

Live == {a \in AddressIds : address[a] # None}
OfType(t) == {a \in Live : address[a].type = t}
ActiveKeys == {k \in DOMAIN key : key[k]}
Idle(c) == call[c].kind = "idle"

Init ==
    /\ voter = [status |-> "PENDING", area |-> None]
    /\ address = [a \in AddressIds |-> None]
    /\ key = <<>>
    /\ call = [c \in Callers |-> NoCall]
    /\ page = [addressId |-> None, addressVerified |-> FALSE,
               polling |-> FALSE, biometricEnrolled |-> FALSE]
    /\ crossed = FALSE

Start(c, kind) ==
    /\ Idle(c) /\ kind \in May[c]
    /\ \A d \in Callers : Idle(d) \/ {c, d} \cap Alone = {}

Goes(c, request) == call' = [call EXCEPT ![c] = request]

(* The rows an UPDATE of another transaction has to wait for.              *)
Held(c) == IF call[c].stage = "decided" THEN call[c].demotes \cup {call[c].on} ELSE {}
Unlocked(c, ids) == \A d \in Callers \ {c} : Held(d) \cap ids = {}

-----------------------------------------------------------------------------
(* Addresses.                                                              *)
DemotesNone == {}   \* mutant: the current address stays a current one

Demotes == OfType("LOCAL_CURRENT")

(* The UPDATE that makes the current address a past one finds the rows     *)
(* that are committed when it runs.                                        *)
CreateAddress(c, type, area) ==
    /\ Start(c, "create") /\ type \in Kinds
    /\ type # "OVERSEAS" => area # None
    /\ c = Page => page.addressId = None /\ type # "PAST"
    /\ LET demotes == IF type = "PAST" THEN {} ELSE Demotes IN
       /\ Unlocked(c, demotes)
       /\ \E a \in AddressIds \ Live :
            /\ \A d \in Callers : call[d].on # a
            /\ Goes(c, [NoCall EXCEPT !.kind = "create", !.stage = "decided", !.on = a,
                                      !.seen = [type |-> type, status |-> "PENDING", area |-> area],
                                      !.demotes = demotes])
    /\ UNCHANGED <<voter, address, key, page, crossed>>

ReadForUpdate(c, a, sends) ==
    /\ Start(c, "update") /\ a \in Live
    /\ sends.type = "LOCAL_CURRENT" /\ address[a].type # "LOCAL_CURRENT" => sends.area # Same
    /\ Goes(c, [NoCall EXCEPT !.kind = "update", !.on = a, !.sends = sends, !.seen = address[a]])
    /\ UNCHANGED <<voter, address, key, page, crossed>>

WriteUpdate(c) ==
    LET r == call[c]
        demotes == IF r.sends.type \in {"LOCAL_CURRENT", "OVERSEAS"} \ {r.seen.type}
                   THEN Demotes ELSE {}
    IN /\ r.kind = "update" /\ r.stage = "read" /\ r.on \in Live
       /\ Unlocked(c, demotes \cup {r.on})
       /\ Goes(c, [r EXCEPT !.stage = "decided", !.demotes = demotes])
       /\ UNCHANGED <<voter, address, key, page, crossed>>

ReadForDelete(c, a) ==
    /\ Start(c, "delete") /\ a \in OfType("PAST")
    /\ Goes(c, [NoCall EXCEPT !.kind = "delete", !.on = a])
    /\ UNCHANGED <<voter, address, key, page, crossed>>

Delete(c) ==
    /\ call[c].kind = "delete" /\ call[c].on \in Live /\ Unlocked(c, {call[c].on})
    /\ address' = [address EXCEPT ![call[c].on] = None]
    /\ Goes(c, NoCall)
    /\ UNCHANGED <<voter, key, page, crossed>>

(* What the voter's constituency becomes.                                  *)
AreaAfter(r) ==
    CASE r.kind = "update" ->
           IF "LOCAL_CURRENT" \in {r.sends.type, r.seen.type} /\ r.sends.area # Same
           THEN r.sends.area
           ELSE IF r.sends.type = "OVERSEAS" THEN "Overseas" ELSE voter.area
      [] r.kind # "update" /\ r.seen.type = "OVERSEAS" -> "Overseas"
      [] r.kind = "create" /\ r.seen.type = "PAST" -> voter.area
      [] OTHER -> IF r.seen.area = None THEN voter.area ELSE r.seen.area

Laid(new, old) == IF new = Same THEN old ELSE new
RowAfter(r) ==
    CASE r.kind = "create" -> r.seen
      [] r.kind = "prove" -> [address[r.on] EXCEPT !.status = "ACTIVE"]
      [] OTHER -> [type |-> Laid(r.sends.type, address[r.on].type),
                   status |-> Laid(r.sends.status, address[r.on].status),
                   area |-> Laid(r.sends.area, address[r.on].area)]

CommitAddress(c) ==
    LET r == call[c] IN
    /\ r.kind \in {"create", "update", "prove"} /\ r.stage = "decided"
    /\ address' = [a \in AddressIds |->
                     IF a = r.on THEN RowAfter(r)
                     ELSE IF a \in r.demotes THEN [address[a] EXCEPT !.type = "PAST"]
                     ELSE address[a]]
    /\ voter' = [status |-> IF r.activates THEN "ACTIVE" ELSE voter.status, area |-> AreaAfter(r)]
    /\ \/ page' = page   \* another's request, or the answer is lost
       \/ c = Page /\ r.kind = "create" /\ page' = [page EXCEPT !.addressId = r.on]
       \/ c = Page /\ r.kind = "prove" /\ page' = [page EXCEPT !.addressVerified = TRUE]
    /\ Goes(c, NoCall)
    /\ UNCHANGED <<key, crossed>>

-----------------------------------------------------------------------------
(* Proof of address.  One that is proved already is answered as such; of a *)
(* document that does not match, only the answer tells.                    *)
ReadForProof(c, a) ==
    /\ Start(c, "prove") /\ a \in Live
    /\ c = Page => a = page.addressId /\ ~page.addressVerified
    /\ \/ /\ address[a].status = "ACTIVE"
          /\ page' = IF c = Page THEN [page EXCEPT !.addressVerified = TRUE] ELSE page
          /\ UNCHANGED call
       \/ /\ address[a].status # "ACTIVE"
          /\ Goes(c, [NoCall EXCEPT !.kind = "prove", !.on = a, !.seen = address[a]])
          /\ UNCHANGED page
    /\ UNCHANGED <<voter, address, key, crossed>>

(* What the text of a document may show of an address, and what will do.   *)
Fields(row) == {"line1", "city"} \cup IF row.area = None THEN {} ELSE {"postcode"}
Passed(found) == Cardinality(found) >= 2

DocumentFails(c) ==
    /\ call[c].kind = "prove" /\ call[c].stage = "read"
    /\ \E found \in SUBSET Fields(call[c].seen) : ~Passed(found)
    /\ Goes(c, NoCall)
    /\ UNCHANGED <<voter, address, key, page, crossed>>

(* Activation reads what is committed and what the request has written     *)
(* itself.                                                                 *)
ReadyWithoutKey(addresses, keys) == addresses # {}   \* mutant: no device is asked for

Ready(addresses, keys) == addresses # {} /\ keys # {}

ActiveAddresses == {a \in Live : address[a].status = "ACTIVE"}

(* Another request has decided on the activation and has not committed.    *)
Crosses(c) ==
    crossed' = (crossed \/ \E d \in Callers \ {c} : call[d].stage = "decided"
                                                   /\ call[d].kind \in {"prove", "enrol"})

WriteProofOnly(c) ==   \* mutant: the route does not go on to the activation
    /\ call[c].kind = "prove" /\ call[c].stage = "read" /\ call[c].on \in Live
    /\ Unlocked(c, {call[c].on})
    /\ Goes(c, [call[c] EXCEPT !.stage = "decided"])
    /\ UNCHANGED <<voter, address, key, page, crossed>>

WriteProof(c) ==
    LET r == call[c] IN
    /\ r.kind = "prove" /\ r.stage = "read" /\ r.on \in Live
    /\ \E found \in SUBSET Fields(call[c].seen) : Passed(found)
    /\ Unlocked(c, {r.on})
    /\ Goes(c, [r EXCEPT !.stage = "decided",
                         !.activates = /\ voter.status = "PENDING"
                                       /\ Ready(ActiveAddresses \cup {r.on}, ActiveKeys)])
    /\ Crosses(c)
    /\ UNCHANGED <<voter, address, key, page>>

-----------------------------------------------------------------------------
(* Devices.                                                                *)
RetiresSameDevice(keys) == {}   \* mutant: only the device's own credential is replaced

Retires(keys) == keys

ReadForEnrol(c) ==
    /\ Start(c, "enrol") /\ Len(key) < MaxKeys
    /\ Goes(c, [NoCall EXCEPT !.kind = "enrol", !.retires = Retires(ActiveKeys)])
    /\ UNCHANGED <<voter, address, key, page, crossed>>

WriteEnrol(c) ==
    LET r == call[c] IN
    /\ r.kind = "enrol" /\ r.stage = "read"
    /\ Goes(c, [r EXCEPT !.stage = "decided",
                         !.activates = /\ voter.status = "PENDING"
                                       /\ Ready(ActiveAddresses, {Len(key) + 1})])
    /\ Crosses(c)
    /\ UNCHANGED <<voter, address, key, page>>

CommitEnrol(c) ==
    LET r == call[c] IN
    /\ r.kind = "enrol" /\ r.stage = "decided" /\ Len(key) < MaxKeys
    /\ key' = [k \in 1 .. Len(key) + 1 |-> IF k \in DOMAIN key THEN key[k] /\ k \notin r.retires
                                           ELSE TRUE]
    /\ voter' = [voter EXCEPT !.status = IF r.activates THEN "ACTIVE" ELSE @]
    /\ Goes(c, NoCall)
    /\ UNCHANGED <<address, page, crossed>>

Revoke(c, k) ==
    /\ Start(c, "revoke") /\ k \in DOMAIN key
    /\ key' = [key EXCEPT ![k] = FALSE]
    /\ UNCHANGED <<voter, address, call, page, crossed>>

Fail(c) ==
    /\ ~Idle(c)
    /\ Goes(c, NoCall)
    /\ UNCHANGED <<voter, address, key, page, crossed>>

-----------------------------------------------------------------------------
(* The page.  Text that is edited makes it forget the address it created.  *)
SetAddressField ==
    /\ Idle(Page) /\ page.addressId # None
    /\ page' = [page EXCEPT !.addressId = None, !.addressVerified = FALSE]
    /\ UNCHANGED <<voter, address, key, call, crossed>>

(* The device step comes after the address step; the page then polls until *)
(* the server lists an active credential, or gives up.                     *)
StartEnrollment ==
    /\ page.addressVerified /\ ~page.polling /\ ~page.biometricEnrolled
    /\ page' = [page EXCEPT !.polling = TRUE]
    /\ UNCHANGED <<voter, address, key, call, crossed>>

Poll ==
    /\ page.polling /\ ActiveKeys # {}
    /\ page' = [page EXCEPT !.polling = FALSE, !.biometricEnrolled = TRUE]
    /\ UNCHANGED <<voter, address, key, call, crossed>>

Cancel ==
    /\ page.polling
    /\ page' = [page EXCEPT !.polling = FALSE]
    /\ UNCHANGED <<voter, address, key, call, crossed>>

OnAddress(c) ==
    \/ \E type \in Kinds, area \in Areas \cup {None} : CreateAddress(c, type, area)
    \/ \E a \in AddressIds : ReadForDelete(c, a) \/ ReadForProof(c, a)
    \/ \E a \in AddressIds, sends \in Patches : ReadForUpdate(c, a, sends)
    \/ WriteUpdate(c) \/ WriteProof(c) \/ DocumentFails(c) \/ Delete(c) \/ CommitAddress(c)

OnDevice(c) ==
    ReadForEnrol(c) \/ WriteEnrol(c) \/ CommitEnrol(c) \/ \E k \in DOMAIN key : Revoke(c, k)

Next ==
    \/ \E c \in Callers : OnAddress(c) \/ OnDevice(c) \/ Fail(c)
    \/ SetAddressField \/ StartEnrollment \/ Poll \/ Cancel

Spec == Init /\ [][Next]_recordVars

-----------------------------------------------------------------------------
AllIdle == \A c \in Callers : Idle(c)

(* A voter with a proved address and an enrolled device is not left        *)
(* pending, whichever came last, after documents that did not match,       *)
(* requests that failed, addresses replaced and devices revoked; unless    *)
(* the proof and the enrolment each decided while the other had not yet    *)
(* committed (voter_service.py:354-411, biometric_service.py:316-361).     *)
ReadyIsActive ==
    AllIdle /\ ActiveAddresses # {} /\ ActiveKeys # {} => voter.status = "ACTIVE" \/ crossed

(* Nobody is activated by one of the two alone.                            *)
ActivatedByBoth ==
    [][voter.status = "PENDING" /\ voter'.status = "ACTIVE"
         => ActiveAddresses' # {} /\ ActiveKeys' # {}]_recordVars

(* A voter has at most one current local address, and votes where it is:   *)
(* moving, moving back, or changing the postcode keeps the constituency    *)
(* with it (address_service.py:95-262).  Not so with an overseas address,  *)
(* which nothing retires: to edit or prove it takes the constituency       *)
(* abroad although there is a current local address by then; nor if a past *)
(* address could be proved, which the page does not offer.                 *)
VotesWhereCurrent ==
    /\ Cardinality(OfType("LOCAL_CURRENT")) <= 1
    /\ AllIdle /\ OfType("OVERSEAS") = {}
         => \A a \in OfType("LOCAL_CURRENT") : voter.area = address[a].area

(* One device signs for the voter: enrolling a phone, again or anew,       *)
(* leaves no credential of an earlier one active                           *)
(* (biometric_service.py:82-97).                                           *)
OneDeviceSigns == Cardinality(ActiveKeys) <= 1
=============================================================================
