--------------------------------- MODULE Keys ---------------------------------
(***************************************************************************)
(* The keys personal data is encrypted with, and what is found and read    *)
(* again with them (KeysManagerService, EncryptionMapperService and the    *)
(* two requests of VoterService that matter most here: register_voter      *)
(* and verify_voter_identity).                                             *)
(*                                                                         *)
(* Every request makes the keys that are missing, takes one version for    *)
(* all purposes, that of the active STORAGE key, and asks for the keys of  *)
(* that version.  A record is found by a token made with a SEARCH key, and *)
(* decrypted with the DATABASE key of the version it names.                *)
(*                                                                         *)
(*   idle -> DATABASE -> SEARCH -> STORAGE -> args -> keys -> look         *)
(*                                         -> insert -> done               *)
(*                                                                         *)
(* A record stands for a voter and the address of that voter, with one     *)
(* searchable value.  The ciphers are external: what a key encrypted that  *)
(* key alone decrypts, and a token is as good as its key and its value.    *)
(***************************************************************************)
EXTENDS Naturals, FiniteSetsExt

CONSTANTS
    Requests,
    Rotations,        \* calls of rotate_dek
    Values,           \* what voters are searched by
    Rotated,          \* purposes whose key is rotated
    FirstUseAlone,    \* nothing overlaps a request that may have to make keys
    None

Purposes == {"DATABASE", "SEARCH", "STORAGE"}

ASSUME KeysAssumption ==
    /\ Requests \cap Rotations = {} /\ Rotated \subseteq Purposes
    /\ FirstUseAlone \in BOOLEAN

(* Nobody makes two keys for one purpose; the random bytes of a key are    *)
(* named by who made it and for what.                                      *)
Deks == (Requests \cup Rotations) \X Purposes
KeyRows == [purpose : Purposes, version : Nat \ {0}, dek : Deks, active : BOOLEAN]
Tokens == Deks \X Values
Records == [by : Requests, value : Values, version : Nat \ {0}, dek : Deks, token : Tokens]

VARIABLES
    keys,         \* committed rows of encryption_key
    records,      \* committed voters
    tx,           \* requests
    rotation      \* rotations

keyVars == <<keys, records, tx, rotation>>

Stages == Purposes \cup {"idle", "args", "keys", "look", "insert", "done"}
Answers == {"none", "saved", "refused", "found", "absent", "failed"}

TxStates ==
    [stage : Stages, saves : BOOLEAN, value : Values \cup {None}, known : BOOLEAN,
     creates : BOOLEAN, own : SUBSET KeyRows, version : Nat, dek : Deks \cup {None},
     token : Tokens \cup {None}, answer : Answers]

NewTx ==
    [stage |-> "idle", saves |-> FALSE, value |-> None, known |-> FALSE,
     creates |-> FALSE, own |-> {},
     version |-> 0, dek |-> None, token |-> None, answer |-> "none"]

RotationStates ==
    [stage : {"idle", "waiting", "deactivated", "created", "done"}, purpose : Purposes \cup {None},
     seen : SUBSET KeyRows, own : SUBSET KeyRows]

NewRotation == [stage |-> "idle", purpose |-> None, seen |-> {}, own |-> {}]

TypeOK ==
    /\ keys \subseteq KeyRows /\ records \subseteq Records
    /\ tx \in [Requests -> TxStates]
    /\ rotation \in [Rotations -> RotationStates]

Init ==
    /\ keys = {} /\ records = {}
    /\ tx = [r \in Requests |-> NewTx]
    /\ rotation = [w \in Rotations |-> NewRotation]

InTx(r) == tx[r].stage \notin {"idle", "done"}
Rotating(w) == rotation[w].stage \notin {"idle", "done"}

-----------------------------------------------------------------------------
(* The rows a transaction sees: what is committed, and its own.            *)
Visible(r) == keys \cup tx[r].own

ActiveIn(rows, p) == {k \in rows : k.purpose = p /\ k.active}

ByVersionActive(rows, p, v) ==   \* mutant: of the active keys only
    {k.dek : k \in {j \in ActiveIn(rows, p) : j.version = v}}

(* The keys of that version; more than one is an error, as none is.        *)
ByVersion(rows, p, v) == {k.dek : k \in {j \in rows : j.purpose = p /\ j.version = v}}

NextVersion(rows, p) == Max({k.version : k \in {j \in rows : j.purpose = p}} \cup {0}) + 1

NewKey(who, rows, p) ==
    [purpose |-> p, version |-> NextVersion(rows, p), dek |-> <<who, p>>, active |-> TRUE]

KeysInPlace == \A p \in Purposes : ActiveIn(keys, p) # {}

(* Overlapping first uses make two keys of one version.                    *)
MayBegin ==
    FirstUseAlone /\ ~KeysInPlace =>
        (\A r \in Requests : ~InTx(r)) /\ (\A w \in Rotations : ~Rotating(w))

Begin(r) ==
    /\ tx[r].stage = "idle" /\ MayBegin
    /\ \E saves \in BOOLEAN, value \in Values :
         tx' = [tx EXCEPT ![r].stage = "DATABASE", ![r].saves = saves, ![r].value = value,
                          ![r].known = \E x \in records : x.value = value]
    /\ UNCHANGED <<keys, records, rotation>>

After == [DATABASE |-> "SEARCH", SEARCH |-> "STORAGE", STORAGE |-> "args"]

Missing(r, p) == ActiveIn(Visible(r), p) = {}

(* init_org_keys, a purpose at a time: whether there is an active key, and *)
(* the key made if there was none.                                         *)
FindActive(r) ==
    LET p == tx[r].stage IN
    /\ p \in Purposes /\ ~tx[r].creates
    /\ tx' = IF Missing(r, p) THEN [tx EXCEPT ![r].creates = TRUE]
                              ELSE [tx EXCEPT ![r].stage = After[p]]
    /\ UNCHANGED <<keys, records, rotation>>

CreateMissing(r) ==
    LET p == tx[r].stage IN
    /\ tx[r].creates
    /\ tx' = [tx EXCEPT ![r].own = @ \cup {NewKey(r, Visible(r), p)}, ![r].creates = FALSE,
                        ![r].stage = After[p]]
    /\ UNCHANGED <<keys, records, rotation>>

ArgsKeysOfDatabase(rows) == ActiveIn(rows, "DATABASE")   \* mutant: another purpose
ArgsKeys(rows) == ActiveIn(rows, "STORAGE")

(* build_encryption_args keeps the version of the last purpose; of two     *)
(* active keys it takes the newest.                                        *)
BuildArgs(r) ==
    /\ tx[r].stage = "args"
    /\ \E k \in ArgsKeys(Visible(r)) :
         /\ \A j \in ArgsKeys(Visible(r)) : j.version <= k.version
         /\ tx' = [tx EXCEPT ![r].version = k.version, ![r].stage = "keys"]
    /\ UNCHANGED <<keys, records, rotation>>

Done(r, answer) ==
    tx' = [tx EXCEPT ![r] = [NewTx EXCEPT !.stage = "done", !.answer = answer,
                                          !.saves = tx[r].saves, !.known = tx[r].known]]

Commits(r) == keys' = keys \cup tx[r].own

(* Registration raises and is rolled back; the identity check answers that *)
(* it could not be done, and commits.                                      *)
Fail(r) ==
    /\ Done(r, "failed")
    /\ IF tx[r].saves THEN UNCHANGED keys ELSE Commits(r)
    /\ UNCHANGED <<records, rotation>>

KeysOf(r) == ByVersion(Visible(r), "DATABASE", tx[r].version)
           \X ByVersion(Visible(r), "SEARCH", tx[r].version)

(* get_dek, for both purposes; the two reads are one step, as keys are     *)
(* only ever added.                                                        *)
GetDeks(r) ==
    /\ tx[r].stage = "keys"
    /\ \E pair \in KeysOf(r) :
         /\ KeysOf(r) = {pair}
         /\ tx' = [tx EXCEPT ![r].dek = pair[1], ![r].token = <<pair[2], tx[r].value>>,
                             ![r].stage = "look"]
    /\ UNCHANGED <<keys, records, rotation>>

NoDek(r) == tx[r].stage = "keys" /\ Cardinality(KeysOf(r)) # 1 /\ Fail(r)

Reads(r, version, dek) == ByVersion(Visible(r), "DATABASE", version) = {dek}
Matches(r) == {x \in records : x.token = tx[r].token}

(* The voters of that token are decrypted: registration resumes one, the   *)
(* identity check compares them.                                           *)
Look(r) ==
    /\ tx[r].stage = "look" /\ Matches(r) # {}
    /\ IF \A x \in Matches(r) : Reads(r, x.version, x.dek)
       THEN Done(r, "found") /\ Commits(r) /\ UNCHANGED <<records, rotation>>
       ELSE Fail(r)

LookInVain(r) ==
    /\ tx[r].stage = "look" /\ Matches(r) = {} /\ ~tx[r].saves
    /\ Done(r, "absent") /\ Commits(r)
    /\ UNCHANGED <<records, rotation>>

(* Only a voter who is pending is resumed.                                 *)
GoOnToInsert(r) ==
    /\ tx[r].stage = "look" /\ tx[r].saves
    /\ tx' = [tx EXCEPT ![r].stage = "insert"]
    /\ UNCHANGED <<keys, records, rotation>>

TokenFreeAlways(r) == TRUE   \* mutant: no unique constraint on the token
TokenFree(r) == Matches(r) = {}

(* The row is inserted, read back and committed.  A second row with its    *)
(* token waits for the first and is then refused.                          *)
Insert(r) ==
    LET t == tx[r] IN
    /\ t.stage = "insert" /\ TokenFree(r) /\ Reads(r, t.version, t.dek)
    /\ records' = records \cup {[by |-> r, value |-> t.value, version |-> t.version,
                                 dek |-> t.dek, token |-> t.token]}
    /\ Done(r, "saved") /\ Commits(r)
    /\ UNCHANGED rotation

RefuseInsert(r) ==
    /\ tx[r].stage = "insert"
    /\ ~TokenFree(r) \/ ~Reads(r, tx[r].version, tx[r].dek)
    /\ Done(r, IF TokenFree(r) THEN "failed" ELSE "refused")
    /\ UNCHANGED <<keys, records, rotation>>

-----------------------------------------------------------------------------
(* rotate_dek.  Its update retires the rows that are there when it begins, *)
(* once no other rotation holds one of them.  A key that is committed      *)
(* while it waits is passed over, and stays active beside the one it makes *)
(* itself.                                                                 *)
Retire(k) == [k EXCEPT !.active = FALSE]

BeginRotation(w, p) ==
    /\ rotation[w].stage = "idle" /\ p \in Rotated /\ MayBegin
    /\ rotation' = [rotation EXCEPT
                      ![w] = [stage |-> "waiting", purpose |-> p, own |-> {},
                              seen |-> {Retire(k) : k \in {j \in keys : j.purpose = p}}]]
    /\ UNCHANGED <<keys, records, tx>>

Holds(w) == rotation[w].stage \in {"deactivated", "created"}

Deactivate(w) ==
    /\ rotation[w].stage = "waiting"
    /\ \A x \in Rotations : Holds(x) => rotation[x].seen \cap rotation[w].seen = {}
    /\ rotation' = [rotation EXCEPT ![w].stage = "deactivated"]
    /\ UNCHANGED <<keys, records, tx>>

CreateDek(w) ==
    LET p == rotation[w].purpose IN
    /\ rotation[w].stage = "deactivated"
    /\ rotation' = [rotation EXCEPT ![w].stage = "created", ![w].own = {NewKey(w, keys, p)}]
    /\ UNCHANGED <<keys, records, tx>>

Retired(rows, seen) == {IF Retire(k) \in seen THEN Retire(k) ELSE k : k \in rows}

CommitRotation(w) ==
    /\ rotation[w].stage = "created"
    /\ keys' = Retired(keys, rotation[w].seen) \cup rotation[w].own
    /\ rotation' = [rotation EXCEPT ![w] = [NewRotation EXCEPT !.stage = "done"]]
    /\ UNCHANGED <<records, tx>>

Request(r) ==
    \/ Begin(r) \/ FindActive(r) \/ CreateMissing(r) \/ BuildArgs(r) \/ GetDeks(r)
    \/ NoDek(r) \/ Look(r) \/ LookInVain(r) \/ GoOnToInsert(r) \/ Insert(r) \/ RefuseInsert(r)

Rotate(w) ==
    (\E p \in Purposes : BeginRotation(w, p)) \/ Deactivate(w) \/ CreateDek(w) \/ CommitRotation(w)

Next == (\E r \in Requests : Request(r)) \/ (\E w \in Rotations : Rotate(w))

Spec == Init /\ [][Next]_keyVars

-----------------------------------------------------------------------------
(* Whatever is rotated and however requests overlap, the key a record was  *)
(* encrypted with is the one that is found by the version it names (the    *)
(* promise of KeysManagerService, keys_manager_service.py:34-36).          *)
StaysReadable == \A x \in records : ByVersion(keys, "DATABASE", x.version) = {x.dek}

(* Committed keys and records are a key ring and its register: no key is   *)
(* lost, renumbered or given a name that is taken, whoever makes or        *)
(* rotates which, and no value is registered twice under one version       *)
(* (keys_manager_service.py:74-83 and 156-206, voter.py:70).               *)
ringKeys == {[purpose |-> k.purpose, version |-> k.version, dek |-> k.dek] : k \in keys}

voters ==
    {[by |-> x.by, value |-> x.value, version |-> x.version, dek |-> x.dek] : x \in records}

Ring == INSTANCE KeyRing WITH ring <- ringKeys, registered <- voters

ImplementsKeyRing == Ring!Spec

Unrotated(p) == \A k \in keys : k.purpose = p => k.version = 1

(* No two voters are registered with one value, and who was registered     *)
(* before an identity check began is found by it: the token of a value     *)
(* stays the same (voter.py:70, "database-level deduplication still        *)
(* works"), until the STORAGE key, which gives the version, is rotated.    *)
RegisteredOnce ==
    Unrotated("STORAGE") => \A x, y \in records : x.value = y.value => x = y

FoundAgain ==
    Unrotated("STORAGE") =>
        \A r \in Requests :
            tx[r].stage = "done" /\ ~tx[r].saves /\ tx[r].known => tx[r].answer = "found"

(* The newest key of a purpose is active, so that new records are written  *)
(* with the key that was made last, although rotations that overlap leave  *)
(* older ones active too (keys_manager_repo.py:39-45, against "One active  *)
(* row per (org_id, purpose) at any time" in encryption_key.py:19).        *)
NewestIsActive ==
    \A k \in keys :
        (\A j \in keys : j.purpose = k.purpose => j.version <= k.version) => k.active
===============================================================================
