------------------------------ MODULE KeysProofs ------------------------------
(***************************************************************************)
(* Theorems of Keys: when the first keys are made by a request nothing     *)
(* overlaps, every record stays readable whatever is rotated, the newest   *)
(* key of a purpose is active, until the STORAGE key is rotated nobody is  *)
(* registered twice and whoever is registered is found, and all of it      *)
(* implements KeyRing.                                                     *)
(***************************************************************************)
EXTENDS Keys, FiniteSetTheorems, TLAPS

-----------------------------------------------------------------------------
(* A set of rows in order: no two keys of one version, versions that start *)
(* at one and have a greatest, and the key of that one active.             *)
HasKey(rows, p, v, d) == \E k \in rows : k.purpose = p /\ k.version = v /\ k.dek = d
HasVersion(rows, p, v) == \E k \in rows : k.purpose = p /\ k.version = v

OnePerVersion(rows) ==
    \A j, k \in rows : j.purpose = k.purpose /\ j.version = k.version => j = k

OnTop(rows, k) == \A j \in rows : j.purpose = k.purpose => j.version <= k.version

TopActive(rows) == \A k \in rows : OnTop(rows, k) => k.active

FromOne(rows) == \A k \in rows : HasVersion(rows, k.purpose, 1)

VersionsOf(rows, p) == {k.version : k \in {j \in rows : j.purpose = p}} \cup {0}

Topped(rows) ==
    \A p \in Purposes : \E m \in VersionsOf(rows, p) : \A v \in VersionsOf(rows, p) : v <= m

Numbered(rows) ==
    rows \subseteq KeyRows /\ OnePerVersion(rows) /\ FromOne(rows) /\ Topped(rows)

Orderly(rows) ==
    rows \subseteq KeyRows /\ OnePerVersion(rows) /\ TopActive(rows) /\ FromOne(rows) /\ Topped(rows)

(* Every key of the first set is in the second, active or not.             *)
Kept(rows, later) ==
    \A k \in rows : \E j \in later :
        j.purpose = k.purpose /\ j.version = k.version /\ j.dek = k.dek

(* Nothing overlaps the request, or the rotation.                          *)
Alone(r) == (\A q \in Requests : InTx(q) => q = r) /\ (\A w \in Rotations : ~Rotating(w))
RotatesAlone(w) == (\A q \in Requests : ~InTx(q)) /\ (\A x \in Rotations : Rotating(x) => x = w)

(* The purposes whose key a request has seen or made by that stage.        *)
Made(stage) ==
    CASE stage \in {"idle", "DATABASE", "done"} -> {}
      [] stage = "SEARCH" -> {"DATABASE"}
      [] stage = "STORAGE" -> {"DATABASE", "SEARCH"}
      [] OTHER -> Purposes

(* Rows of its own a request has only while it makes the first keys, alone; *)
(* what it holds is the keys of the version of a STORAGE key.              *)
RequestSound(r) ==
    /\ Orderly(Visible(r))
    /\ tx[r].creates \/ tx[r].own # {} => InTx(r) /\ ~KeysInPlace
    /\ tx[r].creates => tx[r].stage \in Purposes /\ Missing(r, tx[r].stage)
    /\ InTx(r) /\ ~KeysInPlace => Alone(r)
    /\ InTx(r) => tx[r].value \in Values
    /\ \A p \in Made(tx[r].stage) : \E k \in Visible(r) : k.purpose = p
    /\ tx[r].stage \in {"keys", "look", "insert"} => HasVersion(Visible(r), "STORAGE", tx[r].version)
    /\ tx[r].stage \in {"look", "insert"} =>
         /\ HasKey(Visible(r), "DATABASE", tx[r].version, tx[r].dek)
         /\ \E d \in Deks : /\ tx[r].token = <<d, tx[r].value>>
                            /\ HasKey(Visible(r), "SEARCH", tx[r].version, d)
    /\ tx[r].stage = "insert" => tx[r].saves
    /\ InTx(r) /\ tx[r].known => \E x \in records : x.value = tx[r].value

(* A rotation retires rows of its purpose, the first one among them; so    *)
(* it is the only one of its purpose that has gone on to make a key.       *)
RotationSound(w) ==
    Rotating(w) =>
        /\ rotation[w].purpose \in Purposes
        /\ \A s \in rotation[w].seen :
             s.purpose = rotation[w].purpose /\ \E k \in keys : s = Retire(k)
        /\ KeysInPlace => \E s \in rotation[w].seen : s.version = 1
        /\ ~KeysInPlace => RotatesAlone(w)
        /\ rotation[w].stage = "created" => rotation[w].own = {NewKey(w, keys, rotation[w].purpose)}
        /\ Holds(w) =>
             \A x \in Rotations : Holds(x) /\ rotation[x].purpose = rotation[w].purpose => x = w

(* A record names keys that are there, of the version of a STORAGE key.    *)
RecordSound(rows, x) ==
    /\ HasKey(rows, "DATABASE", x.version, x.dek)
    /\ HasVersion(rows, "STORAGE", x.version)
    /\ \E d \in Deks : x.token = <<d, x.value>> /\ HasKey(rows, "SEARCH", x.version, d)

TokensDiffer == \A x, y \in records : x.token = y.token => x = y

KeysInv ==
    /\ TypeOK
    /\ Orderly(keys)
    /\ \A r \in Requests : RequestSound(r)
    /\ \A w \in Rotations : RotationSound(w)
    /\ \A x \in records : RecordSound(keys, x)
    /\ TokensDiffer
    /\ FoundAgain

-----------------------------------------------------------------------------
(* The next version is above all that there are.                           *)
LEMMA NextIsAbove ==
    ASSUME NEW rows, NEW p \in Purposes, Numbered(rows)
    PROVE  /\ NextVersion(rows, p) \in Nat \ {0}
           /\ \A k \in rows : k.purpose = p => k.version < NextVersion(rows, p)
           /\ (\A k \in rows : k.purpose # p) => NextVersion(rows, p) = 1
<1> DEFINE S == VersionsOf(rows, p)
<1>1. S \subseteq Nat
  BY DEF VersionsOf, Numbered, KeyRows
<1>2. PICK m \in S : \A v \in S : v <= m
  BY DEF Numbered, Topped
<1>3. Max(S) \in S /\ \A v \in S : Max(S) >= v
  <2>1. \A v \in S : m >= v
    BY <1>1, <1>2
  <2> QED
    BY <2>1, <1>2 DEF Max
<1>4. NextVersion(rows, p) = Max(S) + 1
  BY DEF NextVersion, VersionsOf
<1>5. \A k \in rows : k.purpose = p => k.version \in S
  BY DEF VersionsOf
<1>6. (\A k \in rows : k.purpose # p) => S = {0}
  BY DEF VersionsOf
<1>7. Max(S) \in Nat
  BY <1>1, <1>3
<1>8. NextVersion(rows, p) \in Nat \ {0}
  BY <1>4, <1>7
<1>9. ASSUME NEW k \in rows, k.purpose = p PROVE k.version < NextVersion(rows, p)
  <2>1. k.version \in Nat /\ Max(S) >= k.version
    BY <1>1, <1>3, <1>5, <1>9
  <2> QED
    BY <2>1, <1>4, <1>7
<1>10. ASSUME \A k \in rows : k.purpose # p PROVE NextVersion(rows, p) = 1
  <2>1. Max(S) = 0
    BY <1>3, <1>6, <1>10
  <2> QED
    BY <2>1, <1>4
<1> QED
  BY <1>8, <1>9, <1>10

(* A new key is on top and active, and leaves rows in order.               *)
LEMMA MadeInOrder ==
    ASSUME NEW rows, NEW p \in Purposes, NEW who \in Requests \cup Rotations, Numbered(rows),
           \A k \in rows : k.purpose # p /\ OnTop(rows, k) => k.active
    PROVE  /\ NewKey(who, rows, p) \in KeyRows
           /\ Orderly(rows \cup {NewKey(who, rows, p)})
<1> DEFINE n == NewKey(who, rows, p)
           later == rows \cup {n}
           v == NextVersion(rows, p)
<1>1. /\ v \in Nat \ {0}
      /\ \A k \in rows : k.purpose = p => k.version < v
      /\ (\A k \in rows : k.purpose # p) => v = 1
  BY NextIsAbove
<1>2. n.purpose = p /\ n.version = v /\ n.active = TRUE /\ n \in KeyRows
  BY <1>1 DEF NewKey, KeyRows, Deks
<1>3. rows \subseteq KeyRows
  BY DEF Numbered
<1> HIDE DEF n, v
<1>5. OnePerVersion(later)
  BY <1>1, <1>2, <1>3 DEF Numbered, OnePerVersion, KeyRows
<1>6. TopActive(later)
  <2> SUFFICES ASSUME NEW k \in rows, OnTop(later, k) PROVE k.active
    BY <1>2 DEF TopActive
  <2>1. k.purpose # p
    <3> SUFFICES ASSUME k.purpose = p PROVE FALSE
      OBVIOUS
    <3>1. v <= k.version /\ k.version < v /\ k.version \in Nat
      BY <1>1, <1>2, <1>3 DEF OnTop, KeyRows
    <3> QED
      BY <1>1, <3>1
  <2>2. OnTop(rows, k)
    BY DEF OnTop
  <2> QED
    BY <2>1, <2>2
<1>7. FromOne(later)
  BY <1>1, <1>2, <1>3 DEF Numbered, FromOne, HasVersion, KeyRows
<1>8. Topped(later)
  <2> SUFFICES ASSUME NEW q \in Purposes
               PROVE  \E m \in VersionsOf(later, q) : \A u \in VersionsOf(later, q) : u <= m
    BY DEF Topped
  <2>1. CASE q = p
    <3>1. v \in VersionsOf(later, p)
      BY <1>2 DEF VersionsOf
    <3>2. \A u \in VersionsOf(later, p) : u <= v
      BY <1>1, <1>2, <1>3 DEF VersionsOf, KeyRows
    <3> QED
      BY <2>1, <3>1, <3>2
  <2>2. CASE q # p
    <3>1. VersionsOf(later, q) = VersionsOf(rows, q)
      BY <2>2, <1>2 DEF VersionsOf
    <3> QED
      BY <3>1 DEF Numbered, Topped
  <2> QED
    BY <2>1, <2>2
<1> QED
  BY <1>2, <1>3, <1>5, <1>6, <1>7, <1>8 DEF Orderly, n

(* So does a rotation: keys of the purpose are retired and one more is     *)
(* active; those of the other purposes are as they were.                   *)
LEMMA RotatedInOrder ==
    ASSUME NEW rows, NEW p \in Purposes, NEW w \in Rotations, Orderly(rows),
           NEW seen, \A s \in seen : s.purpose = p,
           NEW later, later = Retired(rows, seen) \cup {NewKey(w, rows, p)}
    PROVE  /\ Orderly(later)
           /\ Kept(rows, later)
           /\ \E k \in later : k.purpose = p /\ k.active
           /\ \A k : k.purpose # p => (k \in later <=> k \in rows)
<1> DEFINE old == Retired(rows, seen)
           Later(k) == IF Retire(k) \in seen THEN Retire(k) ELSE k
<1>0. \A k \in rows : Retire(k).purpose = k.purpose
  BY DEF Orderly, KeyRows, Retire
<1>1. \A j \in old : \E k \in rows : /\ j.purpose = k.purpose /\ j.version = k.version /\ j.dek = k.dek
                                     /\ k.purpose # p => j = k
                                     /\ j \in KeyRows
                                     /\ j = Later(k)
  BY <1>0 DEF Retired, Retire, Orderly, KeyRows
<1>2. Kept(rows, old)
  <2> SUFFICES ASSUME NEW k \in rows
               PROVE  \E j \in old : j.purpose = k.purpose /\ j.version = k.version /\ j.dek = k.dek
    BY DEF Kept
  <2>1. Later(k) \in old
    BY DEF Retired
  <2>2. k \in KeyRows
    BY DEF Orderly
  <2>3. /\ Later(k).purpose = k.purpose /\ Later(k).version = k.version
        /\ Later(k).dek = k.dek
    BY <2>2 DEF KeyRows, Retire
  <2> QED
    BY <2>1, <2>3
<1>3. \A k : k.purpose # p => (k \in old <=> k \in rows)
  <2> TAKE k
  <2> HAVE k.purpose # p
  <2>1. k \in rows => k \in old
    BY <1>0 DEF Retired
  <2>2. k \in old => k \in rows
    BY <1>1
  <2> QED
    BY <2>1, <2>2
<1> HIDE DEF old, Later
<1>4. \A k \in old : k.purpose # p /\ OnTop(old, k) => k.active
  <2> SUFFICES ASSUME NEW k \in old, k.purpose # p, OnTop(old, k) PROVE k.active
    OBVIOUS
  <2>1. k \in rows
    BY <1>3
  <2>2. OnTop(rows, k)
    BY <1>3 DEF OnTop
  <2> QED
    BY <2>1, <2>2 DEF Orderly, TopActive
<1>5. Numbered(old)
  <2>1. OnePerVersion(old)
    BY <1>1 DEF Orderly, OnePerVersion
  <2>3. FromOne(old)
    BY <1>1, <1>2 DEF Orderly, FromOne, HasVersion, Kept
  <2>4. \A q \in Purposes : VersionsOf(old, q) = VersionsOf(rows, q)
    BY <1>1, <1>2 DEF VersionsOf, Kept
  <2>5. Topped(old)
    BY <2>4 DEF Orderly, Topped
  <2>6. old \subseteq KeyRows
    BY <1>1
  <2> QED
    BY <2>1, <2>3, <2>5, <2>6 DEF Numbered
<1>6. NewKey(w, rows, p) = NewKey(w, old, p)
  <2>1. VersionsOf(old, p) = VersionsOf(rows, p)
    BY <1>1, <1>2 DEF VersionsOf, Kept
  <2>2. NextVersion(rows, p) = NextVersion(old, p)
    BY <2>1 DEF NextVersion, VersionsOf
  <2> QED
    BY <2>2 DEF NewKey
<1>7. later = old \cup {NewKey(w, old, p)}
  BY <1>6 DEF old
<1>8. Orderly(later)
  <2>1. w \in Requests \cup Rotations
    OBVIOUS
  <2>2. Orderly(old \cup {NewKey(w, old, p)})
    BY ONLY <2>1, <1>4, <1>5, MadeInOrder, p \in Purposes
  <2> QED
    BY <2>2, <1>7
<1>9. Kept(rows, later)
  BY <1>2, <1>7 DEF Kept
<1>10. NewKey(w, old, p).purpose = p /\ NewKey(w, old, p).active
  BY DEF NewKey
<1>11. \E k \in later : k.purpose = p /\ k.active
  BY <1>7, <1>10
<1>12. \A k : k.purpose # p => (k \in later <=> k \in rows)
  BY <1>3, <1>7, <1>10
<1> QED
  BY <1>8, <1>9, <1>11, <1>12

(* What a set of keys finds stays found in a larger one.                   *)
LEMMA KeptFound ==
    ASSUME NEW rows, NEW later, Kept(rows, later)
    PROVE  /\ \A p, v : HasVersion(rows, p, v) => HasVersion(later, p, v)
           /\ \A p, v, d : HasKey(rows, p, v, d) => HasKey(later, p, v, d)
           /\ \A x : RecordSound(rows, x) => RecordSound(later, x)
           /\ \A p : (\E k \in rows : k.purpose = p) => (\E k \in later : k.purpose = p)
<1>1. \A p, v : HasVersion(rows, p, v) => HasVersion(later, p, v)
  BY DEF Kept, HasVersion
<1>2. \A p, v, d : HasKey(rows, p, v, d) => HasKey(later, p, v, d)
  BY DEF Kept, HasKey
<1>3. \A x : RecordSound(rows, x) => RecordSound(later, x)
  BY <1>1, <1>2 DEF RecordSound
<1>4. \A p : (\E k \in rows : k.purpose = p) => (\E k \in later : k.purpose = p)
  BY DEF Kept
<1> QED
  BY <1>1, <1>2, <1>3, <1>4

(* In order, a key is the only one of its purpose and version.             *)
LEMMA FoundByVersion ==
    ASSUME NEW rows, Orderly(rows), NEW p, NEW v, NEW d, HasKey(rows, p, v, d)
    PROVE  ByVersion(rows, p, v) = {d}
BY DEF Orderly, OnePerVersion, HasKey, ByVersion

(* The STORAGE key that was not rotated has the version one.               *)
LEMMA UnrotatedVersion ==
    ASSUME NEW rows, NEW v, HasVersion(rows, "STORAGE", v),
           \A k \in rows : k.purpose = "STORAGE" => k.version = 1
    PROVE  v = 1
BY DEF HasVersion

-----------------------------------------------------------------------------
(* A step of one request that changes nothing else, and commits nothing,   *)
(* leaves the others sound.                                                *)
LEMMA OthersStandBy ==
    ASSUME KeysInv, NEW r \in Requests, NEW t,
           tx' = [tx EXCEPT ![r] = t],
           keys' = keys, records' = records, rotation' = rotation,
           InTx(r) \/ MayBegin, FirstUseAlone
    PROVE  /\ \A q \in Requests \ {r} : RequestSound(q)'
           /\ \A w \in Rotations : RotationSound(w)'
           /\ \A x \in records' : RecordSound(keys, x)'
           /\ Orderly(keys)' /\ TokensDiffer'
           /\ tx'[r] = t /\ KeysInPlace' = KeysInPlace
<1>1. /\ tx \in [Requests -> TxStates]
      /\ \A q \in Requests \ {r} : tx'[q] = tx[q]
      /\ tx'[r] = t
  BY DEF KeysInv, TypeOK
<1>2. KeysInPlace' = KeysInPlace
  BY DEF KeysInPlace
<1>3. \A w \in Rotations : Rotating(w)' = Rotating(w)
  BY DEF Rotating
<1>4. ASSUME NEW q \in Requests \ {r} PROVE RequestSound(q)'
  <2>1. Visible(q)' = Visible(q) /\ InTx(q)' = InTx(q)
    BY <1>1 DEF Visible, InTx
  <2>2. RequestSound(q)
    BY DEF KeysInv
  <2>3. InTx(q) /\ ~KeysInPlace => Alone(q)'
    <3> SUFFICES ASSUME InTx(q), ~KeysInPlace PROVE Alone(q)'
      OBVIOUS
    <3>1. Alone(q)
      BY <2>2 DEF RequestSound
    <3>2. ~InTx(r) /\ ~MayBegin
      BY <3>1 DEF Alone, MayBegin
    <3> QED
      BY <3>2
  <2>4. \A p : Missing(q, p)' = Missing(q, p)
    BY <2>1 DEF Missing
  <2> QED
    BY <1>1, <1>2, <2>1, <2>2, <2>3, <2>4 DEF RequestSound
<1>5. ASSUME NEW w \in Rotations PROVE RotationSound(w)'
  <2>1. RotationSound(w)
    BY DEF KeysInv
  <2>2. Rotating(w) /\ ~KeysInPlace => RotatesAlone(w)'
    <3> SUFFICES ASSUME Rotating(w), ~KeysInPlace PROVE RotatesAlone(w)'
      OBVIOUS
    <3>1. RotatesAlone(w)
      BY <2>1 DEF RotationSound
    <3> QED
      BY <3>1 DEF RotatesAlone, MayBegin
  <2>3. \A x \in Rotations : Holds(x)' = Holds(x)
    BY DEF Holds
  <2> QED
    BY <1>2, <1>3, <2>1, <2>2, <2>3 DEF RotationSound
<1>6. \A x \in records' : RecordSound(keys, x)'
  BY DEF KeysInv
<1>7. Orderly(keys)' /\ TokensDiffer'
  BY DEF KeysInv, TokensDiffer
<1> QED
  BY <1>1, <1>2, <1>4, <1>5, <1>6, <1>7

(* The answers that were given are as before.                              *)
LEMMA AnswersStand ==
    ASSUME KeysInv, NEW r \in Requests, NEW t,
           tx' = [tx EXCEPT ![r] = t],
           Kept(keys, keys'),
           Unrotated("STORAGE")' /\ t.stage = "done" /\ ~t.saves /\ t.known => t.answer = "found"
    PROVE  FoundAgain'
<1>1. /\ \A q \in Requests \ {r} : tx'[q] = tx[q]
      /\ tx'[r] = t
  BY DEF KeysInv, TypeOK
<1>2. Unrotated("STORAGE")' => Unrotated("STORAGE")
  BY DEF Unrotated, Kept
<1> QED
  BY <1>1, <1>2 DEF FoundAgain, KeysInv

(* A step within a request is a new state of it alone, sound again.        *)
LEMMA WithinRequest ==
    ASSUME KeysInv, FirstUseAlone, NEW r \in Requests, NEW t \in TxStates,
           tx' = [tx EXCEPT ![r] = t],
           keys' = keys, records' = records, rotation' = rotation,
           InTx(r) \/ MayBegin, t.stage # "done", RequestSound(r)'
    PROVE  KeysInv'
<1>1. /\ \A q \in Requests \ {r} : RequestSound(q)'
      /\ \A w \in Rotations : RotationSound(w)'
      /\ \A x \in records' : RecordSound(keys, x)'
      /\ Orderly(keys)' /\ TokensDiffer'
  BY OthersStandBy
<1>2. TypeOK'
  BY DEF KeysInv, TypeOK
<1>3. Kept(keys, keys')
  BY DEF Kept
<1>4. FoundAgain'
  BY <1>3, AnswersStand
<1> QED
  BY <1>1, <1>2, <1>4 DEF KeysInv

LEMMA BeginStep ==
    ASSUME KeysInv, FirstUseAlone, NEW r \in Requests, Begin(r)
    PROVE  KeysInv'
<1>1. PICK saves \in BOOLEAN, value \in Values :
        tx' = [tx EXCEPT ![r].stage = "DATABASE", ![r].saves = saves, ![r].value = value,
                         ![r].known = \E x \in records : x.value = value]
  BY DEF Begin
<1> DEFINE known == \E x \in records : x.value = value
           t == [tx[r] EXCEPT !.stage = "DATABASE", !.saves = saves, !.value = value,
                              !.known = known]
<1>2. tx[r] \in TxStates /\ tx \in [Requests -> TxStates] /\ RequestSound(r)
  BY DEF KeysInv, TypeOK
<1>3. tx' = [tx EXCEPT ![r] = t]
  BY <1>1, <1>2
<1>4. /\ t \in TxStates
      /\ t.stage = "DATABASE" /\ t.value = value /\ t.creates = tx[r].creates /\ t.own = tx[r].own
      /\ t.known => \E x \in records : x.value = t.value
  <2>1. known \in BOOLEAN /\ (known => \E x \in records : x.value = value)
    OBVIOUS
  <2> HIDE DEF known
  <2>2. \A b \in BOOLEAN :
          [tx[r] EXCEPT !.stage = "DATABASE", !.saves = saves, !.value = value, !.known = b] \in TxStates
    BY <1>2 DEF TxStates, Stages, Purposes
  <2>3. t \in TxStates
    BY <2>1, <2>2
  <2>4. /\ t.stage = "DATABASE" /\ t.value = value /\ t.creates = tx[r].creates
        /\ t.own = tx[r].own /\ t.known = known
    BY <1>2 DEF TxStates
  <2> QED
    BY <2>1, <2>3, <2>4
<1> HIDE DEF t
<1>5. /\ tx[r].stage = "idle" /\ MayBegin
      /\ keys' = keys /\ records' = records /\ rotation' = rotation
  BY DEF Begin
<1>6. ~tx[r].creates /\ tx[r].own = {}
  BY <1>2, <1>5 DEF RequestSound, InTx
<1>7. tx'[r] = t /\ KeysInPlace' = KeysInPlace
  BY <1>2, <1>3, <1>5 DEF KeysInPlace
<1>8. Visible(r)' = Visible(r)
  BY <1>4, <1>5, <1>7 DEF Visible
<1>9. InTx(r)' /\ (~KeysInPlace => Alone(r)')
  <2>1. InTx(r)'
    BY <1>4, <1>7 DEF InTx
  <2>2. ASSUME ~KeysInPlace PROVE Alone(r)'
    <3>1. (\A q \in Requests : ~InTx(q)) /\ (\A w \in Rotations : ~Rotating(w))
      BY <1>5, <2>2 DEF MayBegin
    <3>2. \A q \in Requests \ {r} : tx'[q] = tx[q]
      BY <1>2, <1>3
    <3> QED
      BY <1>5, <3>1, <3>2 DEF Alone, InTx, Rotating
  <2> QED
    BY <2>1, <2>2
<1>10. RequestSound(r)'
  BY <1>2, <1>4, <1>5, <1>6, <1>7, <1>8, <1>9 DEF RequestSound, Made
<1> QED
  BY <1>3, <1>4, <1>5, <1>10, WithinRequest

(* A request goes on to its next stage: what it made or read is added to   *)
(* what it had.                                                            *)
LEMMA Advances ==
    ASSUME KeysInv, FirstUseAlone, NEW r \in Requests, NEW t \in TxStates, InTx(r),
           tx' = [tx EXCEPT ![r] = t],
           keys' = keys, records' = records, rotation' = rotation,
           t.stage \notin {"idle", "done"}, t.value = tx[r].value, t.known = tx[r].known,
           Orderly(keys \cup t.own),
           t.creates \/ t.own # {} => ~KeysInPlace,
           t.creates => t.stage \in Purposes /\ ActiveIn(keys \cup t.own, t.stage) = {},
           \A p \in Made(t.stage) : \E k \in keys \cup t.own : k.purpose = p,
           t.stage \in {"keys", "look", "insert"} => HasVersion(keys \cup t.own, "STORAGE", t.version),
           t.stage \in {"look", "insert"} =>
             /\ HasKey(keys \cup t.own, "DATABASE", t.version, t.dek)
             /\ \E d \in Deks : /\ t.token = <<d, t.value>>
                                /\ HasKey(keys \cup t.own, "SEARCH", t.version, d),
           t.stage = "insert" => t.saves
    PROVE  KeysInv'
<1>1. tx \in [Requests -> TxStates] /\ RequestSound(r)
  BY DEF KeysInv, TypeOK
<1>2. tx'[r] = t /\ KeysInPlace' = KeysInPlace
  BY <1>1 DEF KeysInPlace
<1>3. Visible(r)' = keys \cup t.own
  BY <1>2 DEF Visible
<1>4. InTx(r)'
  BY <1>2 DEF InTx
<1>5. Missing(r, t.stage)' = (ActiveIn(keys \cup t.own, t.stage) = {})
  BY <1>3 DEF Missing
<1>6. ~KeysInPlace => Alone(r)'
  <2> SUFFICES ASSUME ~KeysInPlace PROVE Alone(r)'
    OBVIOUS
  <2>1. Alone(r)
    BY <1>1 DEF RequestSound
  <2>2. \A q \in Requests \ {r} : tx'[q] = tx[q]
    BY <1>1
  <2> QED
    BY <2>1, <2>2 DEF Alone, InTx, Rotating
<1>7. t.value \in Values /\ (t.known => \E x \in records : x.value = t.value)
  BY <1>1 DEF RequestSound
<1>8. RequestSound(r)'
  BY <1>2, <1>3, <1>4, <1>5, <1>6, <1>7 DEF RequestSound
<1> QED
  BY <1>8, WithinRequest

LEMMA FindActiveStep ==
    ASSUME KeysInv, FirstUseAlone, NEW r \in Requests, FindActive(r)
    PROVE  KeysInv'
<1> DEFINE p == tx[r].stage
<1>1. /\ tx \in [Requests -> TxStates] /\ tx[r] \in TxStates /\ RequestSound(r)
      /\ p \in Purposes /\ ~tx[r].creates /\ InTx(r)
      /\ keys' = keys /\ records' = records /\ rotation' = rotation
  BY DEF KeysInv, TypeOK, FindActive, InTx, Purposes
<1>2. CASE Missing(r, p)
  <2> DEFINE t == [tx[r] EXCEPT !.creates = TRUE]
  <2>1. tx' = [tx EXCEPT ![r] = t]
    BY <1>1, <1>2 DEF FindActive
  <2>2. /\ t \in TxStates /\ t.stage = p /\ t.own = tx[r].own
        /\ t.value = tx[r].value /\ t.known = tx[r].known
    BY <1>1 DEF TxStates
  <2> HIDE DEF t
  <2>3. ActiveIn(keys \cup t.own, p) = {}
    BY <1>2, <2>2 DEF Missing, Visible
  <2>4. ~KeysInPlace
    BY <1>1, <2>3 DEF KeysInPlace, ActiveIn
  <2>5. Orderly(keys \cup t.own) /\ \A q \in Made(p) : \E k \in keys \cup t.own : k.purpose = q
    BY <1>1, <2>2 DEF RequestSound, Visible
  <2>6. p \notin {"idle", "done", "keys", "look", "insert"}
    BY <1>1 DEF Purposes
  <2> QED
    BY <1>1, <2>1, <2>2, <2>3, <2>4, <2>5, <2>6, Advances
<1>3. CASE ~Missing(r, p)
  <2> DEFINE t == [tx[r] EXCEPT !.stage = After[p]]
  <2>1. tx' = [tx EXCEPT ![r] = t]
    BY <1>1, <1>3 DEF FindActive
  <2>2. After[p] \in {"SEARCH", "STORAGE", "args"}
    BY <1>1 DEF After, Purposes
  <2>3. /\ t \in TxStates /\ t.stage = After[p] /\ t.own = tx[r].own /\ ~t.creates
        /\ t.value = tx[r].value /\ t.known = tx[r].known
    BY <1>1, <2>2 DEF TxStates, Stages, Purposes
  <2> HIDE DEF t
  <2>4. \E k \in keys \cup t.own : k.purpose = p
    BY <1>3, <2>3 DEF Missing, Visible, ActiveIn
  <2>5. Orderly(keys \cup t.own) /\ \A q \in Made(p) : \E k \in keys \cup t.own : k.purpose = q
    BY <1>1, <2>3 DEF RequestSound, Visible
  <2>6. Made(After[p]) = Made(p) \cup {p}
    BY <1>1 DEF Made, After, Purposes
  <2>7. \A q \in Made(After[p]) : \E k \in keys \cup t.own : k.purpose = q
    BY <2>4, <2>5, <2>6
  <2>8. t.own # {} => ~KeysInPlace
    BY <1>1, <2>3 DEF RequestSound
  <2>9. t.stage \notin {"idle", "done", "keys", "look", "insert"}
    BY <2>2, <2>3
  <2> QED
    BY <1>1, <2>1, <2>3, <2>5, <2>7, <2>8, <2>9, Advances
<1> QED
  BY <1>2, <1>3

LEMMA CreateMissingStep ==
    ASSUME KeysInv, FirstUseAlone, NEW r \in Requests, CreateMissing(r)
    PROVE  KeysInv'
<1> DEFINE p == tx[r].stage
           n == NewKey(r, Visible(r), p)
           t == [tx[r] EXCEPT !.own = @ \cup {n}, !.creates = FALSE, !.stage = After[p]]
<1>1. /\ tx \in [Requests -> TxStates] /\ tx[r] \in TxStates /\ RequestSound(r)
      /\ tx[r].creates
      /\ keys' = keys /\ records' = records /\ rotation' = rotation
  BY DEF KeysInv, TypeOK, CreateMissing
<1>2. p \in Purposes /\ Missing(r, p) /\ ~KeysInPlace /\ InTx(r)
  BY <1>1 DEF RequestSound
<1>3. tx' = [tx EXCEPT ![r] = t]
  BY <1>1 DEF CreateMissing
<1>4. n \in KeyRows /\ Orderly(Visible(r) \cup {n}) /\ n.purpose = p
  <2>1. /\ Numbered(Visible(r)) /\ r \in Requests \cup Rotations
        /\ \A k \in Visible(r) : k.purpose # p /\ OnTop(Visible(r), k) => k.active
    BY <1>1 DEF RequestSound, Orderly, Numbered, TopActive
  <2> HIDE DEF p
  <2>2. n \in KeyRows /\ Orderly(Visible(r) \cup {n})
    BY ONLY <2>1, <1>2, MadeInOrder
  <2> QED
    BY <2>2 DEF NewKey
<1> HIDE DEF n
<1>5. After[p] \in {"SEARCH", "STORAGE", "args"} /\ Made(After[p]) = Made(p) \cup {p}
  BY <1>2 DEF After, Purposes, Made
<1>6. /\ t \in TxStates /\ t.stage = After[p] /\ t.own = tx[r].own \cup {n} /\ ~t.creates
      /\ t.value = tx[r].value /\ t.known = tx[r].known
  BY <1>1, <1>4, <1>5 DEF TxStates, Stages, Purposes
<1> HIDE DEF t
<1>7. keys \cup t.own = Visible(r) \cup {n}
  BY <1>6 DEF Visible
<1>8. \A q \in Made(After[p]) : \E k \in keys \cup t.own : k.purpose = q
  <2>1. \A q \in Made(p) : \E k \in Visible(r) : k.purpose = q
    BY <1>1 DEF RequestSound
  <2> QED
    BY <2>1, <1>4, <1>5, <1>7
<1>9. Orderly(keys \cup t.own)
  BY <1>4, <1>7
<1>10. t.stage \notin {"idle", "done", "keys", "look", "insert"}
  BY <1>5, <1>6
<1> QED
  BY <1>1, <1>2, <1>3, <1>6, <1>8, <1>9, <1>10, Advances

LEMMA BuildArgsStep ==
    ASSUME KeysInv, FirstUseAlone, NEW r \in Requests, BuildArgs(r)
    PROVE  KeysInv'
<1>1. /\ tx \in [Requests -> TxStates] /\ tx[r] \in TxStates /\ RequestSound(r)
      /\ tx[r].stage = "args" /\ InTx(r)
      /\ keys' = keys /\ records' = records /\ rotation' = rotation
  BY DEF KeysInv, TypeOK, BuildArgs, InTx
<1>2. PICK k \in ActiveIn(Visible(r), "STORAGE") :
        tx' = [tx EXCEPT ![r].version = k.version, ![r].stage = "keys"]
  BY DEF BuildArgs, ArgsKeys
<1> DEFINE t == [tx[r] EXCEPT !.version = k.version, !.stage = "keys"]
<1>3. tx' = [tx EXCEPT ![r] = t]
  BY <1>1, <1>2
<1>4. k \in Visible(r) /\ k \in KeyRows /\ k.purpose = "STORAGE"
  BY <1>1 DEF ActiveIn, RequestSound, Orderly
<1>5. /\ t \in TxStates /\ t.stage = "keys" /\ t.own = tx[r].own /\ t.creates = tx[r].creates
      /\ t.value = tx[r].value /\ t.known = tx[r].known /\ t.version = k.version
  BY <1>1, <1>4 DEF TxStates, Stages, KeyRows
<1> HIDE DEF t
<1>6. keys \cup t.own = Visible(r)
  BY <1>5 DEF Visible
<1>7. HasVersion(keys \cup t.own, "STORAGE", t.version)
  BY <1>4, <1>5, <1>6 DEF HasVersion
<1>8. /\ Orderly(keys \cup t.own)
      /\ t.own # {} => ~KeysInPlace
      /\ ~t.creates
  BY <1>1, <1>5, <1>6 DEF RequestSound, Purposes
<1>9. \A q \in Made("keys") : \E j \in keys \cup t.own : j.purpose = q
  BY <1>1, <1>6 DEF RequestSound, Made
<1> QED
  BY <1>1, <1>3, <1>5, <1>7, <1>8, <1>9, Advances

(* The keys of a version are a pair only if each is the only one.          *)
LEMMA OnePair ==
    ASSUME NEW A, NEW B, NEW a, NEW b, A \X B = {<<a, b>>}
    PROVE  A = {a} /\ B = {b}
<1>1. a \in A /\ b \in B
  <2>1. <<a, b>> \in A \X B
    OBVIOUS
  <2> QED
    BY <2>1
<1>2. ASSUME NEW c \in A PROVE c = a
  <2>1. <<c, b>> \in A \X B
    BY <1>1
  <2>2. <<c, b>> = <<a, b>>
    BY <2>1
  <2> QED
    BY <2>2
<1>3. ASSUME NEW c \in B PROVE c = b
  <2>1. <<a, c>> \in A \X B
    BY <1>1
  <2>2. <<a, c>> = <<a, b>>
    BY <2>1
  <2> QED
    BY <2>2
<1> QED
  BY <1>1, <1>2, <1>3

LEMMA GetDeksStep ==
    ASSUME KeysInv, FirstUseAlone, NEW r \in Requests, GetDeks(r)
    PROVE  KeysInv'
<1>1. /\ tx \in [Requests -> TxStates] /\ tx[r] \in TxStates /\ RequestSound(r)
      /\ tx[r].stage = "keys" /\ InTx(r)
      /\ keys' = keys /\ records' = records /\ rotation' = rotation
  BY DEF KeysInv, TypeOK, GetDeks, InTx
<1> DEFINE A == ByVersion(Visible(r), "DATABASE", tx[r].version)
           B == ByVersion(Visible(r), "SEARCH", tx[r].version)
<1>2. PICK pair \in A \X B :
        /\ A \X B = {pair}
        /\ tx' = [tx EXCEPT ![r].dek = pair[1], ![r].token = <<pair[2], tx[r].value>>,
                            ![r].stage = "look"]
  BY DEF GetDeks, KeysOf
<1> DEFINE a == pair[1]
           b == pair[2]
           t == [tx[r] EXCEPT !.dek = a, !.token = <<b, tx[r].value>>, !.stage = "look"]
<1>3. a \in A /\ b \in B
  BY <1>2
<1>4. tx' = [tx EXCEPT ![r] = t]
  BY <1>1, <1>2
<1>5. /\ HasKey(Visible(r), "DATABASE", tx[r].version, a) /\ a \in Deks
      /\ HasKey(Visible(r), "SEARCH", tx[r].version, b) /\ b \in Deks
  BY <1>1, <1>3 DEF ByVersion, HasKey, RequestSound, Orderly, KeyRows
<1> HIDE DEF a, b
<1>6. tx[r].value \in Values
  BY <1>1 DEF RequestSound
<1>7. /\ t \in TxStates /\ t.stage = "look" /\ t.own = tx[r].own /\ t.creates = tx[r].creates
      /\ t.value = tx[r].value /\ t.known = tx[r].known /\ t.version = tx[r].version
      /\ t.dek = a /\ t.token = <<b, t.value>>
  BY <1>1, <1>5, <1>6 DEF TxStates, Stages, Tokens
<1> HIDE DEF t
<1>8. keys \cup t.own = Visible(r)
  BY <1>7 DEF Visible
<1>9. /\ Orderly(keys \cup t.own)
      /\ t.own # {} => ~KeysInPlace
      /\ ~t.creates
      /\ HasVersion(keys \cup t.own, "STORAGE", t.version)
  BY <1>1, <1>7, <1>8 DEF RequestSound, Purposes
<1>10. \A q \in Made("look") : \E j \in keys \cup t.own : j.purpose = q
  BY <1>1, <1>8 DEF RequestSound, Made
<1>11. /\ HasKey(keys \cup t.own, "DATABASE", t.version, t.dek)
       /\ \E d \in Deks : t.token = <<d, t.value>> /\ HasKey(keys \cup t.own, "SEARCH", t.version, d)
  BY <1>5, <1>7, <1>8
<1> QED
  BY <1>1, <1>4, <1>7, <1>9, <1>10, <1>11, Advances

LEMMA GoOnToInsertStep ==
    ASSUME KeysInv, FirstUseAlone, NEW r \in Requests, GoOnToInsert(r)
    PROVE  KeysInv'
<1>1. /\ tx \in [Requests -> TxStates] /\ tx[r] \in TxStates /\ RequestSound(r)
      /\ tx[r].stage = "look" /\ tx[r].saves /\ InTx(r)
      /\ keys' = keys /\ records' = records /\ rotation' = rotation
  BY DEF KeysInv, TypeOK, GoOnToInsert, InTx
<1> DEFINE t == [tx[r] EXCEPT !.stage = "insert"]
<1>2. tx' = [tx EXCEPT ![r] = t]
  BY <1>1 DEF GoOnToInsert
<1>3. /\ t \in TxStates /\ t.stage = "insert" /\ t.own = tx[r].own /\ t.creates = tx[r].creates
      /\ t.value = tx[r].value /\ t.known = tx[r].known /\ t.version = tx[r].version
      /\ t.dek = tx[r].dek /\ t.token = tx[r].token /\ t.saves
  BY <1>1 DEF TxStates, Stages
<1> HIDE DEF t
<1>4. keys \cup t.own = Visible(r)
  BY <1>3 DEF Visible
<1>5. /\ Orderly(keys \cup t.own)
      /\ t.own # {} => ~KeysInPlace
      /\ ~t.creates
      /\ HasVersion(keys \cup t.own, "STORAGE", t.version)
      /\ HasKey(keys \cup t.own, "DATABASE", t.version, t.dek)
      /\ \E d \in Deks : t.token = <<d, t.value>> /\ HasKey(keys \cup t.own, "SEARCH", t.version, d)
  BY <1>1, <1>3, <1>4 DEF RequestSound, Purposes
<1>6. \A q \in Made("insert") : \E j \in keys \cup t.own : j.purpose = q
  BY <1>1, <1>4 DEF RequestSound, Made
<1> QED
  BY <1>1, <1>2, <1>3, <1>5, <1>6, Advances

-----------------------------------------------------------------------------
(* A request that ends commits the keys it made or drops them; no other    *)
(* request or rotation is under way when it has made any.                  *)
LEMMA Ends ==
    ASSUME KeysInv, FirstUseAlone, NEW r \in Requests, NEW answer \in Answers, InTx(r),
           Done(r, answer), rotation' = rotation,
           keys' \in {keys, Visible(r)},
           records \subseteq records', records' \subseteq Records,
           \A x \in records' \ records : RecordSound(keys', x),
           TokensDiffer',
           Unrotated("STORAGE")' /\ ~tx[r].saves /\ tx[r].known => answer = "found"
    PROVE  KeysInv'
<1> DEFINE t == [NewTx EXCEPT !.stage = "done", !.answer = answer,
                              !.saves = tx[r].saves, !.known = tx[r].known]
<1>1. tx \in [Requests -> TxStates] /\ tx[r] \in TxStates /\ RequestSound(r)
  BY DEF KeysInv, TypeOK
<1>2. tx' = [tx EXCEPT ![r] = t]
  BY DEF Done
<1>3. /\ t \in TxStates /\ t.stage = "done" /\ t.own = {} /\ ~t.creates
      /\ t.saves = tx[r].saves /\ t.known = tx[r].known /\ t.answer = answer
  BY <1>1 DEF NewTx, TxStates, Stages
<1> HIDE DEF t
<1>4. tx'[r] = t /\ \A q \in Requests \ {r} : tx'[q] = tx[q]
  BY <1>1, <1>2
<1>5. keys' = keys \/ (keys' = Visible(r) /\ ~KeysInPlace)
  <2>1. tx[r].own # {} => ~KeysInPlace
    BY <1>1 DEF RequestSound
  <2> QED
    BY <2>1 DEF Visible
<1>6. Kept(keys, keys') /\ Orderly(keys')
  BY <1>1, <1>5 DEF Kept, RequestSound, Visible, KeysInv
<1>7. TypeOK'
  BY <1>1, <1>2, <1>3, <1>6 DEF KeysInv, TypeOK, Orderly
<1>8. \A x \in records' : RecordSound(keys', x)
  BY <1>6, KeptFound DEF KeysInv
<1>9. FoundAgain'
  BY <1>2, <1>3, <1>6, AnswersStand
<1>10. keys' = keys \/ Alone(r)
  BY <1>1, <1>5 DEF RequestSound
<1>11. ASSUME NEW q \in Requests PROVE RequestSound(q)'
  <2>1. CASE ~InTx(q)'
    <3>1. tx'[q].own = {} /\ ~tx'[q].creates
      <4>1. CASE q = r
        BY <4>1, <1>3, <1>4
      <4>2. CASE q # r
        <5>1. ~InTx(q) /\ tx'[q] = tx[q] /\ RequestSound(q)
          BY <1>4, <2>1, <4>2 DEF InTx, KeysInv
        <5> QED
          BY <5>1 DEF RequestSound
      <4> QED
        BY <4>1, <4>2
    <3>2. Visible(q)' = keys'
      BY <3>1 DEF Visible
    <3>3. tx'[q].stage \in {"idle", "done"}
      BY <2>1 DEF InTx
    <3>4. Made(tx'[q].stage) = {}
      BY <3>3 DEF Made
    <3>5. tx'[q].stage \notin {"keys", "look", "insert"}
      BY <3>3
    <3> QED
      BY <1>6, <2>1, <3>1, <3>2, <3>4, <3>5 DEF RequestSound
  <2>2. CASE InTx(q)'
    <3>1. q # r /\ tx'[q] = tx[q] /\ InTx(q) /\ RequestSound(q)
      BY <1>3, <1>4, <2>2 DEF InTx, KeysInv
    <3>2. keys' = keys
      BY <1>10, <3>1 DEF Alone
    <3>3. Visible(q)' = Visible(q) /\ KeysInPlace' = KeysInPlace
      BY <3>1, <3>2 DEF Visible, KeysInPlace
    <3>4. \A p : Missing(q, p)' = Missing(q, p)
      BY <3>3 DEF Missing
    <3>5. ~KeysInPlace => Alone(q)'
      <4> SUFFICES ASSUME ~KeysInPlace PROVE FALSE
        OBVIOUS
      <4>1. Alone(q)
        BY <3>1 DEF RequestSound
      <4> QED
        BY <3>1, <4>1 DEF Alone
    <3> QED
      BY <3>1, <3>3, <3>4, <3>5, <2>2 DEF RequestSound
  <2> QED
    BY <2>1, <2>2
<1>12. ASSUME NEW w \in Rotations PROVE RotationSound(w)'
  <2> SUFFICES ASSUME Rotating(w)' PROVE RotationSound(w)'
    BY DEF RotationSound
  <2>1. Rotating(w) /\ RotationSound(w)
    BY DEF Rotating, KeysInv
  <2>2. keys' = keys
    BY <1>10, <2>1 DEF Alone
  <2>3. KeysInPlace
    BY <2>1 DEF RotationSound, RotatesAlone
  <2>4. KeysInPlace'
    BY <2>2, <2>3 DEF KeysInPlace
  <2>5. \A x \in Rotations : Rotating(x)' = Rotating(x) /\ Holds(x)' = Holds(x)
    BY DEF Rotating, Holds
  <2> QED
    BY <2>1, <2>2, <2>3, <2>4, <2>5 DEF RotationSound
<1> QED
  BY <1>6, <1>7, <1>8, <1>9, <1>11, <1>12 DEF KeysInv

(* The keys of the version one are there once the request has gone through *)
(* the purposes, one for each.                                             *)
LEMMA FirstKeysFound ==
    ASSUME KeysInv, NEW r \in Requests, tx[r].stage = "keys",
           \A k \in Visible(r) : k.purpose = "STORAGE" => k.version = 1
    PROVE  Cardinality(KeysOf(r)) = 1
<1>1. RequestSound(r) /\ Orderly(Visible(r))
  BY DEF KeysInv, RequestSound
<1>2. tx[r].version = 1
  <2>1. HasVersion(Visible(r), "STORAGE", tx[r].version)
    BY <1>1 DEF RequestSound
  <2> QED
    BY <2>1, UnrotatedVersion
<1>3. ASSUME NEW p \in Purposes PROVE \E d : ByVersion(Visible(r), p, 1) = {d}
  <2>1. \E k \in Visible(r) : k.purpose = p
    BY <1>1 DEF RequestSound, Made
  <2>2. HasVersion(Visible(r), p, 1)
    BY <1>1, <2>1 DEF Orderly, FromOne
  <2>3. PICK d : HasKey(Visible(r), p, 1, d)
    BY <2>2 DEF HasVersion, HasKey
  <2> QED
    BY <1>1, <2>3, FoundByVersion
<1>4. PICK a : ByVersion(Visible(r), "DATABASE", 1) = {a}
  BY <1>3 DEF Purposes
<1>5. PICK b : ByVersion(Visible(r), "SEARCH", 1) = {b}
  BY <1>3 DEF Purposes
<1>6. KeysOf(r) = {<<a, b>>}
  BY <1>2, <1>4, <1>5 DEF KeysOf
<1> QED
  BY <1>6, FS_Singleton

(* A record is read with the keys a request sees.                          *)
LEMMA RecordsRead ==
    ASSUME KeysInv, NEW r \in Requests, NEW x \in records
    PROVE  Reads(r, x.version, x.dek)
<1>1. Orderly(Visible(r)) /\ RecordSound(keys, x)
  BY DEF KeysInv, RequestSound
<1>2. Kept(keys, Visible(r))
  BY DEF Kept, Visible
<1>3. HasKey(Visible(r), "DATABASE", x.version, x.dek)
  BY <1>1, <1>2, KeptFound DEF RecordSound
<1> QED
  BY <1>1, <1>3, FoundByVersion DEF Reads

(* One value has one token as long as the STORAGE key is the first.        *)
LEMMA OneToken ==
    ASSUME NEW rows, Orderly(rows), NEW v, NEW u, NEW d, NEW e,
           \A k \in rows : k.purpose = "STORAGE" => k.version = 1,
           HasVersion(rows, "STORAGE", v), HasVersion(rows, "STORAGE", u),
           HasKey(rows, "SEARCH", v, d), HasKey(rows, "SEARCH", u, e)
    PROVE  d = e
<1>1. v = 1 /\ u = 1
  BY UnrotatedVersion
<1> QED
  BY <1>1 DEF Orderly, OnePerVersion, HasKey

LEMMA KnownMatches ==
    ASSUME KeysInv, NEW r \in Requests, tx[r].stage = "look", tx[r].known,
           \A k \in Visible(r) : k.purpose = "STORAGE" => k.version = 1
    PROVE  Matches(r) # {}
<1>1. RequestSound(r) /\ Orderly(Visible(r)) /\ InTx(r)
  BY DEF KeysInv, RequestSound, InTx
<1>2. PICK x \in records : x.value = tx[r].value
  BY <1>1 DEF RequestSound
<1>3. RecordSound(Visible(r), x)
  <2>1. Kept(keys, Visible(r))
    BY DEF Kept, Visible
  <2> QED
    BY <2>1, KeptFound DEF KeysInv
<1>4. PICK d : x.token = <<d, x.value>> /\ HasKey(Visible(r), "SEARCH", x.version, d)
  BY <1>3 DEF RecordSound
<1>5. PICK e : tx[r].token = <<e, tx[r].value>> /\ HasKey(Visible(r), "SEARCH", tx[r].version, e)
  BY <1>1 DEF RequestSound
<1>6. HasVersion(Visible(r), "STORAGE", x.version) /\ HasVersion(Visible(r), "STORAGE", tx[r].version)
  BY <1>1, <1>3 DEF RecordSound, RequestSound
<1>7. d = e
  BY <1>1, <1>4, <1>5, <1>6, OneToken
<1> QED
  BY <1>2, <1>4, <1>5, <1>7 DEF Matches

LEMMA NoDekStep ==
    ASSUME KeysInv, FirstUseAlone, NEW r \in Requests, NoDek(r)
    PROVE  KeysInv'
<1>1. /\ tx[r].stage = "keys" /\ Cardinality(KeysOf(r)) # 1 /\ InTx(r)
      /\ Done(r, "failed") /\ records' = records /\ rotation' = rotation
      /\ keys' = IF tx[r].saves THEN keys ELSE Visible(r)
  BY DEF NoDek, Fail, InTx, Commits, Visible
<1>2. Unrotated("STORAGE")' /\ ~tx[r].saves /\ tx[r].known => "failed" = "found"
  <2> SUFFICES ASSUME Unrotated("STORAGE")', ~tx[r].saves PROVE FALSE
    OBVIOUS
  <2>1. \A k \in Visible(r) : k.purpose = "STORAGE" => k.version = 1
    BY <1>1 DEF Unrotated
  <2> QED
    BY <1>1, <2>1, FirstKeysFound
<1>3. records' \subseteq Records /\ TokensDiffer' /\ "failed" \in Answers
  BY <1>1 DEF KeysInv, TypeOK, TokensDiffer, Answers
<1> QED
  BY <1>1, <1>2, <1>3, Ends

LEMMA LookStep ==
    ASSUME KeysInv, FirstUseAlone, NEW r \in Requests, Look(r)
    PROVE  KeysInv'
<1>1. \A x \in Matches(r) : Reads(r, x.version, x.dek)
  BY RecordsRead DEF Matches
<1>2. /\ InTx(r) /\ Done(r, "found") /\ keys' = Visible(r)
      /\ records' = records /\ rotation' = rotation
  BY <1>1 DEF Look, InTx, Commits, Visible
<1>3. records' \subseteq Records /\ TokensDiffer' /\ "found" \in Answers
  BY <1>2 DEF KeysInv, TypeOK, TokensDiffer, Answers
<1> QED
  BY <1>2, <1>3, Ends

LEMMA LookInVainStep ==
    ASSUME KeysInv, FirstUseAlone, NEW r \in Requests, LookInVain(r)
    PROVE  KeysInv'
<1>1. /\ InTx(r) /\ Done(r, "absent") /\ keys' = Visible(r)
      /\ tx[r].stage = "look" /\ Matches(r) = {}
      /\ records' = records /\ rotation' = rotation
  BY DEF LookInVain, InTx, Commits, Visible
<1>2. ~(Unrotated("STORAGE")' /\ tx[r].known)
  BY <1>1, KnownMatches DEF Unrotated
<1>3. records' \subseteq Records /\ TokensDiffer' /\ "absent" \in Answers
  BY <1>1 DEF KeysInv, TypeOK, TokensDiffer, Answers
<1> QED
  BY <1>1, <1>2, <1>3, Ends

LEMMA InsertStep ==
    ASSUME KeysInv, FirstUseAlone, NEW r \in Requests, Insert(r)
    PROVE  KeysInv'
<1> DEFINE n == [by |-> r, value |-> tx[r].value, version |-> tx[r].version,
                 dek |-> tx[r].dek, token |-> tx[r].token]
<1>1. /\ InTx(r) /\ Done(r, "saved") /\ keys' = Visible(r) /\ tx[r].stage = "insert"
      /\ TokenFree(r) /\ records' = records \cup {n} /\ rotation' = rotation
  BY DEF Insert, InTx, Commits, Visible
<1>2. RequestSound(r) /\ Visible(r) \subseteq KeyRows
  BY DEF KeysInv, RequestSound, Orderly
<1>3. RecordSound(Visible(r), n)
  BY <1>1, <1>2 DEF RequestSound, RecordSound
<1>4. n \in Records
  <2>1. tx[r].version \in Nat \ {0} /\ tx[r].dek \in Deks
    BY <1>1, <1>2 DEF RequestSound, HasKey, KeyRows
  <2>2. tx[r].value \in Values
    BY <1>1, <1>2 DEF RequestSound
  <2>3. PICK d \in Deks : tx[r].token = <<d, tx[r].value>>
    BY <1>1, <1>2 DEF RequestSound
  <2>4. tx[r].token \in Tokens
    BY <2>2, <2>3 DEF Tokens
  <2> QED
    BY <2>1, <2>2, <2>4 DEF Records
<1>5. TokensDiffer'
  <2>1. \A x \in records : x.token # n.token
    BY <1>1 DEF TokenFree, Matches
  <2> HIDE DEF n
  <2> QED
    BY <1>1, <2>1 DEF KeysInv, TokensDiffer
<1>6. tx[r].saves
  BY <1>1, <1>2 DEF RequestSound
<1> HIDE DEF n
<1>7. /\ records \subseteq records' /\ records' \subseteq Records
      /\ \A x \in records' \ records : RecordSound(keys', x)
      /\ "saved" \in Answers
  BY <1>1, <1>3, <1>4 DEF KeysInv, TypeOK, Answers
<1> QED
  BY <1>1, <1>5, <1>6, <1>7, Ends

LEMMA RefuseInsertStep ==
    ASSUME KeysInv, FirstUseAlone, NEW r \in Requests, RefuseInsert(r)
    PROVE  KeysInv'
<1>1. /\ InTx(r) /\ tx[r].stage = "insert"
      /\ keys' = keys /\ records' = records /\ rotation' = rotation
  BY DEF RefuseInsert, InTx
<1>2. PICK answer \in Answers : Done(r, answer)
  BY DEF RefuseInsert, Answers
<1>3. tx[r].saves
  BY <1>1 DEF KeysInv, RequestSound
<1>4. records' \subseteq Records /\ TokensDiffer'
  BY <1>1 DEF KeysInv, TypeOK, TokensDiffer
<1> QED
  BY <1>1, <1>2, <1>3, <1>4, Ends

-----------------------------------------------------------------------------
(* A retired row is the row but for being active.                          *)
LEMMA RetireType ==
    ASSUME NEW k \in KeyRows
    PROVE  /\ Retire(k) \in KeyRows /\ Retire(k).purpose = k.purpose
           /\ Retire(k).version = k.version /\ Retire(k).dek = k.dek
           /\ \A j \in KeyRows : /\ j.purpose = k.purpose /\ j.version = k.version
                                 /\ j.dek = k.dek
                                 => Retire(j) = Retire(k)
BY DEF KeyRows, Retire

(* Once keys are in place rotations of one purpose all wait for its first  *)
(* row.                                                                    *)
LEMMA ShareFirst ==
    ASSUME KeysInv, KeysInPlace, NEW w \in Rotations, NEW x \in Rotations,
           Rotating(w), Rotating(x), rotation[x].purpose = rotation[w].purpose
    PROVE  rotation[x].seen \cap rotation[w].seen # {}
<1>1. RotationSound(w) /\ RotationSound(x) /\ Orderly(keys)
  BY DEF KeysInv
<1>2. PICK s \in rotation[w].seen : s.version = 1
  BY <1>1 DEF RotationSound
<1>3. PICK u \in rotation[x].seen : u.version = 1
  BY <1>1 DEF RotationSound
<1>4. PICK k \in keys : s = Retire(k)
  BY <1>1 DEF RotationSound
<1>5. PICK j \in keys : u = Retire(j)
  BY <1>1 DEF RotationSound
<1>6. s.purpose = rotation[w].purpose /\ u.purpose = rotation[w].purpose
  BY <1>1 DEF RotationSound
<1>7. k.purpose = j.purpose /\ k.version = j.version
  BY <1>1, <1>2, <1>3, <1>4, <1>5, <1>6, RetireType DEF Orderly
<1>8. s = u
  BY <1>1, <1>4, <1>5, <1>7 DEF Orderly, OnePerVersion
<1> QED
  BY <1>8

(* A rotation begins with the first row of its purpose, and nothing        *)
(* overlaps it while keys are missing.                                     *)
LEMMA BeginRotationStep ==
    ASSUME KeysInv, FirstUseAlone, NEW w \in Rotations, NEW p \in Purposes, BeginRotation(w, p)
    PROVE  KeysInv'
<1> DEFINE old == {Retire(k) : k \in {j \in keys : j.purpose = p}}
           t == [stage |-> "waiting", purpose |-> p, own |-> {}, seen |-> old]
<1>1. /\ rotation[w].stage = "idle" /\ MayBegin
      /\ rotation' = [rotation EXCEPT ![w] = t]
      /\ keys' = keys /\ records' = records /\ tx' = tx
  BY DEF BeginRotation
<1>2. rotation \in [Rotations -> RotationStates] /\ keys \subseteq KeyRows /\ Orderly(keys)
  BY DEF KeysInv, TypeOK
<1>a. \A s \in old : s \in KeyRows /\ s.purpose = p /\ \E k \in keys : s = Retire(k)
  BY <1>2, RetireType
<1>b. KeysInPlace => \E s \in old : s.version = 1
  <2> SUFFICES ASSUME KeysInPlace PROVE \E s \in old : s.version = 1
    OBVIOUS
  <2>1. PICK k \in keys : k.purpose = p
    BY DEF KeysInPlace, ActiveIn
  <2>2. PICK j \in keys : j.purpose = p /\ j.version = 1
    BY <1>2, <2>1 DEF Orderly, FromOne, HasVersion
  <2>3. Retire(j) \in old /\ Retire(j).version = 1
    BY <1>2, <2>2, RetireType
  <2> QED
    BY <2>3
<1> HIDE DEF old
<1>3. /\ t \in RotationStates /\ t.stage = "waiting" /\ t.purpose = p /\ t.seen = old
  BY <1>a DEF RotationStates
<1> HIDE DEF t
<1>4. rotation'[w] = t /\ \A x \in Rotations \ {w} : rotation'[x] = rotation[x]
  BY <1>1, <1>2
<1>5. /\ \A x \in Rotations \ {w} : Rotating(x)' = Rotating(x)
      /\ ~Rotating(w)
      /\ \A q \in Requests : InTx(q)' = InTx(q)
      /\ KeysInPlace' = KeysInPlace
      /\ \A q \in Requests : Visible(q)' = Visible(q)
      /\ \A x \in Rotations \ {w} : Holds(x)' = Holds(x)
      /\ ~Holds(w)'
  BY <1>1, <1>3, <1>4 DEF Rotating, InTx, KeysInPlace, Visible, Holds
<1>6. ~KeysInPlace => (\A r \in Requests : ~InTx(r)) /\ (\A x \in Rotations : ~Rotating(x))
  BY <1>1 DEF MayBegin
<1>7. TypeOK'
  BY <1>1, <1>2, <1>3 DEF KeysInv, TypeOK
<1>8. ASSUME NEW q \in Requests PROVE RequestSound(q)'
  <2>1. RequestSound(q)
    BY DEF KeysInv
  <2>2. \A o : Missing(q, o)' = Missing(q, o)
    BY <1>5 DEF Missing
  <2> QED
    BY <1>1, <1>5, <1>6, <2>1, <2>2 DEF RequestSound
<1>9. ASSUME NEW x \in Rotations PROVE RotationSound(x)'
  <2>1. ~KeysInPlace /\ Rotating(x)' => RotatesAlone(x)'
    BY <1>5, <1>6 DEF RotatesAlone
  <2>2. CASE x = w
    BY <1>1, <1>3, <1>4, <1>5, <1>a, <1>b, <2>1, <2>2 DEF RotationSound
  <2>3. CASE x # w
    <3>1. RotationSound(x) /\ rotation'[x] = rotation[x] /\ Rotating(x)' = Rotating(x)
      BY <1>4, <1>5, <2>3 DEF KeysInv
    <3> QED
      BY <1>1, <1>3, <1>4, <1>5, <2>1, <2>3, <3>1 DEF RotationSound
  <2> QED
    BY <2>2, <2>3
<1>10. FoundAgain' /\ TokensDiffer' /\ Orderly(keys)' /\ \A x \in records' : RecordSound(keys, x)'
  BY <1>1 DEF KeysInv, FoundAgain, TokensDiffer, Unrotated
<1> QED
  BY <1>7, <1>8, <1>9, <1>10 DEF KeysInv

(* It is the only one of its purpose that goes on.                         *)
LEMMA DeactivateStep ==
    ASSUME KeysInv, FirstUseAlone, NEW w \in Rotations, Deactivate(w)
    PROVE  KeysInv'
<1> DEFINE t == [rotation[w] EXCEPT !.stage = "deactivated"]
<1>1. /\ rotation[w].stage = "waiting"
      /\ \A x \in Rotations : Holds(x) => rotation[x].seen \cap rotation[w].seen = {}
      /\ rotation' = [rotation EXCEPT ![w] = t]
      /\ keys' = keys /\ records' = records /\ tx' = tx
  BY DEF Deactivate, KeysInv, TypeOK
<1>2. /\ rotation \in [Rotations -> RotationStates] /\ rotation[w] \in RotationStates
      /\ RotationSound(w) /\ Rotating(w)
  BY <1>1 DEF KeysInv, TypeOK, Rotating
<1>3. /\ t \in RotationStates /\ t.stage = "deactivated" /\ t.purpose = rotation[w].purpose
      /\ t.seen = rotation[w].seen
  BY <1>2 DEF RotationStates
<1> HIDE DEF t
<1>4. rotation'[w] = t /\ \A x \in Rotations \ {w} : rotation'[x] = rotation[x]
  BY <1>1, <1>2
<1>5. /\ \A x \in Rotations : Rotating(x)' = Rotating(x) /\ rotation'[x].purpose = rotation[x].purpose
                              /\ rotation'[x].seen = rotation[x].seen
      /\ \A q \in Requests : InTx(q)' = InTx(q)
      /\ KeysInPlace' = KeysInPlace
      /\ \A q \in Requests : Visible(q)' = Visible(q)
      /\ \A x \in Rotations \ {w} : Holds(x)' = Holds(x)
  BY <1>1, <1>2, <1>3, <1>4 DEF Rotating, InTx, KeysInPlace, Visible, Holds
<1>6. ASSUME NEW x \in Rotations, Holds(x) PROVE rotation[x].purpose # rotation[w].purpose
  <2> SUFFICES ASSUME rotation[x].purpose = rotation[w].purpose PROVE FALSE
    OBVIOUS
  <2>1. Rotating(x) /\ x # w
    BY <1>1, <1>6 DEF Holds, Rotating
  <2>2. KeysInPlace
    BY <1>2, <2>1 DEF RotationSound, RotatesAlone
  <2> QED
    BY <1>1, <1>2, <1>6, <2>1, <2>2, ShareFirst
<1>7. TypeOK'
  BY <1>1, <1>2, <1>3 DEF KeysInv, TypeOK
<1>8. ASSUME NEW q \in Requests PROVE RequestSound(q)'
  <2>1. RequestSound(q)
    BY DEF KeysInv
  <2>2. Alone(q) => Alone(q)'
    BY <1>5 DEF Alone
  <2>3. \A o : Missing(q, o)' = Missing(q, o)
    BY <1>5 DEF Missing
  <2> QED
    BY <1>1, <1>5, <2>1, <2>2, <2>3 DEF RequestSound
<1>9. ASSUME NEW x \in Rotations PROVE RotationSound(x)'
  <2>1. RotationSound(x) /\ (RotatesAlone(x) => RotatesAlone(x)')
    BY <1>5 DEF KeysInv, RotatesAlone
  <2>2. rotation'[x].stage = "created" => rotation'[x] = rotation[x]
    BY <1>3, <1>4
  <2>3. Holds(x)' => \A y \in Rotations : Holds(y)' /\ rotation[y].purpose = rotation[x].purpose => y = x
    <3> SUFFICES ASSUME Holds(x)', NEW y \in Rotations, Holds(y)', x # y,
                        rotation[y].purpose = rotation[x].purpose
                 PROVE  FALSE
      OBVIOUS
    <3>1. CASE x = w
      BY <1>5, <1>6, <3>1
    <3>2. CASE y = w
      BY <1>5, <1>6, <3>2
    <3>3. CASE x # w /\ y # w
      <4>1. Holds(x) /\ Holds(y) /\ Rotating(x)
        BY <1>5, <3>3 DEF Holds, Rotating
      <4> QED
        BY <2>1, <4>1 DEF RotationSound
    <3> QED
      BY <3>1, <3>2, <3>3
  <2> QED
    BY <1>1, <1>5, <2>1, <2>2, <2>3 DEF RotationSound
<1>10. FoundAgain' /\ TokensDiffer' /\ Orderly(keys)' /\ \A x \in records' : RecordSound(keys, x)'
  BY <1>1 DEF KeysInv, FoundAgain, TokensDiffer, Unrotated
<1> QED
  BY <1>7, <1>8, <1>9, <1>10 DEF KeysInv

LEMMA CreateDekStep ==
    ASSUME KeysInv, FirstUseAlone, NEW w \in Rotations, CreateDek(w)
    PROVE  KeysInv'
<1> DEFINE p == rotation[w].purpose
           n == NewKey(w, keys, p)
           t == [rotation[w] EXCEPT !.stage = "created", !.own = {n}]
<1>1. /\ rotation[w].stage = "deactivated"
      /\ rotation' = [rotation EXCEPT ![w] = t]
      /\ keys' = keys /\ records' = records /\ tx' = tx
  BY DEF CreateDek, KeysInv, TypeOK
<1>2. /\ rotation \in [Rotations -> RotationStates] /\ rotation[w] \in RotationStates
      /\ Orderly(keys) /\ RotationSound(w) /\ Rotating(w)
  BY <1>1 DEF KeysInv, TypeOK, Rotating
<1>3. p \in Purposes
  BY <1>2 DEF RotationSound
<1>4. n \in KeyRows
  <2>1. NextVersion(keys, p) \in Nat \ {0}
    BY <1>2, <1>3, NextIsAbove DEF Orderly, Numbered
  <2> HIDE DEF p
  <2> QED
    BY <1>3, <2>1 DEF NewKey, KeyRows, Deks
<1> HIDE DEF n
<1>5. /\ t \in RotationStates /\ t.stage = "created" /\ t.purpose = p
      /\ t.seen = rotation[w].seen /\ t.own = {n}
  BY <1>2, <1>4 DEF RotationStates
<1> HIDE DEF t
<1>6. rotation'[w] = t /\ \A x \in Rotations \ {w} : rotation'[x] = rotation[x]
  BY <1>1, <1>2
<1>7. /\ \A x \in Rotations : Rotating(x)' = Rotating(x) /\ rotation'[x].purpose = rotation[x].purpose
      /\ \A q \in Requests : InTx(q)' = InTx(q)
      /\ KeysInPlace' = KeysInPlace
      /\ \A q \in Requests : Visible(q)' = Visible(q)
      /\ \A x \in Rotations : Holds(x)' = Holds(x)
  BY <1>1, <1>2, <1>5, <1>6 DEF Rotating, InTx, KeysInPlace, Visible, Holds
<1>8. TypeOK'
  BY <1>1, <1>2, <1>5 DEF KeysInv, TypeOK
<1>9. ASSUME NEW q \in Requests PROVE RequestSound(q)'
  <2>1. RequestSound(q)
    BY DEF KeysInv
  <2>2. Alone(q) => Alone(q)'
    BY <1>7 DEF Alone
  <2>3. \A o : Missing(q, o)' = Missing(q, o)
    BY <1>7 DEF Missing
  <2> QED
    BY <1>1, <1>7, <2>1, <2>2, <2>3 DEF RequestSound
<1>10. ASSUME NEW x \in Rotations PROVE RotationSound(x)'
  <2>1. RotationSound(x) /\ (RotatesAlone(x) => RotatesAlone(x)')
    BY <1>7 DEF KeysInv, RotatesAlone
  <2>2. rotation'[x].seen = rotation[x].seen
    BY <1>5, <1>6
  <2>3. rotation'[x].stage = "created" => rotation'[x].own = {NewKey(x, keys, rotation[x].purpose)}
    <3>1. CASE x = w
      BY <1>5, <1>6, <3>1 DEF n
    <3>2. CASE x # w
      <4>1. rotation'[x] = rotation[x]
        BY <1>6, <3>2
      <4> QED
        BY <2>1, <4>1 DEF RotationSound, Rotating
    <3> QED
      BY <3>1, <3>2
  <2> QED
    BY <1>1, <1>7, <2>1, <2>2, <2>3 DEF RotationSound
<1>11. FoundAgain' /\ TokensDiffer' /\ Orderly(keys)' /\ \A x \in records' : RecordSound(keys, x)'
  BY <1>1 DEF KeysInv, FoundAgain, TokensDiffer, Unrotated
<1> QED
  BY <1>8, <1>9, <1>10, <1>11 DEF KeysInv

LEMMA CommitRotationStep ==
    ASSUME KeysInv, FirstUseAlone, NEW w \in Rotations, CommitRotation(w)
    PROVE  KeysInv'
<1> DEFINE p == rotation[w].purpose
           seen == rotation[w].seen
           t == [NewRotation EXCEPT !.stage = "done"]
<1>1. /\ rotation[w].stage = "created"
      /\ rotation' = [rotation EXCEPT ![w] = t]
      /\ records' = records /\ tx' = tx
      /\ keys' = Retired(keys, rotation[w].seen) \cup rotation[w].own
  BY DEF CommitRotation
<1>2. /\ rotation \in [Rotations -> RotationStates]
      /\ Orderly(keys) /\ RotationSound(w) /\ Rotating(w)
  BY <1>1 DEF KeysInv, TypeOK, Rotating
<1>3. /\ p \in Purposes /\ \A s \in seen : s.purpose = p
      /\ keys' = Retired(keys, seen) \cup {NewKey(w, keys, p)}
  BY <1>1, <1>2 DEF RotationSound
<1>4. t \in RotationStates /\ t.stage = "done"
  BY DEF NewRotation, RotationStates
<1> HIDE DEF p, seen, t
<1>5. /\ Orderly(keys') /\ Kept(keys, keys') /\ \E k \in keys' : k.purpose = p /\ k.active
      /\ \A k : k.purpose # p => (k \in keys' <=> k \in keys)
  <2>1. Orderly(keys)
    BY <1>2
  <2> QED
    BY ONLY <1>3, <2>1, w \in Rotations, RotatedInOrder
<1>6. rotation'[w] = t /\ \A x \in Rotations \ {w} : rotation'[x] = rotation[x]
  BY <1>1, <1>2
<1>7. /\ ~Rotating(w)'
      /\ \A x \in Rotations \ {w} : Rotating(x)' = Rotating(x)
      /\ \A q \in Requests : InTx(q)' = InTx(q)
      /\ ~Holds(w)' /\ \A x \in Rotations \ {w} : Holds(x)' = Holds(x)
  BY <1>1, <1>4, <1>6 DEF Rotating, InTx, Holds
<1>8. KeysInPlace => KeysInPlace'
  <2> SUFFICES ASSUME KeysInPlace, NEW o \in Purposes PROVE ActiveIn(keys', o) # {}
    BY DEF KeysInPlace
  <2>1. CASE o = p
    BY <1>5, <2>1 DEF ActiveIn
  <2>2. CASE o # p
    <3>1. PICK k \in ActiveIn(keys, o) : TRUE
      BY DEF KeysInPlace
    <3>2. k \in keys /\ k.purpose = o /\ k.active
      BY <3>1 DEF ActiveIn
    <3>3. k \in keys'
      BY <1>5, <2>2, <3>2
    <3> QED
      BY <3>2, <3>3 DEF ActiveIn
  <2> QED
    BY <2>1, <2>2
<1>9. ~KeysInPlace => (\A q \in Requests : ~InTx(q)) /\ (\A x \in Rotations : Rotating(x) => x = w)
  BY <1>2 DEF RotationSound, RotatesAlone
<1>10. TypeOK'
  BY <1>1, <1>2, <1>4, <1>5 DEF KeysInv, TypeOK, Orderly
<1>11. ASSUME NEW q \in Requests PROVE RequestSound(q)'
  <2>1. RequestSound(q) /\ tx'[q] = tx[q]
    BY <1>1 DEF KeysInv
  <2>2. tx[q].own = {} /\ ~tx[q].creates
    BY <1>9, <2>1 DEF RequestSound
  <2>3. Visible(q) = keys /\ Visible(q)' = keys'
    BY <2>1, <2>2 DEF Visible
  <2>4. ~(InTx(q) /\ ~KeysInPlace')
    BY <1>8, <1>9
  <2>5. /\ \A o, v : HasVersion(keys, o, v) => HasVersion(keys', o, v)
        /\ \A o, v, d : HasKey(keys, o, v, d) => HasKey(keys', o, v, d)
        /\ \A o : (\E k \in keys : k.purpose = o) => (\E k \in keys' : k.purpose = o)
    BY <1>5, KeptFound
  <2>6. \A o \in Made(tx[q].stage) : \E k \in keys' : k.purpose = o
    BY <2>1, <2>3, <2>5 DEF RequestSound
  <2>7. tx[q].stage \in {"keys", "look", "insert"} => HasVersion(keys', "STORAGE", tx[q].version)
    BY <2>1, <2>3, <2>5 DEF RequestSound
  <2>8. tx[q].stage \in {"look", "insert"} =>
          /\ HasKey(keys', "DATABASE", tx[q].version, tx[q].dek)
          /\ \E d \in Deks : /\ tx[q].token = <<d, tx[q].value>>
                             /\ HasKey(keys', "SEARCH", tx[q].version, d)
    BY <2>1, <2>3, <2>5 DEF RequestSound
  <2> QED
    BY <1>1, <1>5, <1>7, <2>1, <2>2, <2>3, <2>4, <2>6, <2>7, <2>8 DEF RequestSound
<1>12. ASSUME NEW x \in Rotations PROVE RotationSound(x)'
  <2> SUFFICES ASSUME Rotating(x)' PROVE RotationSound(x)'
    BY DEF RotationSound
  <2>1. x # w /\ Rotating(x) /\ RotationSound(x) /\ rotation'[x] = rotation[x]
    BY <1>6, <1>7 DEF KeysInv
  <2> DEFINE o == rotation[x].purpose
  <2>2. ASSUME Holds(x) PROVE NewKey(x, keys', o) = NewKey(x, keys, o)
    <3>1. o # p
      BY <1>1, <1>2, <2>1, <2>2 DEF RotationSound, Holds, p
    <3>2. {k \in keys' : k.purpose = o} = {k \in keys : k.purpose = o}
      BY <1>5, <3>1
    <3> QED
      BY <3>2 DEF NewKey, NextVersion
  <2>3. ASSUME NEW s \in rotation[x].seen PROVE \E j \in keys' : s = Retire(j)
    <3>1. PICK k \in keys : s = Retire(k)
      BY <2>1 DEF RotationSound
    <3>2. PICK j \in keys' : j.purpose = k.purpose /\ j.version = k.version /\ j.dek = k.dek
      BY <1>5 DEF Kept
    <3>3. j \in KeyRows /\ k \in KeyRows
      BY <1>2, <1>5 DEF Orderly
    <3> QED
      BY <3>1, <3>2, <3>3, RetireType
  <2>4. KeysInPlace /\ KeysInPlace'
    BY <1>8, <1>9, <2>1
  <2>5. \A y \in Rotations : Holds(y)' => Holds(y) /\ rotation'[y] = rotation[y]
    BY <1>6, <1>7
  <2>6. rotation[x].stage = "created" => Holds(x)
    BY DEF Holds
  <2>7. /\ o \in Purposes /\ \A s \in rotation[x].seen : s.purpose = o
        /\ \E s \in rotation[x].seen : s.version = 1
        /\ rotation[x].stage = "created" => rotation[x].own = {NewKey(x, keys, o)}
        /\ Holds(x) => \A y \in Rotations : Holds(y) /\ rotation[y].purpose = o => y = x
    BY <2>1, <2>4 DEF RotationSound
  <2>8. /\ \A s \in rotation'[x].seen : s.purpose = o /\ \E k \in keys' : s = Retire(k)
        /\ rotation'[x].stage = "created" => rotation'[x].own = {NewKey(x, keys', o)}
        /\ Holds(x)' => \A y \in Rotations : Holds(y)' /\ rotation'[y].purpose = o => y = x
    BY <2>1, <2>2, <2>3, <2>5, <2>6, <2>7
  <2> QED
    BY <2>1, <2>4, <2>7, <2>8 DEF RotationSound
<1>13. FoundAgain'
  <2>1. Unrotated("STORAGE")' => Unrotated("STORAGE")
    BY <1>5 DEF Unrotated, Kept
  <2> QED
    BY <1>1, <2>1 DEF KeysInv, FoundAgain
<1>14. TokensDiffer' /\ \A x \in records' : RecordSound(keys', x)
  BY <1>1, <1>5, KeptFound DEF KeysInv, TokensDiffer
<1> QED
  BY <1>5, <1>10, <1>11, <1>12, <1>13, <1>14 DEF KeysInv

-----------------------------------------------------------------------------
LEMMA KeysInvHolds ==
    ASSUME FirstUseAlone
    PROVE  Spec => []KeysInv
<1>1. Init => KeysInv
  <2> SUFFICES ASSUME Init PROVE KeysInv
    OBVIOUS
  <2>1. NewTx \in TxStates /\ NewRotation \in RotationStates
    BY DEF NewTx, TxStates, Stages, Answers, NewRotation, RotationStates
  <2>2. TypeOK
    BY <2>1 DEF Init, TypeOK
  <2>3. \A p \in Purposes : VersionsOf({}, p) = {0}
    BY DEF VersionsOf
  <2>4. Topped({})
    BY <2>3 DEF Topped
  <2>5. Orderly({}) /\ keys = {}
    BY <2>4 DEF Orderly, OnePerVersion, TopActive, FromOne, Init
  <2>6. ASSUME NEW r \in Requests PROVE RequestSound(r)
    <3>1. tx[r] = NewTx
      BY DEF Init
    <3>2. /\ tx[r].stage = "idle" /\ tx[r].own = {} /\ tx[r].creates = FALSE
      BY <3>1 DEF NewTx
    <3>3. Visible(r) = {} /\ ~InTx(r) /\ Made(tx[r].stage) = {}
      BY <2>5, <3>2 DEF Visible, InTx, Made
    <3> QED
      BY <2>5, <3>2, <3>3 DEF RequestSound
  <2>7. \A w \in Rotations : RotationSound(w)
    BY DEF Init, NewRotation, RotationSound, Rotating
  <2>8. records = {} /\ TokensDiffer /\ FoundAgain
    BY DEF Init, NewTx, TokensDiffer, FoundAgain
  <2> QED
    BY <2>2, <2>5, <2>6, <2>7, <2>8 DEF KeysInv
<1>2. KeysInv /\ [Next]_keyVars => KeysInv'
  <2> SUFFICES ASSUME KeysInv, [Next]_keyVars PROVE KeysInv'
    OBVIOUS
  <2>1. ASSUME NEW r \in Requests, Request(r) PROVE KeysInv'
    BY <2>1, BeginStep, FindActiveStep, CreateMissingStep, BuildArgsStep, GetDeksStep, NoDekStep,
       LookStep, LookInVainStep, GoOnToInsertStep, InsertStep, RefuseInsertStep DEF Request
  <2>2. ASSUME NEW w \in Rotations, Rotate(w) PROVE KeysInv'
    BY <2>2, BeginRotationStep, DeactivateStep, CreateDekStep, CommitRotationStep DEF Rotate
  <2>3. CASE UNCHANGED keyVars
    <3>1. keys' = keys /\ records' = records /\ tx' = tx /\ rotation' = rotation
      BY <2>3 DEF keyVars
    <3>2. KeysInPlace' = KeysInPlace
      BY <3>1 DEF KeysInPlace
    <3>3. ASSUME NEW r \in Requests PROVE RequestSound(r)'
      BY <3>1, <3>2 DEF KeysInv, RequestSound, Visible, InTx, Missing, Alone, Rotating
    <3>4. ASSUME NEW w \in Rotations PROVE RotationSound(w)'
      BY <3>1, <3>2 DEF KeysInv, RotationSound, RotatesAlone, InTx, Rotating, Holds
    <3> QED
      BY <3>1, <3>3, <3>4 DEF KeysInv, TypeOK, TokensDiffer, FoundAgain, Unrotated
  <2> QED
    BY <2>1, <2>2, <2>3 DEF Next
<1> QED
  BY <1>1, <1>2, PTL DEF Spec

(* Whatever is rotated, a record names the one key that reads it (the      *)
(* promise of KeysManagerService).                                         *)
THEOREM RecordsStayReadable ==
    ASSUME FirstUseAlone
    PROVE  Spec => []StaysReadable
<1>1. KeysInv => StaysReadable
  <2> SUFFICES ASSUME KeysInv, NEW x \in records
               PROVE  ByVersion(keys, "DATABASE", x.version) = {x.dek}
    BY DEF StaysReadable
  <2>1. Orderly(keys) /\ HasKey(keys, "DATABASE", x.version, x.dek)
    BY DEF KeysInv, RecordSound
  <2> QED
    BY <2>1, FoundByVersion
<1> QED
  BY <1>1, KeysInvHolds, PTL

(* The newest key of a purpose is active: what is written next is written  *)
(* with the key made last, though rotations that overlap leave older ones  *)
(* active.                                                                 *)
THEOREM NewestKeyIsActive ==
    ASSUME FirstUseAlone
    PROVE  Spec => []NewestIsActive
<1>1. KeysInv => NewestIsActive
  BY DEF KeysInv, Orderly, TopActive, OnTop, NewestIsActive
<1> QED
  BY <1>1, KeysInvHolds, PTL

(* Until the STORAGE key is rotated no value is registered twice: the      *)
(* unique index on the token is enough.                                    *)
THEOREM NobodyRegisteredTwice ==
    ASSUME FirstUseAlone
    PROVE  Spec => []RegisteredOnce
<1>1. KeysInv => RegisteredOnce
  <2> SUFFICES ASSUME KeysInv, Unrotated("STORAGE"), NEW x \in records, NEW y \in records,
                      x.value = y.value
               PROVE  x = y
    BY DEF RegisteredOnce
  <2>1. RecordSound(keys, x) /\ RecordSound(keys, y) /\ Orderly(keys)
    BY DEF KeysInv
  <2>2. PICK d : x.token = <<d, x.value>> /\ HasKey(keys, "SEARCH", x.version, d)
    BY <2>1 DEF RecordSound
  <2>3. PICK e : y.token = <<e, y.value>> /\ HasKey(keys, "SEARCH", y.version, e)
    BY <2>1 DEF RecordSound
  <2>4. \A k \in keys : k.purpose = "STORAGE" => k.version = 1
    BY DEF Unrotated
  <2>5. d = e
    BY <2>1, <2>2, <2>3, <2>4, OneToken DEF RecordSound
  <2> QED
    BY <2>2, <2>3, <2>5 DEF KeysInv, TokensDiffer
<1> QED
  BY <1>1, KeysInvHolds, PTL

(* Until then whoever was registered before an identity check is found by it. *)
THEOREM VotersAreFound ==
    ASSUME FirstUseAlone
    PROVE  Spec => []FoundAgain
BY KeysInvHolds, PTL DEF KeysInv
-----------------------------------------------------------------------------
(***************************************************************************)
(* Committed keys and records implement a key ring and its register.       *)
(***************************************************************************)

(* A key that is to be added comes after the newest of its purpose; those  *)
(* a request has made are active, so they are of different purposes.       *)
NextIn(rows, k) ==
    /\ \A j \in rows : j.purpose = k.purpose => j.version < k.version
    /\ k.version = 1 \/ \E j \in rows : j.purpose = k.purpose /\ j.version = k.version - 1

OwnNext == \A r \in Requests : \A k \in tx[r].own : k.active /\ NextIn(keys, k)

SameKey(j, k) == j.purpose = k.purpose /\ j.version = k.version /\ j.dek = k.dek

(* The version given to a key is one, or follows that of another.          *)
LEMMA NextFollows ==
    ASSUME NEW rows, NEW p \in Purposes, Orderly(rows), NEW who
    PROVE  NextIn(rows, NewKey(who, rows, p))
<1> DEFINE S == VersionsOf(rows, p)
<1>1. S \subseteq Nat
  BY DEF VersionsOf, Orderly, KeyRows
<1>2. PICK m \in S : \A v \in S : v <= m
  BY DEF Orderly, Topped
<1>3. \A v \in S : m >= v
  BY <1>1, <1>2
<1>4. Max(S) \in S
  BY <1>2, <1>3 DEF Max
<1>5. NextVersion(rows, p) = Max(S) + 1 /\ Max(S) \in Nat
  BY <1>1, <1>4 DEF NextVersion, VersionsOf
<1>6. Max(S) = 0 \/ \E j \in rows : j.purpose = p /\ j.version = Max(S)
  BY <1>4 DEF VersionsOf
<1>7. \A j \in rows : j.purpose = p => j.version < NextVersion(rows, p)
  BY NextIsAbove DEF Orderly, Numbered
<1>8. NextVersion(rows, p) = 1
      \/ \E j \in rows : j.purpose = p /\ j.version = NextVersion(rows, p) - 1
  BY <1>5, <1>6
<1>9. NewKey(who, rows, p).purpose = p /\ NewKey(who, rows, p).version = NextVersion(rows, p)
  BY DEF NewKey
<1> QED
  BY <1>7, <1>8, <1>9 DEF NextIn

(* What a step of a request does to the committed rows and its own.        *)
LEMMA RequestShape ==
    ASSUME KeysInv, NEW r \in Requests, Request(r)
    PROVE  /\ rotation' = rotation
           /\ \A q \in Requests \ {r} : tx'[q] = tx[q]
           /\ \/ keys' = keys /\ records' = records /\ tx'[r].own \in {tx[r].own, {}}
              \/ keys' = keys /\ records' = records /\ CreateMissing(r)
              \/ keys' = Visible(r) /\ records' = records /\ tx'[r].own = {} /\ InTx(r)
              \/ keys' = Visible(r) /\ Insert(r) /\ tx'[r].own = {} /\ InTx(r)
<1> USE DEF KeysInv, TypeOK
<1>1. ASSUME NEW answer, Done(r, answer)
      PROVE  (\A q \in Requests \ {r} : tx'[q] = tx[q]) /\ tx'[r].own = {}
  BY <1>1 DEF Done, NewTx
<1>2. ASSUME Fail(r), InTx(r)
      PROVE  /\ rotation' = rotation /\ records' = records
             /\ \A q \in Requests \ {r} : tx'[q] = tx[q]
             /\ tx'[r].own = {} /\ keys' \in {keys, Visible(r)}
  BY <1>1, <1>2 DEF Fail, Commits, Visible
<1>3. CASE Begin(r) \/ FindActive(r) \/ BuildArgs(r) \/ GetDeks(r) \/ GoOnToInsert(r)
  <2>1. /\ rotation' = rotation /\ keys' = keys /\ records' = records
        /\ \A q \in Requests \ {r} : tx'[q] = tx[q]
    BY <1>3 DEF Begin, FindActive, BuildArgs, GetDeks, GoOnToInsert
  <2>2. tx[r] \in TxStates
    OBVIOUS
  <2>3. tx'[r].own = tx[r].own
    <3>1. CASE Begin(r)
      BY <3>1, <2>2 DEF Begin, TxStates
    <3>2. CASE FindActive(r)
      BY <3>2, <2>2 DEF FindActive, TxStates
    <3>3. CASE BuildArgs(r)
      BY <3>3, <2>2 DEF BuildArgs, TxStates
    <3>4. CASE GetDeks(r)
      BY <3>4, <2>2 DEF GetDeks, TxStates
    <3>5. CASE GoOnToInsert(r)
      BY <3>5, <2>2 DEF GoOnToInsert, TxStates
    <3> QED
      BY <1>3, <3>1, <3>2, <3>3, <3>4, <3>5
  <2> QED
    BY <2>1, <2>3
<1>4. CASE CreateMissing(r)
  BY <1>4 DEF CreateMissing
<1>5. CASE NoDek(r)
  BY <1>2, <1>5 DEF NoDek, InTx
<1>6. CASE Look(r)
  BY <1>1, <1>2, <1>6 DEF Look, InTx, Commits, Visible
<1>7. CASE LookInVain(r)
  BY <1>1, <1>7 DEF LookInVain, InTx, Commits, Visible
<1>8. CASE Insert(r)
  BY <1>1, <1>8 DEF Insert, InTx, Commits, Visible
<1>9. CASE RefuseInsert(r)
  <2>1. PICK answer : Done(r, answer)
    BY <1>9 DEF RefuseInsert
  <2> QED
    BY <1>1, <1>9, <2>1 DEF RefuseInsert
<1> QED
  BY <1>3, <1>4, <1>5, <1>6, <1>7, <1>8, <1>9 DEF Request

(* Who has keys of their own is alone, so nobody else adds to the ring.    *)
LEMMA OwnMeansAlone ==
    ASSUME KeysInv, NEW r \in Requests, tx[r].own # {}
    PROVE  Alone(r)
BY DEF KeysInv, RequestSound

LEMMA OwnNextStep ==
    ASSUME KeysInv, OwnNext, FirstUseAlone, [Next]_keyVars
    PROVE  OwnNext'
<1>1. ASSUME NEW r \in Requests, Request(r) PROVE OwnNext'
  <2> SUFFICES ASSUME NEW q \in Requests, NEW k \in tx'[q].own
               PROVE  k.active /\ NextIn(keys', k)
    BY DEF OwnNext, NextIn
  <2>1. CASE q # r
    <3>1. tx'[q] = tx[q]
      BY <1>1, <2>1, RequestShape
    <3>2. Alone(q)
      BY <3>1, OwnMeansAlone
    <3>3. ~InTx(r) /\ tx[r].own = {}
      BY <2>1, <3>2 DEF Alone, KeysInv, RequestSound
    <3>4. keys' = keys
      BY <1>1, <3>3, RequestShape DEF CreateMissing, KeysInv, RequestSound
    <3> QED
      BY <3>1, <3>4 DEF OwnNext
  <2>2. CASE q = r /\ ~CreateMissing(r)
    <3>1. keys' = keys /\ k \in tx[r].own
      BY <1>1, <2>2, RequestShape
    <3> QED
      BY <3>1 DEF OwnNext
  <2>3. CASE q = r /\ CreateMissing(r)
    <3> DEFINE p == tx[r].stage
    <3>1. keys' = keys /\ tx'[r].own = tx[r].own \cup {NewKey(r, Visible(r), p)}
      <4>1. tx[r] \in TxStates
        BY DEF KeysInv, TypeOK
      <4> QED
        BY <2>3, <4>1 DEF CreateMissing, TxStates, KeysInv, TypeOK
    <3>2. p \in Purposes /\ Missing(r, p) /\ Orderly(Visible(r)) /\ Orderly(keys)
      BY <2>3 DEF CreateMissing, KeysInv, RequestSound
    <3>3. \A j \in tx[r].own : j.purpose # p
      BY <3>2 DEF Missing, ActiveIn, Visible, OwnNext
    <3>4. {j \in Visible(r) : j.purpose = p} = {j \in keys : j.purpose = p}
      BY <3>3 DEF Visible
    <3>5. NewKey(r, Visible(r), p) = NewKey(r, keys, p)
      BY <3>4 DEF NewKey, NextVersion
    <3>6. NextIn(keys, NewKey(r, keys, p)) /\ NewKey(r, keys, p).active
      BY <3>2, NextFollows DEF NewKey
    <3> QED
      BY <2>3, <3>1, <3>5, <3>6 DEF OwnNext
  <2> QED
    BY <2>1, <2>2, <2>3
<1>2. ASSUME NEW w \in Rotations, Rotate(w) PROVE OwnNext'
  <2>1. tx' = tx
    BY <1>2 DEF Rotate, BeginRotation, Deactivate, CreateDek, CommitRotation
  <2>2. CASE CommitRotation(w)
    <3>1. Rotating(w)
      BY <2>2 DEF CommitRotation, Rotating
    <3>2. \A q \in Requests : tx[q].own = {}
      BY <3>1, OwnMeansAlone DEF Alone
    <3> QED
      BY <2>1, <3>2 DEF OwnNext
  <2>3. CASE keys' = keys
    BY <2>1, <2>3 DEF OwnNext, NextIn
  <2> QED
    BY <1>2, <2>2, <2>3 DEF Rotate, BeginRotation, Deactivate, CreateDek
<1>3. CASE UNCHANGED keyVars
  BY <1>3 DEF keyVars, OwnNext, NextIn
<1> QED
  BY <1>1, <1>2, <1>3 DEF Next

LEMMA OwnNextHolds ==
    ASSUME FirstUseAlone
    PROVE  Spec => []OwnNext
<1>1. Init => OwnNext
  BY DEF Init, OwnNext, NewTx
<1> QED
  BY <1>1, OwnNextStep, KeysInvHolds, PTL DEF Spec

(* New keys that come next, of different purposes, extend the ring.        *)
LEMMA RingExtends ==
    ASSUME NEW new, new \subseteq KeyRows, \A k \in new : NextIn(keys, k),
           \A j, k \in new : j.purpose = k.purpose => j = k,
           \A j \in keys \cup new : \E i \in keys' : SameKey(i, j),
           \A i \in keys' : \E j \in keys \cup new : SameKey(i, j)
    PROVE  Ring!Extend
<1> DEFINE Name(k) == [purpose |-> k.purpose, version |-> k.version, dek |-> k.dek]
<1>1. /\ \A k \in keys : Name(k) \in ringKeys
      /\ \A x \in ringKeys : \E k \in keys : x = Name(k)
      /\ \A k \in keys' : Name(k) \in ringKeys'
      /\ \A x \in ringKeys' : \E k \in keys' : x = Name(k)
  BY DEF ringKeys
<1>2. \A i, j : SameKey(i, j) <=> Name(i) = Name(j)
  BY DEF SameKey
<1>3. \A k : Name(k).purpose = k.purpose /\ Name(k).version = k.version
  OBVIOUS
<1> HIDE DEF Name
<1>4. \A x \in ringKeys' : \E j \in keys \cup new : x = Name(j)
  BY <1>1, <1>2
<1>5. ringKeys \subseteq ringKeys'
  BY <1>1, <1>2
<1>6. ringKeys' \ ringKeys \subseteq Ring!Keys
  <2>1. \A k \in new : Name(k) \in Ring!Keys
    BY DEF Name, KeyRows, Ring!Keys
  <2> QED
    BY <1>1, <1>4, <2>1
<1>7. ASSUME NEW x \in ringKeys' \ ringKeys PROVE Ring!ComesNext(x)
  <2>1. PICK k \in new : x = Name(k)
    BY <1>1, <1>4, <1>7
  <2>2. x.purpose = k.purpose /\ x.version = k.version
    BY <1>3, <2>1
  <2>3. ASSUME NEW y \in ringKeys', y # x, y.purpose = x.purpose PROVE y.version < x.version
    <3>1. PICK j \in keys \cup new : y = Name(j)
      BY <1>4
    <3>2. y.purpose = j.purpose /\ y.version = j.version
      BY <1>3, <3>1
    <3>3. j # k /\ j.purpose = k.purpose
      BY <2>1, <2>2, <2>3, <3>1, <3>2
    <3>4. j \in keys
      BY <3>3
    <3> QED
      BY <2>2, <3>2, <3>3, <3>4 DEF NextIn
  <2>4. x.version = 1 \/ \E y \in ringKeys : y.purpose = x.purpose /\ y.version = x.version - 1
    <3>1. CASE k.version = 1
      BY <2>2, <3>1
    <3>2. CASE \E j \in keys : j.purpose = k.purpose /\ j.version = k.version - 1
      <4>1. PICK j \in keys : j.purpose = k.purpose /\ j.version = k.version - 1
        BY <3>2
      <4>2. Name(j) \in ringKeys /\ Name(j).purpose = x.purpose /\ Name(j).version = x.version - 1
        BY <1>1, <1>3, <2>2, <4>1
      <4> QED
        BY <4>2
    <3> QED
      BY <3>1, <3>2 DEF NextIn
  <2> QED
    BY <2>3, <2>4 DEF Ring!ComesNext
<1> QED
  BY <1>5, <1>6, <1>7 DEF Ring!Extend

(* A request that commits adds the keys it has made, if any.               *)
LEMMA CommitExtends ==
    ASSUME KeysInv, OwnNext, NEW r \in Requests, keys' = Visible(r)
    PROVE  Ring!Extend
<1>1. \A k \in tx[r].own : NextIn(keys, k)
  BY DEF OwnNext
<1>2. ASSUME NEW j \in tx[r].own, NEW k \in tx[r].own, j.purpose = k.purpose PROVE j = k
  <2>1. /\ OnePerVersion(Visible(r)) /\ tx[r].own \subseteq Visible(r) /\ keys \subseteq Visible(r)
        /\ \A i \in Visible(r) : i.version \in Nat \ {0}
    BY DEF KeysInv, RequestSound, Orderly, Visible, KeyRows
  <2>2. NextIn(keys, j) /\ NextIn(keys, k)
    BY <1>1
  <2>3. j.version = k.version
    BY <1>2, <2>1, <2>2 DEF NextIn
  <2> QED
    BY <1>2, <2>1, <2>3 DEF OnePerVersion
<1>3. /\ \A j \in keys \cup tx[r].own : \E i \in keys' : SameKey(i, j)
      /\ \A i \in keys' : \E j \in keys \cup tx[r].own : SameKey(i, j)
  BY DEF SameKey, Visible
<1>4. tx[r].own \subseteq KeyRows
  BY DEF KeysInv, TypeOK, TxStates
<1> QED
  BY ONLY <1>1, <1>2, <1>3, <1>4, RingExtends

(* So does a rotation, whose retired keys keep their names.                *)
LEMMA RotationExtends ==
    ASSUME KeysInv, NEW w \in Rotations, CommitRotation(w)
    PROVE  Ring!Extend
<1> DEFINE p == rotation[w].purpose
           seen == rotation[w].seen
           n == NewKey(w, keys, p)
<1>1. Rotating(w) /\ rotation[w].stage = "created" /\ Orderly(keys)
  BY DEF CommitRotation, Rotating, KeysInv
<1>2. p \in Purposes /\ rotation[w].own = {n}
  BY <1>1 DEF KeysInv, RotationSound
<1>3. keys' = Retired(keys, seen) \cup {n}
  BY <1>2 DEF CommitRotation
<1>4. NextIn(keys, n)
  BY <1>1, <1>2, NextFollows
<1>5. {n} \subseteq KeyRows
  BY <1>2 DEF KeysInv, TypeOK, RotationStates
<1> HIDE DEF n, p, seen
<1>6. /\ \A k \in keys : \E i \in Retired(keys, seen) : SameKey(i, k)
      /\ \A i \in Retired(keys, seen) : \E k \in keys : SameKey(i, k)
  <2> DEFINE Later(k) == IF Retire(k) \in seen THEN Retire(k) ELSE k
  <2>1. /\ \A k \in keys : Later(k) \in Retired(keys, seen)
        /\ \A i \in Retired(keys, seen) : \E k \in keys : i = Later(k)
    BY DEF Retired
  <2>2. \A k \in keys : SameKey(Later(k), k)
    BY <1>1 DEF Orderly, KeyRows, SameKey, Retire
  <2> HIDE DEF Later
  <2> QED
    BY <2>1, <2>2
<1>7. SameKey(n, n)
  BY DEF SameKey
<1>8. /\ \A j \in keys \cup {n} : \E i \in keys' : SameKey(i, j)
      /\ \A i \in keys' : \E j \in keys \cup {n} : SameKey(i, j)
  BY <1>3, <1>6, <1>7
<1>9. (\A k \in {n} : NextIn(keys, k)) /\ (\A j, k \in {n} : j.purpose = k.purpose => j = k)
  BY <1>4
<1> QED
  BY ONLY <1>8, <1>9, <1>5, RingExtends

(* The record that is inserted names the key of its version, and its value *)
(* has no record of that version: it would have the same token.            *)
LEMMA InsertRegisters ==
    ASSUME KeysInv, KeysInv', NEW r \in Requests, Insert(r)
    PROVE  \E x \in voters' : Ring!Register(x)
<1> DEFINE n == [by |-> r, value |-> tx[r].value, version |-> tx[r].version,
                 dek |-> tx[r].dek, token |-> tx[r].token]
           Row(x) == [by |-> x.by, value |-> x.value, version |-> x.version, dek |-> x.dek]
<1>1. /\ records' = records \cup {n} /\ TokenFree(r) /\ tx[r].stage = "insert"
      /\ keys' = Visible(r)
  BY DEF Insert, Commits, Visible
<1>2. /\ n.value = tx[r].value /\ n.version = tx[r].version /\ n.dek = tx[r].dek
      /\ n.token = tx[r].token
  OBVIOUS
<1> HIDE DEF n
<1>3. /\ \A x \in records : Row(x) \in voters
      /\ \A y \in voters : \E x \in records : y = Row(x)
  BY DEF voters
<1>4. voters' = voters \cup {Row(n)}
  BY <1>1 DEF voters
<1>5. Ring!Named(ringKeys', "DATABASE", n.version) = {n.dek}
  <2>1. HasKey(keys', "DATABASE", n.version, n.dek) /\ Orderly(keys')
    BY <1>1 DEF KeysInv, RecordSound
  <2>2. ByVersion(keys', "DATABASE", n.version) = {n.dek}
    BY <2>1, FoundByVersion
  <2>3. \A d : d \in Ring!Named(ringKeys', "DATABASE", n.version)
               <=> d \in ByVersion(keys', "DATABASE", n.version)
    <3>1. \A d : d \in Ring!Named(ringKeys', "DATABASE", n.version)
                 <=> \E x \in ringKeys' : /\ x.purpose = "DATABASE" /\ x.version = n.version
                                           /\ x.dek = d
      BY DEF Ring!Named
    <3>2. \A d : d \in ByVersion(keys', "DATABASE", n.version)
                 <=> \E k \in keys' : k.purpose = "DATABASE" /\ k.version = n.version /\ k.dek = d
      BY DEF ByVersion
    <3> DEFINE Name(k) == [purpose |-> k.purpose, version |-> k.version, dek |-> k.dek]
    <3>3. /\ \A k \in keys' : Name(k) \in ringKeys'
          /\ \A x \in ringKeys' : \E k \in keys' : x = Name(k)
      BY DEF ringKeys
    <3>4. \A k : /\ Name(k).purpose = k.purpose /\ Name(k).version = k.version
                /\ Name(k).dek = k.dek
      OBVIOUS
    <3> HIDE DEF Name
    <3> QED
      BY <3>1, <3>2, <3>3, <3>4
  <2> QED
    BY <2>2, <2>3
<1>6. ASSUME NEW x \in records, x.value = n.value PROVE x.version # n.version
  <2> SUFFICES ASSUME x.version = n.version PROVE FALSE
    OBVIOUS
  <2>1. PICK d : x.token = <<d, x.value>> /\ HasKey(keys', "SEARCH", x.version, d)
    BY <1>1 DEF KeysInv, RecordSound
  <2>2. PICK e : n.token = <<e, n.value>> /\ HasKey(keys', "SEARCH", n.version, e)
    BY <1>1 DEF KeysInv, RecordSound
  <2>3. d = e
    BY <2>1, <2>2 DEF KeysInv, Orderly, OnePerVersion, HasKey
  <2>4. x.token = n.token
    BY <1>6, <2>1, <2>2, <2>3
  <2> QED
    BY <1>1, <1>2, <2>4 DEF TokenFree, Matches
<1>7. \A y \in voters : y.value = Row(n).value => y.version # Row(n).version
  BY <1>3, <1>6
<1>8. Row(n) \in voters' /\ Row(n).version = n.version /\ Row(n).dek = n.dek
  BY <1>4
<1> HIDE DEF Row
<1>9. Ring!Register(Row(n))
  BY <1>4, <1>5, <1>7, <1>8 DEF Ring!Register
<1> QED
  BY <1>8, <1>9

(* Whatever is rotated, and however requests overlap once the first keys   *)
(* are there, Keys implements KeyRing: the ring only grows, by the next    *)
(* version of a purpose, and a value is written once under a version, with *)
(* the key of that version.                                                *)
THEOREM Refinement ==
    ASSUME FirstUseAlone
    PROVE  Spec => ImplementsKeyRing
<1>1. Init => Ring!Init
  BY DEF Init, Ring!Init, ringKeys, voters
<1>2. KeysInv /\ KeysInv' /\ OwnNext /\ [Next]_keyVars => [Ring!Next]_<<ringKeys, voters>>
  <2> SUFFICES ASSUME KeysInv, KeysInv', OwnNext, [Next]_keyVars
               PROVE  Ring!Next \/ (ringKeys' = ringKeys /\ voters' = voters)
    OBVIOUS
  <2>1. keys' = keys => ringKeys' = ringKeys
    BY DEF ringKeys
  <2>2. records' = records => voters' = voters
    BY DEF voters
  <2>3. ASSUME NEW r \in Requests, Request(r)
        PROVE  Ring!Next \/ (ringKeys' = ringKeys /\ voters' = voters)
    <3>1. CASE keys' = keys /\ records' = records
      BY <2>1, <2>2, <3>1
    <3>2. CASE keys' = Visible(r) /\ records' = records
      BY <2>2, <3>2, CommitExtends DEF Ring!Next
    <3>3. CASE keys' = Visible(r) /\ Insert(r)
      BY <3>3, CommitExtends, InsertRegisters DEF Ring!Next
    <3> QED
      BY <2>3, <3>1, <3>2, <3>3, RequestShape
  <2>4. ASSUME NEW w \in Rotations, Rotate(w)
        PROVE  Ring!Next \/ (ringKeys' = ringKeys /\ voters' = voters)
    <3>1. CASE CommitRotation(w)
      BY <2>2, <3>1, RotationExtends DEF Ring!Next, CommitRotation
    <3>2. CASE keys' = keys /\ records' = records
      BY <2>1, <2>2, <3>2
    <3> QED
      BY <2>4, <3>1, <3>2 DEF Rotate, BeginRotation, Deactivate, CreateDek
  <2>5. CASE UNCHANGED keyVars
    BY <2>1, <2>2, <2>5 DEF keyVars
  <2> QED
    BY <2>3, <2>4, <2>5 DEF Next
<1> QED
  BY <1>1, <1>2, KeysInvHolds, OwnNextHolds, PTL DEF Spec, ImplementsKeyRing, Ring!Spec

(* What the ring promises to whoever reads the register, and so what any   *)
(* implementation of it does: every value is read with the one key of its  *)
(* version, for ever, and stands once under a version.                     *)
THEOREM RingKeepsPromise == Ring!Spec => [](Ring!Readable /\ Ring!OncePerVersion)
<1> DEFINE OneName(held) ==
             \A j, k \in held : j.purpose = k.purpose /\ j.version = k.version => j = k
           Inv == /\ ringKeys \subseteq Ring!Keys
                  /\ OneName(ringKeys)
                  /\ Ring!Readable /\ Ring!OncePerVersion
<1>1. Ring!Init => Inv
  BY DEF Ring!Init, Ring!Readable, Ring!OncePerVersion
<1>2. Inv /\ [Ring!Next]_<<ringKeys, voters>> => Inv'
  <2> SUFFICES ASSUME Inv, [Ring!Next]_<<ringKeys, voters>> PROVE Inv'
    OBVIOUS
  <2>1. CASE ringKeys' = ringKeys /\ voters' = voters
    BY <2>1 DEF Ring!Readable, Ring!OncePerVersion, Ring!Named
  <2>2. CASE Ring!Next
    <3>1. /\ ringKeys \subseteq ringKeys' /\ ringKeys' \subseteq Ring!Keys
          /\ \A k \in ringKeys' \ ringKeys : \A j \in ringKeys' :
               j # k /\ j.purpose = k.purpose => j.version < k.version
      BY <2>2 DEF Ring!Next, Ring!Extend, Ring!ComesNext
    <3>2. OneName(ringKeys')
      <4> SUFFICES ASSUME NEW j \in ringKeys', NEW k \in ringKeys', j # k,
                          j.purpose = k.purpose, j.version = k.version
                   PROVE  FALSE
        OBVIOUS
      <4>1. j.version \in Nat /\ k.version \in Nat
        BY <3>1 DEF Ring!Keys
      <4>2. j \in ringKeys /\ k \in ringKeys
        BY <3>1, <4>1
      <4> QED
        BY <4>2
    <3>3. \A x \in voters : Ring!Named(ringKeys', "DATABASE", x.version) = {x.dek}
      <4> TAKE x \in voters
      <4>1. Ring!Named(ringKeys, "DATABASE", x.version) = {x.dek}
        BY DEF Ring!Readable
      <4>2. PICK k \in ringKeys : k.purpose = "DATABASE" /\ k.version = x.version /\ k.dek = x.dek
        BY <4>1 DEF Ring!Named
      <4>3. \A j \in ringKeys' : j.purpose = "DATABASE" /\ j.version = x.version => j = k
        BY <3>1, <3>2, <4>2
      <4> QED
        BY <3>1, <4>2, <4>3 DEF Ring!Named
    <3>4. CASE voters' = voters
      BY <3>1, <3>2, <3>3, <3>4 DEF Ring!Readable, Ring!OncePerVersion
    <3>5. CASE \E x \in voters' : Ring!Register(x)
      <4>1. PICK x \in voters' : Ring!Register(x)
        BY <3>5
      <4>2. /\ voters' = voters \cup {x}
            /\ Ring!Named(ringKeys', "DATABASE", x.version) = {x.dek}
            /\ \A y \in voters : y.value = x.value => y.version # x.version
        BY <4>1 DEF Ring!Register
      <4>3. Ring!Readable'
        BY <3>3, <4>2 DEF Ring!Readable
      <4>4. Ring!OncePerVersion'
        BY <4>2 DEF Ring!OncePerVersion
      <4> QED
        BY <3>1, <3>2, <4>3, <4>4
    <3> QED
      BY <2>2, <3>4, <3>5 DEF Ring!Next
  <2> QED
    BY <2>1, <2>2
<1>3. Inv => Ring!Readable /\ Ring!OncePerVersion
  OBVIOUS
<1> QED
  BY <1>1, <1>2, <1>3, PTL DEF Ring!Spec
===============================================================================
