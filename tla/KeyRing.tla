------------------------------- MODULE KeyRing -------------------------------
(***************************************************************************)
(* What the encryption keys promise, without requests, transactions,       *)
(* active keys or tokens: a ring of keys to which keys are only added, the *)
(* next version of a purpose at a time, and a register of values, each     *)
(* written once under a version and with the DATABASE key of that version. *)
(***************************************************************************)
EXTENDS Naturals

CONSTANTS Purposes, Deks

Keys == [purpose : Purposes, version : Nat \ {0}, dek : Deks]

VARIABLES
    ring,          \* a subset of Keys
    registered     \* who registered which value, under which version and dek

Init == ring = {} /\ registered = {}

Named(held, p, v) == {k.dek : k \in {j \in held : j.purpose = p /\ j.version = v}}

(* The newest key of its purpose, and the one after the newest before it.  *)
ComesNext(k) ==
    /\ \A j \in ring' \ {k} : j.purpose = k.purpose => j.version < k.version
    /\ k.version = 1 \/ \E j \in ring : j.purpose = k.purpose /\ j.version = k.version - 1

Extend ==
    /\ ring \subseteq ring' /\ ring' \ ring \subseteq Keys
    /\ \A k \in ring' \ ring : ComesNext(k)

Register(x) ==
    /\ Named(ring', "DATABASE", x.version) = {x.dek}
    /\ \A y \in registered : y.value = x.value => y.version # x.version
    /\ registered' = registered \cup {x}

(* New keys and the row written with them are committed together.          *)
Next == Extend /\ (UNCHANGED registered \/ \E x \in registered' : Register(x))

Spec == Init /\ [][Next]_<<ring, registered>>

-----------------------------------------------------------------------------
(* What follows from this for a reader of the register, in any system that *)
(* implements it: each value is read with the key it was written with, and *)
(* stands once under a version.                                            *)
Readable == \A x \in registered : Named(ring, "DATABASE", x.version) = {x.dek}

OncePerVersion ==
    \A x, y \in registered : x.value = y.value /\ x.version = y.version => x = y
===============================================================================
