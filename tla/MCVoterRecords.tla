---------------------------- MODULE MCVoterRecords ----------------------------
(* The registration page, the voter's phones, and another client of the    *)
(* voter's, which edits and deletes.                                       *)
EXTENDS VoterRecords

CONSTANTS page_, phone, client

PageAndPhone ==
    [c \in Callers |-> CASE c = page_ -> {"create", "prove"}
                         [] c = phone -> {"enrol"}
                         [] OTHER -> {"update", "delete", "revoke"}]

P(t, a) == [type |-> t, status |-> Same, area |-> a]

(* Move abroad, and to another constituency.                               *)
Moves == {P("OVERSEAS", Same)} \cup {P(Same, a) : a \in Areas}
=============================================================================
