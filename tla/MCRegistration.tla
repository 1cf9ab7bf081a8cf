---------------------------- MODULE MCRegistration ----------------------------
(* Two browsers, of one person or of two members of a household, with an   *)
(* NI number or a passport, of one number, two, or one that both type, two *)
(* identity sessions and a lost answer.                                    *)
EXTENDS Registration

CONSTANTS ann, bob, desk, tablet, n1

F(p, m, n) == [person |-> p, method |-> m, number |-> n]

TwoAtOnce ==
    {typed \in [Browsers -> {F(p, m, n) : p \in {ann, bob}, m \in Methods, n \in Numbers}] :
        typed[desk].person = ann /\ typed[desk].number = n1}
=============================================================================
