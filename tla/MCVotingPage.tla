----------------------------- MODULE MCVotingPage -----------------------------
(* One contest of each kind to go back and forth between.                  *)
EXTENDS VotingPage

Kinds == {"AMS", "ALTERNATIVE_VOTE", "REFERENDUM"}
OwnMethod == [c \in Kinds |-> c]
OnTheBallots == [c \in Kinds |-> CASE c = "AMS" -> {"m"}
                                   [] c = "REFERENDUM" -> {}
                                   [] OTHER -> {"x", "y"}]
=============================================================================
