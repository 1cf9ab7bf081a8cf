---------------------------- MODULE MCVerification ----------------------------
(* Two phones, either of which may be enrolled after the other.            *)
EXTENDS Verification

CONSTANTS old, new, q1, q2
=============================================================================
