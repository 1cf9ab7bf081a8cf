------------------------- MODULE MCOfficialAccounts -------------------------
(***************************************************************************)
(* Instance of OfficialAccounts for TLC: an administrator, who creates a   *)
(* second official, at work in two browsers.                               *)
(***************************************************************************)
EXTENDS OfficialAccounts, TLC

Active(r, p) == [role |-> r, active |-> TRUE, mustReset |-> FALSE, password |-> p,
                 attempts |-> 0, lockedUntil |-> Never]

AdminAndNobody == {[u \in Usernames |-> IF u = "admin" THEN Active("ADMIN", "own") ELSE NoAccount]}

(* One browser of an administrator, one of an official.                    *)
CONSTANTS b1, b2
TwoDesks == b1 :> {"login", "failed", "create", "update"}
         @@ b2 :> {"login", "refresh", "password", "create"}

Demotion == {[AsIs EXCEPT !.role = "OFFICER"]}
=============================================================================
