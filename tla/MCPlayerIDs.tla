------------------------------ MODULE MCPlayerIDs ------------------------------
(* Instances of PlayerIDs for TLC.                                         *)
EXTENDS PlayerIDs, TLC

CONSTANTS c1, c2, c3

Logins == {c1, c2, c3}
Alike == Permutations(Logins)
================================================================================
