------------------------------- MODULE MCGotServ -------------------------------
(* Instances of GotServ for TLC.                                           *)
EXTENDS GotServ

CONSTANTS c1, c2, c3

Clients == {c1, c2, c3}
================================================================================
