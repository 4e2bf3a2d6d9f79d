--------------------------- MODULE MCMapDescription ---------------------------
(* Instances of MapDescription for TLC: the .cfg files give small boxes in a *)
(* small world.                                                              *)
EXTENDS MapDescription
===============================================================================
