------------------------------ MODULE MCOtbTree ------------------------------
(* Instances of OtbTree for TLC.                                           *)
EXTENDS OtbTree

\* One ordinary byte and the three special ones, any of which may be escaped,
\* or be the type of a node.
Bytes == {7} \cup Special
=============================================================================
