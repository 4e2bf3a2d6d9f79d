------------------------------- MODULE MCWorld -------------------------------
(* Instances of World for TLC.                                             *)
EXTENDS World

CONSTANTS p1, p2

Two == {p1, p2}

\* Neighbours on one row of a map that stores every tile.
AllStored == Pos
SideBySide == [p \in Player |-> IF p = p1 THEN <<0, 0>> ELSE <<1, 0>>]

\* An OTBM map: everybody starts at the temple, and some tiles are missing.
Temple == [p \in Player |-> <<0, 0>>]
WithHoles == AllStored \ {<<1, 0>>}
=============================================================================
