------------------------------ MODULE MCFrontend -------------------------------
(* Instances of Frontend for TLC.                                          *)
EXTENDS Frontend

SomeListed == <<Wasm, Outfits, Spr, Dat, Pic>>
SomeNeeded == <<Dat>>

Scenario(restarts, losses, loads, starts, installs, asides) ==
  [replace |-> 1, restart |-> restarts, lose |-> losses,
   load |-> loads, start |-> starts, install |-> installs, aside |-> asides]

\* Loaders of a page while a worker is installed, and when an answer is lost;
\* pages that are left while a worker is replaced; and other tabs, when
\* installations break off.
SomeScenarios ==
  {Scenario(0, 0, 1, 2, 1, 0), Scenario(0, 1, 1, 1, 0, 0), Scenario(1, 0, 2, 0, 2, 0),
   Scenario(0, 1, 1, 0, 2, 1)}
=============================================================================
