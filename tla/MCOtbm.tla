-------------------------------- MODULE MCOtbm --------------------------------
(* Instances of OtbmLoader for TLC.                                        *)
EXTENDS OtbmLoader

\* The identifiers 1 and 2 may each be missing or defined in several ways, and
\* twice; 3 is in no items.otb, and an item without a server identifier is.
Ground    == [server |-> 1, client |-> 7, ground |-> TRUE, countable |-> FALSE, order |-> 0]
Border    == [server |-> 2, client |-> None, ground |-> FALSE, countable |-> FALSE, order |-> 1]
Plain     == [server |-> 1, client |-> 8, ground |-> FALSE, countable |-> FALSE, order |-> 0]
Coins     == [server |-> 2, client |-> 7, ground |-> FALSE, countable |-> TRUE, order |-> 0]
TooHigh   == [server |-> 2, client |-> 8, ground |-> FALSE, countable |-> FALSE, order |-> 4]
Nameless  == [server |-> None, client |-> 9, ground |-> FALSE, countable |-> FALSE, order |-> 0]

SomeItems == {Ground, Border, Plain, Coins, TooHigh, Nameless}
=============================================================================
