------------------------------- MODULE MCDrawing -------------------------------
(* Instances of Drawing for TLC.                                           *)
EXTENDS Drawing

\* items.otb: one item with a client identifier that the dataset may have, may
\* have just missed, or does not have, or with none.
Known1 == [server |-> 1, client |-> 2, ground |-> TRUE, countable |-> FALSE, order |-> 0]
SomeItems == {[Known1 EXCEPT !.client = c] : c \in {2, 3, None}}

\* An item and an outfit, an outfit and an effect, two items.
H(i, o, e, m) == [items |-> i, outfits |-> o, effects |-> e, missiles |-> m]
SomeHeaders == {H(2, 1, 0, 0), H(1, 1, 1, 0), H(3, 0, 0, 0)}

\* An option for items only.
SomeOptions == {[byte |-> 0, value |-> 0]}

\* Two layers of two tiles, with two frames; a variant for each of two columns
\* and two rows; six tiles, which are counted as two, and four, as none.
G(w, h, b, x, y, a) == [width |-> w, height |-> h, blend |-> b, xdiv |-> x,
                        ydiv |-> y, zdiv |-> 1, anim |-> a]
SomeSpecs == {G(2, 1, 2, 1, 1, 2), G(1, 1, 1, 2, 2, 1), G(3, 2, 1, 1, 1, 1),
              G(2, 2, 1, 1, 1, 1)}
SomeFillings == {<<1, 2, 0, 3, 1, 0, 1, 3>>}

\* The picture crosses the edges of the map: its upper floor is at 0, and
\* what is at 7 there is not on it.
Item1 == [kind |-> "item", id |-> 1, dir |-> 0]
Creature(o) == [kind |-> "creature", id |-> o, dir |-> 1]
TwoFloors(o) ==
  [p \in {<<7, 7, 7>>, <<0, 0, 6>>, <<7, 7, 6>>} |->
     IF p[3] = 7 THEN <<Creature(o)>> ELSE <<Item1>>]
SomeWorlds == {TwoFloors(1), TwoFloors(2)}
SomeBoxes == {[x |-> 7, y |-> 7, width |-> 1, height |-> 1, top |-> 6, bottom |-> 7],
              [x |-> 2, y |-> 2, width |-> 1, height |-> 1, top |-> 6, bottom |-> 7]}

\* A creature is put on the upper floor of the second picture.
ThePeopled == {<<3, 3, 6>>}
=============================================================================
