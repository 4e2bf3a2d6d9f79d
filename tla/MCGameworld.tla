----------------------------- MODULE MCGameworld -----------------------------
(* Instances of Gameworld for TLC.                                         *)
EXTENDS Gameworld

CONSTANTS c1, c2

Pair == {c1, c2}

\* Kinds that between them take every branch of the main loop: "bad" leaves as
\* "logout" does, and "outfit" is answered as "move" is.
Talking == {"say", "move", "bad"}
Talkative == [c \in Conn |-> Talking]

\* One client asks and logs out, so that its logout may be offered while the main
\* loop waits to send the answer; what the other says may come in between.
Acting == {"say", "turn", "other", "logout"}
AskAndLeave == [c \in Conn |-> IF c = c1 THEN {"turn", "logout"} ELSE {"say", "other"}]

\* One client that sends more, and one that sends less.
TwoAndOne == [c \in Conn |-> IF c = c1 THEN 2 ELSE 1]
=============================================================================
