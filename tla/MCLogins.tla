------------------------------- MODULE MCLogins --------------------------------
(* Instances of Logins for TLC.                                            *)
EXTENDS Logins

\* Numbers have base 4, so that a size is below 16.
H(p, r, s) == [proto |-> p, rest |-> r, rsa |-> TRUE, strings |-> s]
SomeHellos ==
  {H(1, 144, <<10, 10, 10>>), H(10, 132, <<10, 10, 10>>),   \* as they should be
   H(1, 132, <<10, 10, 10>>), H(10, 144, <<10, 10, 10>>),   \* the other's header
   [H(10, 132, <<10, 10, 10>>) EXCEPT !.rsa = FALSE],
   H(1, 144, <<200, 10, 10>>), H(1, 144, <<10, 10, 200>>),
   H(10, 132, <<10, 10, 200>>), H(10, 132, <<10, 98, 10>>), \* too long strings
   H(2, 144, <<10, 10, 10>>), H(None, 0, <<>>)}
TheGreeting == <<1>>
TheLoginAnswer == <<2, 0, 1>>
TheLameDuckText == <<3, 3>>
TheNoText == <<3>>
\* The second is as long as fits; the third is not.
SomeTexts == {<<>>, <<1, 1, 1, 1, 1, 1, 1, 1, 1, 2>>, <<1, 1, 1, 1, 1, 1, 1, 1, 1, 1, 3>>}
=============================================================================
