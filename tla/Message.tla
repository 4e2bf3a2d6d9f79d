-------------------------------- MODULE Message --------------------------------
(***************************************************************************)
(* How messages are put on a connection and taken off it (net/message.go): *)
(* Finalize puts its size before a message, encrypts it block by block,    *)
(* and puts size and checksum before that; ReadMessage and Decrypt undo    *)
(* it.  A size has two bytes, and is computed as an int16.                 *)
(*                                                                         *)
(* A cell stands for a byte on the way.  XTEA is a permutation of blocks   *)
(* for each key, of which nothing else is known: an encrypted byte is that *)
(* of a certain block under a certain key, and a block that was not        *)
(* encrypted with the key that decrypts it becomes bytes of any value, as  *)
(* are those of a checksum.  The base of numbers and the sizes of blocks   *)
(* and checksums are constants.                                            *)
(***************************************************************************)
EXTENDS Integers, Sequences

CONSTANTS
  Base,    \* a byte is 0..Base-1: 256
  Block,   \* bytes in a block of XTEA: 8
  Check    \* bytes of a checksum: 4

ASSUME MessageAssumption ==
  Base \in Nat /\ Base > 1 /\ Block \in Nat /\ Block > 1 /\ Check \in Nat

Byte(n) == [byte |-> n]
Unknown == [any |-> TRUE]
Plain(s) == [i \in 1..Len(s) |-> Byte(s[i])]
IsByte(cell) == DOMAIN cell = {"byte"}

-----------------------------------------------------------------------------
(* Writing.                                                                *)

\* An int16 in two bytes: adding to it and putting it there keep 16 bits.
Size(n) == Plain(<<n % Base, (n \div Base) % Base>>)

\* Faulty: the checksum is not counted in the size.
SizedUnchecked(m, checked) ==
  Size(Len(m)) \o (IF checked THEN [i \in 1..Check |-> Unknown] ELSE <<>>) \o m

\* Message.finalize.  What was copied is compared with the size as int16s, of
\* the same number: a message that is too long is not refused.
Sized(m, checked) ==
  IF checked THEN Size(Len(m) + Check) \o [i \in 1..Check |-> Unknown] \o m
  ELSE Size(Len(m)) \o m

Blocks(m) == (Len(m) + Block - 1) \div Block

\* The k-th block that a loop over a message reads, with zeros at its end.
BlockOf(m, k) ==
  [i \in 1..Block |-> IF (k - 1) * Block + i <= Len(m) THEN m[(k - 1) * Block + i]
                      ELSE Byte(0)]

Encrypt(m, key) ==
  [j \in 1..Blocks(m) * Block |->
     [xtea |-> key, block |-> BlockOf(m, ((j - 1) \div Block) + 1),
      at |-> ((j - 1) % Block) + 1]]

Finalize(m, key) == Sized(Encrypt(Sized(m, FALSE), key), TRUE)
PrependSize(m) == Sized(Sized(m, FALSE), TRUE)

-----------------------------------------------------------------------------
(* Reading.                                                                *)

\* ReadMessage gets a size if there are two bytes, and its value is known if
\* they were not made up.
HasSize(s) == Len(s) >= 2
Known(s) == HasSize(s) /\ IsByte(s[1]) /\ IsByte(s[2])
Announced(s) == s[1].byte + Base * s[2].byte

\* What ReadMessage returns once nothing else comes: fewer bytes than announced
\* are no error.  Then, what follows.
Body(s) == SubSeq(s, 3, IF Announced(s) + 2 < Len(s) THEN Announced(s) + 2 ELSE Len(s))
After(s) == SubSeq(s, 3 + Announced(s), Len(s))

Unchecked(m) == SubSeq(m, Check + 1, Len(m))

\* The blocks of a message: the bytes of one that was encrypted with the key.
Deciphered(m, key) ==
  LET whole(b) == "xtea" \in DOMAIN b[1] /\
        \A i \in 1..Block : b[i] = [xtea |-> key, block |-> b[1].block, at |-> i]
      plain(b) == IF whole(b) THEN b[1].block ELSE [i \in 1..Block |-> Unknown]
  IN  [j \in 1..Blocks(m) * Block |->
         plain(BlockOf(m, ((j - 1) \div Block) + 1))[((j - 1) % Block) + 1]]

\* Message.Decrypt as far as the blocks: it skips the checksum.
Decipher(m, key) == Deciphered(Unchecked(m), key)

\* Decrypt has no message if not even a size was decrypted, and one of any
\* length and contents if the size was not in a block of the sender's.
NoMessage == <<>>
Garbage == <<Unknown>>
Opened(s) == IF ~ HasSize(s) THEN NoMessage ELSE IF ~ Known(s) THEN Garbage ELSE Body(s)
Decrypt(m, key) == Opened(Decipher(m, key))

-----------------------------------------------------------------------------
(* What a size can say.                                                    *)

\* The encrypted message, with its checksum, is not longer than a size can say.
Fits(m) == Blocks(Sized(m, FALSE)) * Block + Check < Base * Base
=============================================================================
