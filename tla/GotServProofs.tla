----------------------------- MODULE GotServProofs -----------------------------
(***************************************************************************)
(* Proofs about gotserv: its start-up, for every set of clients, and what  *)
(* is on its connections, for every set of them, of keys and of messages.  *)
(***************************************************************************)
EXTENDS GotServ, Logins, SequenceTheorems, TLAPS

\* A client in the game world came past CheckText, and found the text cleared.
StartIInv == StartupInv /\ PlaysOnAMap

LEMMA StartInitInv == StartInit => StartIInv
BY DEF StartInit, StartIInv, StartupInv, StartTypeOK, PlaysOnAMap

\* What games and the lame duck do, alone or together.
LEMMA ServerStep ==
  ASSUME StartIInv, Games \/ LameDuck \/ Stop \/ Expire
  PROVE  StartIInv'
<1> USE DEF StartIInv, StartupInv, StartTypeOK, PlaysOnAMap
<1>1. CASE GamesFails \/ Listen
  BY <1>1 DEF GamesFails, Listen
<1>2. CASE LoadThings \/ LoadMap
  BY <1>2 DEF LoadThings, LoadMap
<1>3. CASE SetText \/ GoOn \/ AcceptTimesOut
  BY <1>3 DEF SetText, GoOn, AcceptTimesOut
<1>4. CASE Disarm
  BY <1>4 DEF Disarm
<1>5. CASE BeginClear \/ EndClear
  BY <1>5 DEF BeginClear, EndClear
<1>6. CASE Stop \/ Expire
  BY <1>6 DEF Stop, Expire
<1> HIDE DEF StartIInv, StartupInv, StartTypeOK, PlaysOnAMap
<1> QED BY <1>1, <1>2, <1>3, <1>4, <1>5, <1>6 DEF Games, LameDuck

\* What a connection does.
LEMMA ClientStep ==
  ASSUME StartIInv, NEW c \in Conn, Connect(c) \/ LameAccepts(c) \/ GamesAccepts(c) \/ Serve(c)
  PROVE  StartIInv'
<1> USE DEF StartIInv, StartupInv, StartTypeOK, PlaysOnAMap
<1>1. CASE Connect(c) \/ GamesAccepts(c)
  BY <1>1 DEF Connect, GamesAccepts, serverVars
<1>2. CASE LameAccepts(c)
  BY <1>2 DEF LameAccepts
<1>3. CASE HandshakeFails(c)
  BY <1>3 DEF HandshakeFails, serverVars
<1>4. CASE CheckText(c)
  <2>1. client' = [client EXCEPT ![c] = "turned away"] \/ (text # "set" /\ client' = [client EXCEPT ![c] = "playing"])
    BY <1>4 DEF CheckText
  <2>2. text # "set" => things /\ world
    BY <1>4 DEF CheckText
  <2> QED BY <1>4, <2>1, <2>2 DEF CheckText, serverVars
<1>5. CASE TurnAway(c) \/ TornRead(c)
  BY <1>5 DEF TurnAway, TornRead, serverVars
<1> HIDE DEF StartIInv, StartupInv, StartTypeOK, PlaysOnAMap
<1> QED BY <1>1, <1>2, <1>3, <1>4, <1>5 DEF Serve

LEMMA StartInvStep == StartIInv /\ [StartNext]_startVars => StartIInv'
<1> SUFFICES ASSUME StartIInv, [StartNext]_startVars PROVE StartIInv'
  OBVIOUS
<1>1. CASE Games \/ LameDuck \/ Stop \/ Expire
  BY <1>1, ServerStep
<1>2. ASSUME NEW c \in Conn, Connect(c) \/ LameAccepts(c) \/ GamesAccepts(c) \/ Serve(c)
      PROVE  StartIInv'
  BY <1>2, ClientStep
<1>3. CASE UNCHANGED startVars
  BY <1>3 DEF startVars, StartIInv, StartupInv, StartTypeOK, PlaysOnAMap
<1> QED BY <1>1, <1>2, <1>3 DEF StartNext

\* Nobody enters a game world without a map or things, whoever accepted the
\* connection and however long its handshake took.
THEOREM PlaysOnAMapAlways == StartSpec => []PlaysOnAMap
<1>1. StartIInv => PlaysOnAMap
  BY DEF StartIInv
<1> QED BY <1>1, StartInitInv, StartInvStep, PTL DEF StartSpec

\* GotServ's variables keep to their types, and start-up to its order.
THEOREM StartsInOrder == StartSpec => []StartupInv
<1>1. StartIInv => StartupInv
  BY DEF StartIInv
<1> QED BY <1>1, StartInitInv, StartInvStep, PTL DEF StartSpec

-----------------------------------------------------------------------------
-----------------------------------------------------------------------------
(* Numbers.                                                                *)

\* Products of numbers.
LEMMA Products ==
  /\ \A p, q \in Nat : p * q \in Nat
  /\ \A p, q, r \in Nat : q <= r => p * q <= p * r
<1>1. \A p, q \in Nat : p * q \in Nat
  OBVIOUS
<1>2. ASSUME NEW p \in Nat, NEW q \in Nat, NEW r \in Nat, q <= r PROVE p * q <= p * r
  <2>1. PICK s \in Nat : r = q + s
    <3>1. r - q \in Nat /\ r = q + (r - q)
      BY <1>2
    <3> QED BY <3>1
  <2>2. p * (q + s) = p * q + p * s
    OBVIOUS
  <2>3. p * q \in Nat /\ p * s \in Nat
    BY <1>1
  <2> QED BY <2>1, <2>2, <2>3
<1> QED BY <1>1, <1>2

\* Quotient and remainder.
LEMMA Division ==
  ASSUME NEW n \in Nat, NEW b \in Nat \ {0}
  PROVE  /\ n \div b \in Nat
         /\ n % b \in 0..b - 1
         /\ (n \div b) * b \in Nat
         /\ n = (n \div b) * b + (n % b)
<1> DEFINE q == n \div b
<1>1. q \in Nat /\ (n % b) \in 0..b - 1 /\ n = b * q + (n % b)
  OBVIOUS
<1> HIDE DEF q
<1>2. b * q = q * b /\ q * b \in Nat
  BY <1>1
<1> QED BY <1>1, <1>2 DEF q

\* There is only one of each.
LEMMA OneQuotient ==
  ASSUME NEW b \in Nat \ {0}, NEW q \in Nat, NEW r \in 0..b - 1, NEW n \in Nat, n = q * b + r
  PROVE  n \div b = q /\ n % b = r
<1> DEFINE p == n \div b
           s == n % b
<1>1. p \in Nat /\ s \in 0..b - 1 /\ n = p * b + s
  BY Division
<1> HIDE DEF p, s
<1>2. ASSUME NEW x \in Nat, NEW y \in Nat, x < y PROVE b * x + b <= b * y
  <2>1. b * (x + 1) <= b * y
    BY <1>2, Products
  <2> QED BY <2>1
<1>3. b * p = p * b /\ b * q = q * b /\ b * p \in Nat /\ b * q \in Nat
  BY <1>1, Products
<1>4. ~ p < q
  <2> SUFFICES ASSUME p < q PROVE FALSE
    OBVIOUS
  <2>1. b * p + b <= b * q
    BY <1>1, <1>2
  <2> HIDE DEF p, s
  <2> QED BY <1>1, <1>3, <2>1
<1>5. ~ q < p
  <2> SUFFICES ASSUME q < p PROVE FALSE
    OBVIOUS
  <2>1. b * q + b <= b * p
    BY <1>1, <1>2
  <2> QED BY <1>1, <1>3, <2>1
<1>6. p = q
  BY <1>1, <1>4, <1>5
<1>7. s = r
  BY <1>1, <1>3, <1>6
<1> QED BY <1>6, <1>7 DEF p, s

\* A number below the square of the base has two digits.
LEMMA TwoDigits ==
  ASSUME NEW n \in Nat, NEW b \in Nat \ {0}, n < b * b
  PROVE  /\ n % b \in 0..b - 1
         /\ (n \div b) % b \in 0..b - 1
         /\ (n % b) + b * ((n \div b) % b) = n
<1> DEFINE p == n \div b
           s == n % b
<1>1. p \in Nat /\ s \in 0..b - 1 /\ p * b \in Nat /\ n = p * b + s
  BY Division
<1> HIDE DEF p, s
<1>2. p < b
  <2> SUFFICES ASSUME b <= p PROVE FALSE
    BY <1>1
  <2>1. b * b <= b * p
    BY <1>1, Products
  <2>2. b * p = p * b /\ b * b \in Nat
    BY <1>1
  <2> QED BY <1>1, <2>1, <2>2
<1>3. p % b = p
  BY <1>1, <1>2
<1>4. p * b = b * p
  BY <1>1
<1> QED BY <1>1, <1>2, <1>3, <1>4 DEF p, s

\* The blocks of a number of bytes are as many as it takes.
LEMMA Rounding ==
  ASSUME NEW n \in Nat, NEW b \in Nat \ {0}
  PROVE  /\ (n + b - 1) \div b \in Nat
         /\ ((n + b - 1) \div b) * b \in Nat
         /\ n <= ((n + b - 1) \div b) * b
         /\ ((n + b - 1) \div b) * b < n + b
<1> DEFINE q == (n + b - 1) \div b
<1>1. n + b - 1 \in Nat
  OBVIOUS
<1>2. PICK r \in 0..b - 1 : q \in Nat /\ q * b \in Nat /\ n + b - 1 = q * b + r
  BY <1>1, Division
<1> HIDE DEF q
<1>3. n <= q * b /\ q * b < n + b
  BY <1>2
<1> QED BY <1>2, <1>3 DEF q

\* The place of a byte, and its block.
LEMMA Place ==
  ASSUME NEW b \in Nat \ {0}, NEW j \in Nat \ {0}
  PROVE  /\ (j - 1) \div b \in Nat /\ (j - 1) % b \in 0..b - 1
         /\ ((j - 1) \div b) * b \in Nat
         /\ ((j - 1) \div b) * b + ((j - 1) % b) + 1 = j
<1>1. j - 1 \in Nat
  OBVIOUS
<1> DEFINE q == (j - 1) \div b
           r == (j - 1) % b
<1>2. q \in Nat /\ r \in 0..b - 1 /\ q * b \in Nat /\ j - 1 = q * b + r
  BY <1>1, Division
<1> HIDE DEF q, r
<1>3. q * b + r + 1 = j
  BY <1>2
<1> QED BY <1>2, <1>3 DEF q, r

-----------------------------------------------------------------------------
(* Sequences.                                                              *)

\* One sequence after another.
LEMMA Joined ==
  ASSUME NEW S, NEW a \in Seq(S), NEW b \in Seq(S), NEW n \in Nat, Len(a) = n
  PROVE  /\ a \o b \in Seq(S) /\ Len(a \o b) = n + Len(b)
         /\ \A i \in 1..n : (a \o b)[i] = a[i]
         /\ \A i \in 1..Len(b) : (a \o b)[n + i] = b[i]
<1>1. /\ a \o b \in Seq(S) /\ Len(a \o b) = Len(a) + Len(b)
      /\ \A i \in 1..Len(a) + Len(b) :
           (a \o b)[i] = IF i <= Len(a) THEN a[i] ELSE b[i - Len(a)]
  BY ConcatProperties
<1>2. Len(b) \in Nat
  OBVIOUS
<1>3. ASSUME NEW i \in 1..n PROVE (a \o b)[i] = a[i]
  BY <1>1, <1>2
<1>4. ASSUME NEW i \in 1..Len(b) PROVE (a \o b)[n + i] = b[i]
  <2>1. n + i \in 1..Len(a) + Len(b) /\ ~ n + i <= Len(a) /\ n + i - Len(a) = i
    BY <1>2
  <2> QED BY <1>1, <2>1
<1> QED BY <1>1, <1>3, <1>4

\* A sequence after two elements.
LEMMA AfterTwo ==
  ASSUME NEW S, NEW a \in Seq(S), NEW b \in Seq(S), Len(a) = 2
  PROVE  /\ a \o b \in Seq(S) /\ Len(a \o b) = 2 + Len(b)
         /\ \A i \in 1..2 : (a \o b)[i] = a[i]
         /\ \A i \in 1..Len(b) : (a \o b)[2 + i] = b[i]
<1> DEFINE n == 2
<1>1. Len(a) = n /\ n \in Nat
  OBVIOUS
<1> HIDE DEF n
<1>2. /\ a \o b \in Seq(S) /\ Len(a \o b) = n + Len(b)
      /\ \A i \in 1..n : (a \o b)[i] = a[i]
      /\ \A i \in 1..Len(b) : (a \o b)[n + i] = b[i]
  BY ONLY <1>1, a \in Seq(S), b \in Seq(S), Joined
<1> QED BY <1>2 DEF n

\* Two elements.
LEMMA TwoOf ==
  ASSUME NEW S, NEW a \in [1..2 -> S]
  PROVE  a \in Seq(S) /\ Len(a) = 2
<1> DEFINE n == 2
<1>1. a \in [1..n -> S] /\ n \in Nat
  OBVIOUS
<1> HIDE DEF n
<1>2. a \in Seq(S) /\ Len(a) = n
  BY <1>1
<1> QED BY <1>2 DEF n

\* A part of a sequence.
LEMMA PartOf ==
  ASSUME NEW S, NEW s \in Seq(S), NEW m \in Nat \ {0}, NEW n \in Nat, n <= Len(s)
  PROVE  /\ SubSeq(s, m, n) \in Seq(S)
         /\ Len(SubSeq(s, m, n)) = IF m <= n THEN n - m + 1 ELSE 0
         /\ \A i \in 1..n - m + 1 : SubSeq(s, m, n)[i] = s[m + i - 1]
<1>1. \A i \in m..n : s[i] \in S
  OBVIOUS
<1> QED BY <1>1, SubSeqProperties

-----------------------------------------------------------------------------
(* Cells.                                                                  *)

Bytes == [byte : 0..Base - 1]
Coded == [xtea : Keys, block : [1..Block -> Bytes], at : 1..Block]
Cell == Bytes \cup {Unknown} \cup Coded

\* A byte tells itself from all other cells.
LEMMA CellKinds ==
  /\ \A n \in 0..Base - 1 : Byte(n) \in Bytes /\ IsByte(Byte(n)) /\ Byte(n).byte = n
  /\ \A x \in Bytes : IsByte(x) /\ x.byte \in 0..Base - 1 /\ x # Unknown
  /\ ~ IsByte(Unknown)
  /\ \A x \in Coded : ~ IsByte(x) /\ DOMAIN x = {"xtea", "block", "at"}
  /\ \A n : "xtea" \notin DOMAIN Byte(n)
  /\ \A x, y, z : "xtea" \in DOMAIN [xtea |-> x, block |-> y, at |-> z]
  /\ \A x \in Cell : IsByte(x) => x \in Bytes
<1>1. \A n \in 0..Base - 1 : Byte(n) \in Bytes /\ IsByte(Byte(n)) /\ Byte(n).byte = n
  BY DEF Byte, Bytes, IsByte
<1>2. DOMAIN Unknown = {"any"}
  BY DEF Unknown
<1>3. "any" # "byte" /\ "xtea" # "byte"
  OBVIOUS
<1>4. ~ IsByte(Unknown)
  BY <1>2, <1>3 DEF IsByte
<1>5. \A x \in Bytes : IsByte(x) /\ x.byte \in 0..Base - 1
  BY DEF Bytes, IsByte
<1>6. \A x \in Coded : DOMAIN x = {"xtea", "block", "at"}
  BY DEF Coded
<1>7. \A x \in Coded : ~ IsByte(x)
  BY <1>3, <1>6 DEF IsByte
<1>8. \A n : "xtea" \notin DOMAIN Byte(n)
  BY <1>3 DEF Byte
<1>9. \A x, y, z : "xtea" \in DOMAIN [xtea |-> x, block |-> y, at |-> z]
  OBVIOUS
<1> QED BY <1>1, <1>4, <1>5, <1>6, <1>7, <1>8, <1>9 DEF Cell

\* The two bytes of a size.
LEMMA SizeIs ==
  ASSUME NEW n \in Nat
  PROVE  /\ Size(n) \in Seq(Bytes) /\ Len(Size(n)) = 2
         /\ Size(n)[1] = Byte(n % Base) /\ Size(n)[2] = Byte((n \div Base) % Base)
         /\ n % Base \in 0..Base - 1 /\ (n \div Base) % Base \in 0..Base - 1
<1> DEFINE d == <<n % Base, (n \div Base) % Base>>
<1>0. Base \in Nat \ {0}
  BY MessageAssumption
<1>1. n % Base \in 0..Base - 1 /\ n \div Base \in Nat
  BY <1>0, Division
<1>2. (n \div Base) % Base \in 0..Base - 1
  BY <1>0, <1>1, Division
<1>3. Len(d) = 2 /\ d[1] = n % Base /\ d[2] = (n \div Base) % Base
  OBVIOUS
<1>4. Size(n) = [i \in 1..Len(d) |-> Byte(d[i])]
  BY DEF Size, Plain
<1> HIDE DEF d
<1>5. \A i \in 1..2 : Byte(d[i]) \in Bytes
  BY <1>1, <1>2, <1>3, CellKinds
<1>6. Size(n) \in [1..2 -> Bytes]
  BY <1>3, <1>4, <1>5
<1>7. Size(n) \in Seq(Bytes) /\ Len(Size(n)) = 2
  BY <1>6, TwoOf
<1> QED BY <1>1, <1>2, <1>3, <1>4, <1>7

\* The bytes of a message.
LEMMA PlainIs ==
  ASSUME NEW t \in Payload
  PROVE  /\ Len(t) \in Nat /\ Plain(t) \in Seq(Bytes) /\ Len(Plain(t)) = Len(t)
         /\ \A i \in 1..Len(t) : Plain(t)[i] = Byte(t[i]) /\ Plain(t)[i] \in Bytes
<1>0. t \in Seq(0..Base - 1)
  BY DEF Payload
<1>1. Len(t) \in Nat /\ \A i \in 1..Len(t) : t[i] \in 0..Base - 1
  BY <1>0, ElementOfSeq, LenProperties
<1>2. Plain(t) \in [1..Len(t) -> Bytes]
  BY <1>1, CellKinds DEF Plain
<1>3. Plain(t) \in Seq(Bytes) /\ Len(Plain(t)) = Len(t)
  BY <1>1, <1>2
<1> QED BY <1>1, <1>2, <1>3 DEF Plain

\* A size before a message.
LEMMA SizedIs ==
  ASSUME NEW S, Bytes \subseteq S, NEW m \in Seq(S)
  PROVE  /\ Sized(m, FALSE) \in Seq(S) /\ Len(Sized(m, FALSE)) = 2 + Len(m)
         /\ Sized(m, FALSE)[1] = Byte(Len(m) % Base)
         /\ Sized(m, FALSE)[2] = Byte((Len(m) \div Base) % Base)
         /\ \A i \in 1..Len(m) : Sized(m, FALSE)[2 + i] = m[i]
<1> DEFINE z == Size(Len(m))
<1>1. Len(m) \in Nat
  OBVIOUS
<1>2. z \in Seq(Bytes) /\ Len(z) = 2
  BY <1>1, SizeIs
<1>3. z \in Seq(S)
  BY <1>2, SeqMonotonic
<1>4. z[1] = Byte(Len(m) % Base) /\ z[2] = Byte((Len(m) \div Base) % Base)
  BY <1>1, SizeIs
<1>5. Sized(m, FALSE) = z \o m
  BY DEF Sized
<1> HIDE DEF z
<1>6. /\ z \o m \in Seq(S) /\ Len(z \o m) = 2 + Len(m)
      /\ \A i \in 1..2 : (z \o m)[i] = z[i]
      /\ \A i \in 1..Len(m) : (z \o m)[2 + i] = m[i]
  BY <1>2, <1>3, AfterTwo
<1>7. (z \o m)[1] = z[1] /\ (z \o m)[2] = z[2]
  BY ONLY <1>6
<1> QED BY ONLY <1>4, <1>5, <1>6, <1>7, Zenon

\* A size and a checksum before a message.
LEMMA FramedIs ==
  ASSUME NEW m \in Seq(Cell)
  PROVE  /\ Sized(m, TRUE) \in Seq(Cell) /\ Len(Sized(m, TRUE)) = 2 + Check + Len(m)
         /\ Sized(m, TRUE)[1] = Byte((Len(m) + Check) % Base)
         /\ Sized(m, TRUE)[2] = Byte(((Len(m) + Check) \div Base) % Base)
         /\ \A i \in 1..Len(m) : Sized(m, TRUE)[2 + Check + i] = m[i]
<1> DEFINE z == Size(Len(m) + Check)
           u == [i \in 1..Check |-> Unknown]
<1>1. Len(m) \in Nat /\ Check \in Nat /\ Len(m) + Check \in Nat
  BY MessageAssumption
<1>2. z \in Seq(Bytes) /\ Len(z) = 2
  BY <1>1, SizeIs
<1>3. z \in Seq(Cell)
  BY <1>2, SeqMonotonic DEF Cell
<1>4. /\ z[1] = Byte((Len(m) + Check) % Base)
      /\ z[2] = Byte(((Len(m) + Check) \div Base) % Base)
  BY <1>1, SizeIs
<1>5. u \in [1..Check -> Cell]
  BY DEF Cell
<1>6. u \in Seq(Cell) /\ Len(u) = Check
  BY <1>1, <1>5
<1>7. Sized(m, TRUE) = z \o u \o m
  BY DEF Sized
<1> HIDE DEF z, u
<1> DEFINE zu == z \o u
<1>8. zu \in Seq(Cell) /\ Len(zu) = 2 + Check /\ zu[1] = z[1] /\ zu[2] = z[2]
  BY <1>2, <1>3, <1>6, AfterTwo
<1>9. Sized(m, TRUE) = zu \o m
  BY <1>7 DEF zu
<1> HIDE DEF zu
<1>10. /\ zu \o m \in Seq(Cell) /\ Len(zu \o m) = 2 + Check + Len(m)
       /\ \A i \in 1..2 + Check : (zu \o m)[i] = zu[i]
       /\ \A i \in 1..Len(m) : (zu \o m)[2 + Check + i] = m[i]
  <2> DEFINE l == 2 + Check
  <2>1. l \in Nat /\ zu \in Seq(Cell) /\ Len(zu) = l
    BY <1>1, <1>8
  <2> HIDE DEF l
  <2>2. /\ zu \o m \in Seq(Cell) /\ Len(zu \o m) = l + Len(m)
        /\ \A i \in 1..l : (zu \o m)[i] = zu[i]
        /\ \A i \in 1..Len(m) : (zu \o m)[l + i] = m[i]
    BY <2>1, Joined
  <2> QED BY <2>2 DEF l
<1>11. 1 \in 1..2 + Check /\ 2 \in 1..2 + Check
  BY <1>1
<1> QED BY <1>4, <1>8, <1>9, <1>10, <1>11

-----------------------------------------------------------------------------
(* Blocks.                                                                 *)

\* A message followed by zeros.
Padded(m, j) == IF j <= Len(m) THEN m[j] ELSE Byte(0)

\* The block of a byte of a message, and its place there.
LEMMA BlockIs ==
  ASSUME NEW m, Len(m) \in Nat, NEW k \in Nat
  PROVE  \A i \in 1..Block : BlockOf(m, k + 1)[i] = Padded(m, k * Block + i)
<1>1. k + 1 - 1 = k
  OBVIOUS
<1> QED BY <1>1 DEF BlockOf, Padded

LEMMA ByteOfBlock ==
  ASSUME NEW m, Len(m) \in Nat, NEW j \in Nat \ {0}
  PROVE  BlockOf(m, ((j - 1) \div Block) + 1)[((j - 1) % Block) + 1] = Padded(m, j)
<1> DEFINE k == (j - 1) \div Block
           r == (j - 1) % Block
<1>1. Block \in Nat \ {0}
  BY MessageAssumption
<1>2. k \in Nat /\ r \in 0..Block - 1 /\ k * Block \in Nat /\ k * Block + r + 1 = j
  BY <1>1, Place
<1> HIDE DEF k, r
<1>3. r + 1 \in 1..Block /\ k * Block + (r + 1) = j
  BY <1>1, <1>2
<1>4. BlockOf(m, k + 1)[r + 1] = Padded(m, k * Block + (r + 1))
  BY <1>2, <1>3, BlockIs
<1>5. BlockOf(m, k + 1)[r + 1] = Padded(m, j)
  BY <1>3, <1>4
<1> QED BY <1>5 DEF k, r

LEMMA BlockType ==
  ASSUME NEW S, Byte(0) \in S, NEW m \in Seq(S), NEW k \in Nat
  PROVE  BlockOf(m, k + 1) \in [1..Block -> S]
<1>0. Len(m) \in Nat /\ Block \in Nat
  BY MessageAssumption
<1>1. k * Block \in Nat
  BY <1>0, Products
<1>2. ASSUME NEW i \in 1..Block PROVE BlockOf(m, k + 1)[i] \in S
  <2>1. k * Block + i \in Nat \ {0}
    BY <1>0, <1>1
  <2>2. Padded(m, k * Block + i) \in S
    <3> DEFINE j == k * Block + i
    <3>1. j \in Nat \ {0}
      BY <2>1
    <3> HIDE DEF j
    <3>2. Padded(m, j) \in S
      BY <1>0, <3>1 DEF Padded
    <3> QED BY <3>2 DEF j
  <2> QED BY <1>0, <2>2, BlockIs
<1> DEFINE f == BlockOf(m, k + 1)
<1>3. f = [i \in 1..Block |-> f[i]]
  BY DEF BlockOf
<1> HIDE DEF f
<1>4. \A i \in 1..Block : f[i] \in S
  BY <1>2 DEF f
<1>5. f \in [1..Block -> S]
  BY <1>3, <1>4
<1> QED BY <1>5 DEF f

\* How long an encrypted message is.
LEMMA Lengths ==
  ASSUME NEW m, Len(m) \in Nat
  PROVE  /\ Blocks(m) \in Nat /\ Blocks(m) * Block \in Nat
         /\ Len(m) <= Blocks(m) * Block /\ Blocks(m) * Block < Len(m) + Block
<1> DEFINE n == Len(m)
<1>1. n \in Nat /\ Block \in Nat \ {0}
  BY MessageAssumption
<1> HIDE DEF n
<1>2. /\ (n + Block - 1) \div Block \in Nat /\ ((n + Block - 1) \div Block) * Block \in Nat
      /\ n <= ((n + Block - 1) \div Block) * Block
      /\ ((n + Block - 1) \div Block) * Block < n + Block
  BY <1>1, Rounding
<1> QED BY <1>2 DEF Blocks, n

LEMMA EncryptIs ==
  ASSUME NEW m \in Seq(Bytes), NEW k \in Keys
  PROVE  /\ Encrypt(m, k) \in Seq(Cell) /\ Len(Encrypt(m, k)) = Blocks(m) * Block
         /\ \A j \in 1..Blocks(m) * Block :
              Encrypt(m, k)[j] =
                [xtea |-> k, block |-> BlockOf(m, ((j - 1) \div Block) + 1),
                 at |-> ((j - 1) % Block) + 1]
<1> DEFINE n == Blocks(m) * Block
           e == Encrypt(m, k)
           c(j) == [xtea |-> k, block |-> BlockOf(m, ((j - 1) \div Block) + 1),
                    at |-> ((j - 1) % Block) + 1]
<1>0. n \in Nat /\ Block \in Nat \ {0} /\ Base - 1 \in Nat
  BY Lengths, MessageAssumption
<1>1. e = [j \in 1..n |-> c(j)]
  BY DEF Encrypt
<1>2. ASSUME NEW j \in 1..n PROVE c(j) \in Cell
  <2> HIDE DEF n
  <2>1. j \in Nat \ {0}
    BY <1>0
  <2>2. (j - 1) \div Block \in Nat /\ (j - 1) % Block \in 0..Block - 1
    BY <1>0, <2>1, Place
  <2>3. Byte(0) \in Bytes
    BY <1>0, CellKinds
  <2>4. BlockOf(m, ((j - 1) \div Block) + 1) \in [1..Block -> Bytes]
    BY <2>2, <2>3, BlockType
  <2>5. ((j - 1) % Block) + 1 \in 1..Block
    BY <1>0, <2>2
  <2>6. c(j) \in Coded
    BY <2>4, <2>5 DEF Coded
  <2> QED BY <2>6 DEF Cell
<1> HIDE DEF n, e, c
<1>3. e \in [1..n -> Cell]
  BY <1>1, <1>2
<1>4. e \in Seq(Cell) /\ Len(e) = n
  BY <1>0, <1>3
<1>5. \A j \in 1..n : e[j] = c(j)
  BY <1>1
<1> QED BY <1>4, <1>5 DEF n, e, c

\* What is made of a block of an encrypted message that has come whole, and of
\* one that has not.
LEMMA DecipheredIs ==
  ASSUME NEW m \in Seq(Bytes), NEW k \in Keys,
         NEW p \in 0..Blocks(m) * Block, NEW e \in Seq(Cell), Len(e) = p,
         \A i \in 1..p : e[i] = Encrypt(m, k)[i]
  PROVE  /\ Deciphered(e, k) \in Seq(Bytes \cup {Unknown})
         /\ Len(Deciphered(e, k)) = Blocks(e) * Block
         /\ \A j \in 1..Blocks(e) * Block : Deciphered(e, k)[j] \in {Padded(m, j), Unknown}
         /\ p = Blocks(m) * Block =>
              /\ Blocks(e) * Block = p
              /\ \A j \in 1..p : Deciphered(e, k)[j] = Padded(m, j)
<1> DEFINE n == Blocks(m) * Block
           l == Blocks(e) * Block
           whole(b) == "xtea" \in DOMAIN b[1] /\
             \A i \in 1..Block : b[i] = [xtea |-> k, block |-> b[1].block, at |-> i]
           plain(b) == IF whole(b) THEN b[1].block ELSE [i \in 1..Block |-> Unknown]
           d == Deciphered(e, k)
<1>0. /\ n \in Nat /\ l \in Nat /\ p \in Nat /\ Block \in Nat \ {0} /\ Len(m) \in Nat
      /\ Len(e) \in Nat /\ p <= n /\ Blocks(m) \in Nat
  BY Lengths, MessageAssumption
<1>1. d = [j \in 1..l |-> plain(BlockOf(e, ((j - 1) \div Block) + 1))[((j - 1) % Block) + 1]]
  BY DEF Deciphered
<1> HIDE DEF l, d, whole, plain
<1>2. ASSUME NEW q \in Nat, q * Block + Block <= p
      PROVE  plain(BlockOf(e, q + 1)) = BlockOf(m, q + 1)
  <2> DEFINE b == BlockOf(e, q + 1)
             w(i) == [xtea |-> k, block |-> BlockOf(m, q + 1), at |-> i]
             x == q * Block
  <2>0. x \in Nat
    BY <1>0, Products
  <2>7. x + Block <= p
    BY <1>2
  <2>6. \A i \in 1..Block : b[i] = Padded(e, x + i)
    BY <1>0, BlockIs
  <2>8. x = q * Block
    OBVIOUS
  <2> HIDE DEF x, b, n
  <2>1. ASSUME NEW i \in 1..Block PROVE b[i] = w(i)
    <3> DEFINE j == x + i
    <3>1. j \in 1..p /\ j \in 1..n /\ i - 1 \in 0..Block - 1 /\ j - 1 = x + (i - 1)
      BY <1>0, <2>0, <2>7
    <3>2. b[i] = e[j]
      <4>1. b[i] = Padded(e, j)
        BY <2>6
      <4> QED BY <1>0, <4>1, <3>1 DEF Padded
    <3>3. e[j] = [xtea |-> k, block |-> BlockOf(m, ((j - 1) \div Block) + 1),
                  at |-> ((j - 1) % Block) + 1]
      BY <3>1, EncryptIs DEF n
    <3>4. j - 1 \in Nat
      BY <3>1
    <3> HIDE DEF j
    <3>5. (j - 1) \div Block = q /\ (j - 1) % Block = i - 1
      <4> DEFINE z == j - 1
                 y == i - 1
      <4>1. Block \in Nat \ {0} /\ q \in Nat /\ y \in 0..Block - 1 /\ z \in Nat
        BY <1>0, <3>1, <3>4
      <4>2. z = q * Block + y
        BY ONLY <2>8, <3>1
      <4> HIDE DEF z, y
      <4>3. z \div Block = q /\ z % Block = y
        BY ONLY <4>1, <4>2, OneQuotient
      <4> QED BY <4>3 DEF z, y
    <3>6. (i - 1) + 1 = i
      BY <1>0
    <3> QED BY <3>2, <3>3, <3>5, <3>6
  <2>2. 1 \in 1..Block
    BY <1>0
  <2> HIDE DEF b
  <2>3. b[1] = w(1)
    BY <2>1, <2>2
  <2>4. b[1].block = BlockOf(m, q + 1) /\ "xtea" \in DOMAIN b[1]
    BY <2>3, CellKinds
  <2>5. whole(b)
    BY <2>1, <2>4 DEF whole
  <2> QED BY <2>4, <2>5 DEF plain, b
<1>3. ASSUME NEW q \in Nat, p < q * Block + Block
      PROVE  plain(BlockOf(e, q + 1)) = [i \in 1..Block |-> Unknown]
  <2> DEFINE b == BlockOf(e, q + 1)
  <2>1. Block \in 1..Block
    BY <1>0
  <2>2. b[Block] = Padded(e, q * Block + Block)
    BY <1>0, <2>1, BlockIs
  <2>3. b[Block] = Byte(0)
    <3>1. q * Block \in Nat
      BY <1>0, Products
    <3>2. ~ q * Block + Block <= Len(e)
      BY <1>0, <1>3, <3>1
    <3> QED BY <2>2, <3>2 DEF Padded
  <2> HIDE DEF b
  <2>4. "xtea" \notin DOMAIN b[Block]
    BY <2>3, CellKinds
  <2>5. ~ whole(b)
    <3> SUFFICES ASSUME whole(b) PROVE FALSE
      OBVIOUS
    <3>1. b[Block] = [xtea |-> k, block |-> b[1].block, at |-> Block]
      BY <2>1 DEF whole
    <3> QED BY <2>4, <3>1, CellKinds
  <2> QED BY <2>5 DEF plain, b
<1>4. ASSUME NEW j \in 1..l
      PROVE  /\ d[j] \in {Padded(m, j), Unknown} /\ d[j] \in Bytes \cup {Unknown}
             /\ p = n /\ j <= p => d[j] = Padded(m, j)
  <2> DEFINE q == (j - 1) \div Block
             r == (j - 1) % Block
  <2>1. j \in Nat \ {0}
    BY <1>0
  <2>2. q \in Nat /\ r \in 0..Block - 1 /\ q * Block \in Nat /\ q * Block + r + 1 = j
    BY <1>0, <2>1, Place
  <2>3. d[j] = plain(BlockOf(e, q + 1))[r + 1]
    BY <1>1
  <2>4. BlockOf(m, q + 1)[r + 1] = Padded(m, j)
    BY <1>0, <2>1, ByteOfBlock
  <2>5. Padded(m, j) \in Bytes
    <3>1. Byte(0) \in Bytes
      BY CellKinds, MessageAssumption
    <3> QED BY <1>0, <2>1, <3>1 DEF Padded
  <2> HIDE DEF q, r
  <2>6. CASE q * Block + Block <= p
    <3>1. d[j] = Padded(m, j)
      BY <1>2, <2>2, <2>3, <2>4, <2>6
    <3> QED BY <2>5, <3>1
  <2>7. CASE p < q * Block + Block
    <3>1. r + 1 \in 1..Block
      <4>1. r \in 0..Block - 1 /\ Block \in Nat
        BY <1>0, <2>2
      <4> QED BY ONLY <4>1
    <3>2. d[j] = Unknown
      BY <1>3, <2>2, <2>3, <2>7, <3>1
    <3>3. ~ (p = n /\ j <= p)
      <4> SUFFICES ASSUME p = n, j <= p PROVE FALSE
        OBVIOUS
      <4>1. n = Blocks(m) * Block
        OBVIOUS
      <4> HIDE DEF n
      <4>2. q * Block < Blocks(m) * Block /\ Blocks(m) * Block < q * Block + Block
        <5> DEFINE u == q * Block
        <5>1. u \in Nat /\ u + r + 1 = j /\ r \in Nat
          BY <1>0, <2>2
        <5>2. n < u + Block /\ j <= n
          BY <2>7
        <5> HIDE DEF u
        <5>3. u < n /\ n < u + Block
          BY ONLY <1>0, <5>1, <5>2
        <5> QED BY <4>1, <5>3 DEF u
      <4>3. Block * q = q * Block /\ Block * Blocks(m) = Blocks(m) * Block
        BY <1>0, <2>2
      <4>4. q < Blocks(m)
        <5> SUFFICES ASSUME Blocks(m) <= q PROVE FALSE
          BY <1>0, <2>2
        <5>1. Block * Blocks(m) <= Block * q
          BY <1>0, <2>2, Products
        <5> QED BY <1>0, <2>2, <4>1, <4>2, <4>3, <5>1
      <4>5. Block * (q + 1) <= Block * Blocks(m)
        BY <1>0, <2>2, <4>4, Products
      <4>6. Block * (q + 1) = Block * q + Block
        BY <1>0, <2>2
      <4> DEFINE bq == Block * q
                 bm == Block * Blocks(m)
                 bn == Block * (q + 1)
      <4>7. bq \in Nat /\ bm < bq + Block /\ bn <= bm /\ bn = bq + Block
        BY <2>2, <4>2, <4>3, <4>5, <4>6
      <4>8. bm \in Nat /\ Block \in Nat
        BY <1>0, Products
      <4> HIDE DEF bq, bm, bn
      <4> QED BY ONLY <4>7, <4>8
    <3> QED BY <3>2, <3>3
  <2> QED BY <1>0, <2>2, <2>6, <2>7
<1>5. d \in [1..l -> Bytes \cup {Unknown}]
  BY <1>1, <1>4
<1>6. d \in Seq(Bytes \cup {Unknown}) /\ Len(d) = l
  BY <1>0, <1>5
<1>7. ASSUME p = n PROVE l = p
  <2> DEFINE b == Blocks(m)
  <2>1. n + Block - 1 = b * Block + (Block - 1)
    BY <1>0
  <2>2. n + Block - 1 \in Nat /\ Block - 1 \in 0..Block - 1
    BY <1>0
  <2>3. (n + Block - 1) \div Block = b
    <3> DEFINE x == n + Block - 1
    <3>1. x \in Nat /\ x = b * Block + (Block - 1) /\ b \in Nat
      BY <1>0, <2>1, <2>2
    <3> HIDE DEF x, b
    <3>2. x \div Block = b
      <4>1. Block \in Nat \ {0}
        BY <1>0
      <4> QED BY ONLY <2>2, <3>1, <4>1, OneQuotient
    <3> QED BY <3>2 DEF x
  <2>4. Blocks(e) = b
    BY <1>7, <2>3 DEF Blocks
  <2> QED BY <1>7, <2>4 DEF l
<1> QED BY <1>4, <1>6, <1>7 DEF d, l

-----------------------------------------------------------------------------
(* Messages.                                                               *)

\* A message with its own size.
Inner(t) == Sized(Plain(t), FALSE)

LEMMA InnerIs ==
  ASSUME NEW t \in Payload
  PROVE  /\ Len(t) \in Nat /\ Inner(t) \in Seq(Bytes) /\ Len(Inner(t)) = 2 + Len(t)
         /\ Inner(t)[1] = Byte(Len(t) % Base)
         /\ Inner(t)[2] = Byte((Len(t) \div Base) % Base)
         /\ \A i \in 1..Len(t) : Inner(t)[2 + i] = Plain(t)[i]
<1>1. Len(t) \in Nat /\ Plain(t) \in Seq(Bytes) /\ Len(Plain(t)) = Len(t)
  BY PlainIs
<1>2. /\ Sized(Plain(t), FALSE) \in Seq(Bytes)
      /\ Len(Sized(Plain(t), FALSE)) = 2 + Len(Plain(t))
      /\ Sized(Plain(t), FALSE)[1] = Byte(Len(Plain(t)) % Base)
      /\ Sized(Plain(t), FALSE)[2] = Byte((Len(Plain(t)) \div Base) % Base)
      /\ \A i \in 1..Len(Plain(t)) : Sized(Plain(t), FALSE)[2 + i] = Plain(t)[i]
  BY <1>1, SizedIs
<1> QED BY <1>1, <1>2 DEF Inner

\* A size that has come is that which was sent.
LEMMA SizeRead ==
  ASSUME NEW n \in Nat, n < Base * Base, NEW s,
         s[1] = Byte(n % Base), s[2] = Byte((n \div Base) % Base)
  PROVE  IsByte(s[1]) /\ IsByte(s[2]) /\ Announced(s) = n
<1>0. Base \in Nat \ {0}
  BY MessageAssumption
<1>1. /\ n % Base \in 0..Base - 1 /\ (n \div Base) % Base \in 0..Base - 1
      /\ (n % Base) + Base * ((n \div Base) % Base) = n
  BY <1>0, TwoDigits
<1>2. /\ IsByte(s[1]) /\ s[1].byte = n % Base
      /\ IsByte(s[2]) /\ s[2].byte = (n \div Base) % Base
  BY <1>1, CellKinds
<1> QED BY <1>1, <1>2 DEF Announced

\* What is made of a message of which some bytes may be any: what was sent, if
\* they all are, or the beginning of it.
LEMMA OpenedIs ==
  ASSUME NEW t \in Payload, Len(t) < Base * Base,
         NEW d \in Seq(Bytes \cup {Unknown}),
         \A j \in 1..Len(d) : d[j] \in {Padded(Inner(t), j), Unknown}
  PROVE  /\ Cut(Opened(d), t)
         /\ 2 + Len(t) <= Len(d) /\ (\A j \in 1..Len(d) : d[j] = Padded(Inner(t), j)) =>
              Opened(d) = Plain(t)
<1> DEFINE x == Inner(t)
           n == Len(t)
           e == IF n + 2 < Len(d) THEN n + 2 ELSE Len(d)
           b == SubSeq(d, 3, e)
<1>0. /\ n \in Nat /\ Len(x) = 2 + n /\ Len(d) \in Nat
      /\ x[1] = Byte(n % Base) /\ x[2] = Byte((n \div Base) % Base)
      /\ \A i \in 1..n : x[2 + i] = Plain(t)[i]
  BY InnerIs
<1>1. \A j \in 1..2 + n : Padded(x, j) = x[j]
  BY <1>0 DEF Padded
<1>2. CASE ~ HasSize(d)
  <2>1. Len(d) < 2
    BY <1>0, <1>2 DEF HasSize
  <2> QED BY <1>0, <1>2, <2>1 DEF Opened, Cut
<1>3. CASE HasSize(d) /\ ~ Known(d)
  <2>1. Len(d) >= 2
    BY <1>3 DEF HasSize
  <2>2. ~ \A j \in 1..Len(d) : d[j] = Padded(x, j)
    <3> SUFFICES ASSUME \A j \in 1..Len(d) : d[j] = Padded(x, j) PROVE FALSE
      OBVIOUS
    <3>1. d[1] = x[1] /\ d[2] = x[2]
      BY <1>0, <1>1, <2>1
    <3>2. IsByte(d[1]) /\ IsByte(d[2])
      BY <1>0, <3>1, SizeRead
    <3> QED BY <1>3, <3>2 DEF Known
  <2>3. Opened(d) = Garbage
    BY <1>3 DEF Opened
  <2> QED BY <2>2, <2>3 DEF Cut
<1>4. CASE HasSize(d) /\ Known(d)
  <2>1. Len(d) >= 2 /\ IsByte(d[1]) /\ IsByte(d[2])
    BY <1>4 DEF Known, HasSize
  <2>2. d[1] = x[1] /\ d[2] = x[2]
    <3>1. 1 \in 1..Len(d) /\ 2 \in 1..Len(d) /\ 1 \in 1..2 + n /\ 2 \in 1..2 + n
      BY <1>0, <2>1
    <3>2. d[1] # Unknown /\ d[2] # Unknown
      BY <2>1, CellKinds
    <3> QED BY <1>1, <3>1, <3>2
  <2>3. Announced(d) = n
    BY <1>0, <2>2, SizeRead
  <2>4. Opened(d) = b
    BY <1>4, <2>3 DEF Opened, Body
  <2>5. e \in Nat /\ 2 <= e /\ e <= Len(d) /\ e <= n + 2
    BY <1>0, <2>1
  <2> HIDE DEF e
  <2>6. /\ b \in Seq(Bytes \cup {Unknown})
        /\ Len(b) = IF 3 <= e THEN e - 3 + 1 ELSE 0
        /\ \A i \in 1..e - 3 + 1 : b[i] = d[3 + i - 1]
    BY <2>5, PartOf
  <2>7. Len(b) = e - 2
    BY <2>5, <2>6
  <2>8. \A i \in 1..e - 2 : /\ b[i] = d[2 + i] /\ 2 + i \in 1..Len(d)
                            /\ i \in 1..n /\ Padded(x, 2 + i) = Plain(t)[i]
    <3> SUFFICES ASSUME NEW i \in 1..e - 2
                 PROVE  /\ b[i] = d[2 + i] /\ 2 + i \in 1..Len(d)
                        /\ i \in 1..n /\ Padded(x, 2 + i) = Plain(t)[i]
      OBVIOUS
    <3>1. i \in 1..e - 3 + 1 /\ 3 + i - 1 = 2 + i /\ 2 + i \in 1..Len(d) /\ i \in 1..n
      BY <2>5
    <3>2. 2 + i \in 1..2 + n
      BY <1>0, <3>1
    <3> QED BY <1>0, <1>1, <2>6, <3>1, <3>2
  <2> HIDE DEF b
  <2>9. Cut(b, t)
    <3>1. Len(b) <= n
      BY <1>0, <2>5, <2>7
    <3>2. \A i \in 1..Len(b) : b[i] \in {Plain(t)[i], Unknown}
      BY <2>7, <2>8
    <3> QED BY <3>1, <3>2 DEF Cut
  <2>10. ASSUME 2 + n <= Len(d), \A j \in 1..Len(d) : d[j] = Padded(x, j)
         PROVE  b = Plain(t)
    <3>1. Len(b) = n
      BY <1>0, <2>5, <2>7, <2>10 DEF e
    <3>2. \A i \in 1..n : b[i] = Plain(t)[i]
      BY <2>7, <2>8, <2>10, <3>1
    <3>3. Plain(t) \in Seq(Bytes \cup {Unknown}) /\ Len(Plain(t)) = n
      BY PlainIs, SeqMonotonic
    <3> QED BY <2>6, <3>1, <3>2, <3>3, SeqEqual DEF b
  <2> QED BY <2>4, <2>9, <2>10
<1> QED BY <1>2, <1>3, <1>4

\* A message as it is written, and what is read of it: in plain for the greeting,
\* and otherwise encrypted.
Inside(plain, k, t) == IF plain THEN Inner(t) ELSE Encrypt(Inner(t), k)
Frame(plain, k, t) == IF plain THEN PrependSize(Plain(t)) ELSE Finalize(Plain(t), k)
Opening(plain, k, s) == IF plain THEN Opened(Unchecked(Body(s))) ELSE Decrypt(Body(s), k)

LEMMA InsideIs ==
  ASSUME NEW t \in Payload, NEW k \in Keys, NEW g \in BOOLEAN
  PROVE  /\ Inside(g, k, t) \in Seq(Cell)
         /\ Frame(g, k, t) = Sized(Inside(g, k, t), TRUE)
         /\ Len(Inside(g, k, t)) = IF g THEN Len(Inner(t)) ELSE Blocks(Inner(t)) * Block
         /\ Fits(Plain(t)) => Len(Inside(g, k, t)) + Check < Base * Base
         /\ Fits(Plain(t)) => Len(t) < Base * Base
<1>1. Inner(t) \in Seq(Bytes) /\ Len(Inner(t)) = 2 + Len(t) /\ Len(t) \in Nat
  BY InnerIs
<1>2. Inner(t) \in Seq(Cell)
  BY <1>1, SeqMonotonic DEF Cell
<1>3. Encrypt(Inner(t), k) \in Seq(Cell) /\ Len(Encrypt(Inner(t), k)) = Blocks(Inner(t)) * Block
  BY <1>1, EncryptIs
<1>4. /\ Inside(g, k, t) \in Seq(Cell)
      /\ Len(Inside(g, k, t)) = IF g THEN Len(Inner(t)) ELSE Blocks(Inner(t)) * Block
  BY <1>2, <1>3 DEF Inside
<1>5. Frame(g, k, t) = Sized(Inside(g, k, t), TRUE)
  BY DEF Frame, Inside, Inner, PrependSize, Finalize
<1>6. ASSUME Fits(Plain(t))
      PROVE  Len(Inside(g, k, t)) + Check < Base * Base /\ Len(t) < Base * Base
  <2> DEFINE y == Blocks(Inner(t)) * Block
             bb == Base * Base
             l == Len(Inside(g, k, t))
  <2>1. y + Check < bb
    BY <1>6 DEF Fits, Inner
  <2>2. y \in Nat /\ 2 + Len(t) <= y
    BY <1>1, Lengths
  <2>3. bb \in Nat /\ Check \in Nat
    BY MessageAssumption
  <2>4. l = 2 + Len(t) \/ l = y
    BY <1>1, <1>4
  <2> HIDE DEF y, bb, l
  <2>5. l + Check < bb /\ Len(t) < bb
    BY <1>1, <2>1, <2>2, <2>3, <2>4
  <2> QED BY <2>5 DEF bb, l
<1> QED BY <1>4, <1>5, <1>6

\* A message that is on the connection, all of it or the beginning.
LEMMA FrameIs ==
  ASSUME NEW t \in Payload, NEW k \in Keys, NEW g \in BOOLEAN
  PROVE  /\ Frame(g, k, t) \in Seq(Cell)
         /\ Len(Frame(g, k, t)) \in Nat /\ 2 <= Len(Frame(g, k, t))
<1> DEFINE y == Inside(g, k, t)
<1>1. y \in Seq(Cell) /\ Frame(g, k, t) = Sized(y, TRUE)
  BY InsideIs
<1> HIDE DEF y
<1>2. Sized(y, TRUE) \in Seq(Cell) /\ Len(Sized(y, TRUE)) = 2 + Check + Len(y)
  BY <1>1, FramedIs
<1>3. Len(y) \in Nat /\ Check \in Nat
  BY <1>1, MessageAssumption
<1>4. 2 + Check + Len(y) \in Nat /\ 2 <= 2 + Check + Len(y)
  BY <1>3
<1> QED BY <1>1, <1>2, <1>4

\* What is read of a message is what was sent, or of its beginning, no error.
LEMMA ReadIs ==
  ASSUME NEW t \in Payload, Fits(Plain(t)), NEW k \in Keys, NEW g \in BOOLEAN,
         NEW s \in Seq(Cell), HasSize(s),
         \A j \in 1..Len(Frame(g, k, t)) : j <= Len(s) => s[j] = Frame(g, k, t)[j]
  PROVE  /\ Known(s) /\ 2 + Announced(s) = Len(Frame(g, k, t))
         /\ Cut(Opening(g, k, s), t)
         /\ Len(Frame(g, k, t)) <= Len(s) => Opening(g, k, s) = Plain(t)
<1> DEFINE f == Frame(g, k, t)
           y == Inside(g, k, t)
           n == Len(y) + Check
           b == Body(s)
           u == Unchecked(b)
           p == Len(u)
           x == Inner(t)
<1>1. /\ y \in Seq(Cell) /\ f = Sized(y, TRUE) /\ n < Base * Base /\ Len(t) < Base * Base
      /\ Len(y) = IF g THEN Len(x) ELSE Blocks(x) * Block
  BY InsideIs
<1>2. x \in Seq(Bytes) /\ Len(x) = 2 + Len(t) /\ Len(t) \in Nat
  BY InnerIs
<1>3. y = IF g THEN x ELSE Encrypt(x, k)
  BY DEF Inside
<1> HIDE DEF y, x
<1> HIDE DEF f
<1>4. /\ Len(f) = 2 + Check + Len(y)
      /\ f[1] = Byte(n % Base) /\ f[2] = Byte((n \div Base) % Base)
      /\ \A i \in 1..Len(y) : f[2 + Check + i] = y[i]
  <2>1. /\ Len(Sized(y, TRUE)) = 2 + Check + Len(y)
        /\ Sized(y, TRUE)[1] = Byte((Len(y) + Check) % Base)
        /\ Sized(y, TRUE)[2] = Byte(((Len(y) + Check) \div Base) % Base)
        /\ \A i \in 1..Len(y) : Sized(y, TRUE)[2 + Check + i] = y[i]
    BY <1>1, FramedIs
  <2> QED BY ONLY <1>1, <2>1
<1>5. Len(y) \in Nat /\ Check \in Nat /\ n \in Nat /\ Len(s) \in Nat /\ 2 <= Len(s)
  BY <1>1, MessageAssumption DEF HasSize
<1>6. \A j \in 1..Len(f) : j <= Len(s) => s[j] = f[j]
  BY DEF f
<1>7. s[1] = f[1] /\ s[2] = f[2]
  BY <1>4, <1>5, <1>6
<1>8. IsByte(s[1]) /\ IsByte(s[2]) /\ Announced(s) = n
  BY <1>1, <1>4, <1>5, <1>7, SizeRead
<1>9. Known(s) /\ 2 + Announced(s) = Len(f)
  BY <1>4, <1>5, <1>8 DEF Known
<1> DEFINE e == IF n + 2 < Len(s) THEN n + 2 ELSE Len(s)
<1>10. e \in Nat /\ 2 <= e /\ e <= Len(s) /\ e <= n + 2
  BY <1>5
<1>11. b = SubSeq(s, 3, e)
  BY <1>8 DEF Body
<1>12. e = n + 2 <=> Len(f) <= Len(s)
  BY <1>4, <1>5
<1> HIDE DEF e, n, b
<1>13. b \in Seq(Cell) /\ Len(b) = e - 2 /\ \A i \in 1..e - 2 : b[i] = s[2 + i]
  <2>1. /\ b \in Seq(Cell) /\ Len(b) = IF 3 <= e THEN e - 3 + 1 ELSE 0
        /\ \A i \in 1..e - 3 + 1 : b[i] = s[3 + i - 1]
    BY <1>10, <1>11, PartOf
  <2>2. e - 3 + 1 = e - 2 /\ \A i \in 1..e - 2 : 3 + i - 1 = 2 + i
    BY <1>10
  <2>3. Len(b) = e - 2
    BY <1>10, <2>1
  <2>4. \A i \in 1..e - 2 : b[i] = s[2 + i]
    BY <1>10, <2>1
  <2> QED BY <2>1, <2>3, <2>4
<1>14. u = SubSeq(b, Check + 1, e - 2)
  BY <1>13 DEF Unchecked
<1> HIDE DEF u
<1>15. /\ u \in Seq(Cell) /\ p = (IF Check <= e - 2 THEN e - 2 - Check ELSE 0)
       /\ \A i \in 1..e - 2 - Check : u[i] = b[Check + i]
  <2> DEFINE a == Check + 1
             z == e - 2
  <2>1. a \in Nat \ {0} /\ z \in Nat /\ z <= Len(b)
    BY <1>5, <1>10, <1>13
  <2> HIDE DEF a, z
  <2>2. /\ SubSeq(b, a, z) \in Seq(Cell)
        /\ Len(SubSeq(b, a, z)) = IF a <= z THEN z - a + 1 ELSE 0
        /\ \A i \in 1..z - a + 1 : SubSeq(b, a, z)[i] = b[a + i - 1]
    BY <1>13, <2>1, PartOf
  <2>3. Len(u) = IF a <= z THEN z - a + 1 ELSE 0
    BY <1>14, <2>2 DEF a, z
  <2>4. p = (IF Check <= e - 2 THEN e - 2 - Check ELSE 0)
    BY <1>5, <1>10, <2>3 DEF a, z
  <2>5. ASSUME NEW i \in 1..e - 2 - Check PROVE u[i] = b[Check + i]
    <3>1. i \in 1..z - a + 1 /\ a + i - 1 = Check + i
      BY <1>5, <1>10 DEF a, z
    <3> QED BY <1>14, <2>2, <3>1 DEF a, z
  <2> QED BY <1>14, <2>2, <2>4, <2>5 DEF a, z
<1> HIDE DEF p
<1>16. p \in Nat /\ p <= Len(y) /\ (p = Len(y) <=> Len(f) <= Len(s) \/ (Len(y) = 0 /\ p = 0))
  <2> DEFINE a == Len(y)
             q == Len(f)
             o == Len(s)
  <2>1. n = a + Check /\ q = 2 + Check + a
    BY <1>4 DEF n
  <2>2. a \in Nat /\ Check \in Nat /\ o \in Nat /\ 2 <= o
    BY <1>5
  <2>3. p = IF Check <= e - 2 THEN e - 2 - Check ELSE 0
    BY <1>15
  <2>4. e \in Nat /\ e <= n + 2 /\ (e = n + 2 <=> q <= o)
    BY <1>10, <1>12
  <2> HIDE DEF a, q, o
  <2>5. p \in Nat /\ p <= a /\ (p = a <=> q <= o \/ (a = 0 /\ p = 0))
    BY ONLY <2>1, <2>2, <2>3, <2>4
  <2> QED BY <2>5 DEF a, q, o
<1>17. ASSUME NEW i \in 1..p PROVE u[i] = y[i]
  <2>1. /\ i \in 1..e - 2 - Check /\ Check + i \in 1..e - 2 /\ i \in 1..Len(y)
        /\ 2 + (Check + i) = 2 + Check + i /\ 2 + Check + i \in 1..Len(f)
        /\ 2 + Check + i <= Len(s)
    BY <1>4, <1>5, <1>10, <1>15, <1>16
  <2>2. u[i] = b[Check + i] /\ b[Check + i] = s[2 + (Check + i)]
    BY <1>13, <1>15, <2>1
  <2> QED BY <1>4, <1>6, <2>1, <2>2
<1>18. CASE g
  <2>1. y = x /\ Opening(g, k, s) = Opened(u) /\ Len(u) = p
    BY <1>3, <1>18 DEF Opening, p, u, b
  <2>2. \A i \in 1..p : u[i] = Padded(x, i) /\ u[i] \in Bytes \cup {Unknown}
    <3> SUFFICES ASSUME NEW i \in 1..p
                 PROVE  u[i] = Padded(x, i) /\ u[i] \in Bytes \cup {Unknown}
      OBVIOUS
    <3>1. i \in 1..Len(x) /\ u[i] = x[i]
      BY <1>16, <1>17, <2>1
    <3>2. x[i] \in Bytes
      BY <1>2, <3>1, ElementOfSeq
    <3>3. Padded(x, i) = x[i]
      BY <1>2, <3>1 DEF Padded
    <3> QED BY <3>1, <3>2, <3>3
  <2>3. u \in Seq(Bytes \cup {Unknown})
    <3>1. u \in [1..p -> Bytes \cup {Unknown}]
      BY <1>15, <2>1, <2>2
    <3> QED BY <1>16, <3>1
  <2>4. Cut(Opened(u), t)
    BY <1>1, <2>1, <2>2, <2>3, OpenedIs DEF x
  <2>5. ASSUME Len(f) <= Len(s) PROVE Opened(u) = Plain(t)
    <3>1. p = 2 + Len(t)
      BY <1>2, <1>16, <2>1, <2>5
    <3>2. 2 + Len(t) <= Len(u)
      BY <1>2, <2>1, <3>1
    <3> QED BY <1>1, <2>1, <2>2, <2>3, <3>2, OpenedIs DEF x
  <2> QED BY <1>9, <2>1, <2>4, <2>5 DEF f
<1>19. CASE ~ g
  <2> DEFINE d == Deciphered(u, k)
             z == Blocks(x) * Block
  <2>1. y = Encrypt(x, k) /\ Opening(g, k, s) = Opened(d) /\ Len(u) = p /\ Len(y) = z
    BY <1>1, <1>3, <1>19 DEF Opening, Decrypt, Decipher, p, u, b
  <2>2. \A i \in 1..p : u[i] = Encrypt(x, k)[i]
    BY <1>17, <2>1
  <2>3. z \in Nat /\ Len(x) <= z
    BY <1>2, Lengths
  <2>4. p \in 0..z
    BY <1>16, <2>1, <2>3
  <2>5. /\ d \in Seq(Bytes \cup {Unknown})
        /\ Len(d) = Blocks(u) * Block
        /\ \A j \in 1..Blocks(u) * Block : d[j] \in {Padded(x, j), Unknown}
        /\ p = z => Blocks(u) * Block = p /\ \A j \in 1..p : d[j] = Padded(x, j)
    BY <1>2, <1>15, <2>1, <2>2, <2>4, DecipheredIs
  <2> HIDE DEF d, z
  <2>6. \A j \in 1..Len(d) : d[j] \in {Padded(x, j), Unknown}
    BY <2>5
  <2>7. Cut(Opened(d), t)
    BY <1>1, <2>5, <2>6, OpenedIs DEF x
  <2>8. ASSUME Len(f) <= Len(s) PROVE Opened(d) = Plain(t)
    <3>1. p = z
      BY <1>16, <2>1, <2>8
    <3>2. Len(d) = p /\ \A j \in 1..Len(d) : d[j] = Padded(x, j)
      BY <2>5, <3>1
    <3>3. 2 + Len(t) <= Len(d)
      BY <1>2, <2>3, <3>1, <3>2
    <3> QED BY <1>1, <2>5, <2>6, <3>2, <3>3, OpenedIs DEF x
  <2> QED BY <1>9, <2>1, <2>7, <2>8 DEF f
<1> QED BY <1>18, <1>19

-----------------------------------------------------------------------------
(* Connections.                                                            *)

\* What the connections carry, besides the types of the specification.
Carried ==
  /\ wire \in [Conns -> Seq(Cell)]
  /\ got = [c \in Conns |-> got[c]]
  /\ \A c \in Conns : \E S : got[c] \in Seq(S)

\* How far a client has come, and what it was sent meanwhile.
AskedFor(c) ==
  /\ conn[c] \in {"none", "greet"} => sent[c] = <<>>
  /\ conn[c] \in {"hello", "header", "strings", "answer", "reject"} =>
       Len(sent[c]) <= 1 /\ \A i \in 1..Len(sent[c]) : sent[c][i] = Greeting
  /\ conn[c] \in {"header", "strings", "answer", "reject", "play"} =>
       hello[c] # Silent /\ hello[c].proto \in {1, 10}
  /\ conn[c] \in {"strings", "answer", "reject", "play"} => Decryptable(hello[c])
  /\ conn[c] \in {"answer", "reject", "play"} => StringsRead(hello[c])
  /\ conn[c] = "answer" => hello[c].proto = 1
  /\ conn[c] \in {"reject", "play"} => hello[c].proto = 10
  /\ conn[c] = "reject" => port[c] = "game"
  /\ conn[c] = "play" => \A i \in 1..Len(sent[c]) : sent[c][i] \in Texts \cup {Greeting}

\* What a connection was sent is an answer to what its client asked for.
AnsweredFor(c) ==
  \A i \in 1..Len(sent[c]) :
    LET h == hello[c]
    IN  sent[c][i] # Greeting =>
          /\ h # Silent /\ StringsRead(h)
          /\ h.rest = RSASize + (IF sent[c][i] = LoginAnswer THEN 16 ELSE 4)
          /\ (h.proto = 1) <=> (sent[c][i] = LoginAnswer)
          /\ sent[c][i] \in {LoginAnswer, LameDuckText, NoText} =>
               i = Len(sent[c]) /\ conn[c] = "closed"

Asked == \A c \in Conns : AskedFor(c) /\ AnsweredFor(c)

\* Connections have nothing to do with each other.
LEMMA AskedKept ==
  ASSUME NEW c \in Conns, AskedFor(c), AnsweredFor(c), UNCHANGED <<hello, port>>,
         conn'[c] = conn[c], sent'[c] = sent[c]
  PROVE  AskedFor(c)' /\ AnsweredFor(c)'
BY DEF AskedFor, AnsweredFor, Decryptable, HeaderSize, StringsRead

\* Only the server writes, to the connection it serves.
LEMMA WriteIs ==
  ASSUME TypeOK, Carried, NEW c \in Conns, NEW m \in Payload, NEW cells \in Seq(Cell),
         Writes(c, m, cells), Len(sent[c]) <= MaxTexts
  PROVE  /\ wire' \in [Conns -> Seq(Cell)]
         /\ sent' \in [Conns -> Seq(Payload)]
         /\ \A d \in Conns : Len(sent'[d]) <= 1 + MaxTexts
         /\ \A d \in Conns \ {c} : wire'[d] = wire[d] /\ sent'[d] = sent[d]
         /\ \/ cut[c] /\ UNCHANGED <<wire, sent>>
            \/ ~ cut[c] /\ wire'[c] = wire[c] \o cells /\ sent'[c] = Append(sent[c], m)
<1>1. wire[c] \o cells \in Seq(Cell)
  BY ConcatProperties DEF Carried
<1>2. sent[c] \in Seq(Payload)
  BY DEF TypeOK
<1>3. Append(sent[c], m) \in Seq(Payload) /\ Len(Append(sent[c], m)) = Len(sent[c]) + 1
  BY <1>2
<1>4. Len(sent[c]) + 1 <= 1 + MaxTexts
  BY <1>2, TextsAssumption
<1>5. CASE cut[c]
  BY <1>5 DEF Writes, TypeOK, Carried
<1>6. CASE ~ cut[c]
  <2>1. /\ wire' = [wire EXCEPT ![c] = wire[c] \o cells]
        /\ sent' = [sent EXCEPT ![c] = Append(sent[c], m)]
    BY <1>6 DEF Writes
  <2>2. wire' \in [Conns -> Seq(Cell)] /\ sent' \in [Conns -> Seq(Payload)]
    BY <1>1, <1>3, <2>1 DEF TypeOK, Carried
  <2>3. \A d \in Conns \ {c} : wire'[d] = wire[d] /\ sent'[d] = sent[d]
    BY <2>1 DEF TypeOK, Carried
  <2>4. wire'[c] = wire[c] \o cells /\ sent'[c] = Append(sent[c], m)
    BY <2>1 DEF TypeOK, Carried
  <2>5. \A d \in Conns : Len(sent'[d]) <= 1 + MaxTexts
    BY <1>3, <1>4, <2>3, <2>4 DEF TypeOK
  <2> QED BY <1>6, <2>2, <2>3, <2>4, <2>5
<1> QED BY <1>5, <1>6

\* The bytes among the cells are bytes.
LEMMA WireBytes ==
  ASSUME NEW w \in [Conns -> Seq(Cell)]
  PROVE  \A c \in Conns : \A i \in DOMAIN w[c] : IsByte(w[c][i]) => w[c][i].byte \in 0..Base - 1
<1> SUFFICES ASSUME NEW c \in Conns, NEW i \in DOMAIN w[c], IsByte(w[c][i])
             PROVE  w[c][i].byte \in 0..Base - 1
  OBVIOUS
<1>1. w[c] \in Seq(Cell) /\ i \in 1..Len(w[c])
  BY LenProperties
<1>2. w[c][i] \in Cell
  BY <1>1, ElementOfSeq
<1> QED BY <1>2, CellKinds

\* A message, as it is put on a connection.
LEMMA WrittenCells ==
  ASSUME NEW t \in Payload, NEW k \in Keys
  PROVE  PrependSize(Plain(t)) \in Seq(Cell) /\ Finalize(Plain(t), k) \in Seq(Cell)
<1>1. Frame(TRUE, k, t) \in Seq(Cell) /\ Frame(FALSE, k, t) \in Seq(Cell)
  BY FrameIs
<1> QED BY <1>1 DEF Frame

\* What follows a message that has been read.
LEMMA AfterIs ==
  ASSUME NEW s \in Seq(Cell), HasSize(s), Known(s)
  PROVE  /\ Announced(s) \in Nat /\ After(s) \in Seq(Cell)
         /\ Len(After(s)) = IF 3 + Announced(s) <= Len(s) THEN Len(s) - 2 - Announced(s) ELSE 0
         /\ \A i \in 1..Len(s) - 2 - Announced(s) : After(s)[i] = s[2 + Announced(s) + i]
<1> DEFINE n == Announced(s)
<1>1. Len(s) \in Nat /\ 2 <= Len(s) /\ IsByte(s[1]) /\ IsByte(s[2])
  BY DEF HasSize, Known
<1>2. s[1] \in Cell /\ s[2] \in Cell
  BY <1>1, ElementOfSeq
<1>3. s[1].byte \in 0..Base - 1 /\ s[2].byte \in 0..Base - 1
  BY <1>1, <1>2, CellKinds
<1>4. n \in Nat
  <2>1. Base * s[2].byte \in Nat
    BY <1>3, MessageAssumption, Products
  <2>2. Announced(s) = s[1].byte + Base * s[2].byte
    BY DEF Announced
  <2>3. s[1].byte \in Nat
    BY <1>3, MessageAssumption
  <2> QED BY <2>1, <2>2, <2>3
<1>5. After(s) = SubSeq(s, 3 + n, Len(s))
  BY DEF After
<1> HIDE DEF n
<1>6. 3 + n \in Nat \ {0} /\ Len(s) <= Len(s)
  BY <1>1, <1>4
<1>7. /\ SubSeq(s, 3 + n, Len(s)) \in Seq(Cell)
      /\ Len(SubSeq(s, 3 + n, Len(s))) = IF 3 + n <= Len(s) THEN Len(s) - (3 + n) + 1 ELSE 0
      /\ \A i \in 1..Len(s) - (3 + n) + 1 : SubSeq(s, 3 + n, Len(s))[i] = s[3 + n + i - 1]
  BY <1>1, <1>6, PartOf
<1>8. Len(After(s)) = IF 3 + n <= Len(s) THEN Len(s) - 2 - n ELSE 0
  BY <1>1, <1>4, <1>5, <1>7
<1>9. ASSUME NEW i \in 1..Len(s) - 2 - n PROVE After(s)[i] = s[2 + n + i]
  <2>1. i \in 1..Len(s) - (3 + n) + 1 /\ 3 + n + i - 1 = 2 + n + i
    BY <1>1, <1>4
  <2> QED BY <1>5, <1>7, <2>1
<1> QED BY <1>4, <1>5, <1>7, <1>8, <1>9 DEF n

\* All keep to their types.
LEMMA TypesStep == TypeOK /\ Carried /\ Asked /\ [Next]_vars => TypeOK' /\ Carried'
<1> SUFFICES ASSUME TypeOK, Carried, Asked, [Next]_vars PROVE TypeOK' /\ Carried'
  OBVIOUS
<1>0. Greeting \in Payload /\ LoginAnswer \in Payload /\ LameDuckText \in Payload
      /\ NoText \in Payload /\ Texts \subseteq Payload
  BY PayloadAssumption
<1>1. ASSUME UNCHANGED <<wire, sent, got>>, process' \in {"up", "down"}, ready' \in BOOLEAN,
             conn' \in [Conns -> At], cut' \in [Conns -> BOOLEAN],
             UNCHANGED <<port, hello, key>>
      PROVE  TypeOK' /\ Carried'
  BY <1>1 DEF TypeOK, Carried
<1>2. CASE Ready
  BY <1>1, <1>2 DEF Ready, TypeOK
<1>3. ASSUME NEW c \in Conns,
             Accept(c) \/ ReadHello(c) \/ NoHello(c) \/ ReadHeader(c) \/ ReadStrings(c) \/ Leave(c)
      PROVE  TypeOK' /\ Carried'
  <2>1. PICK to \in At : conn' = [conn EXCEPT ![c] = to]
    BY <1>3 DEF Accept, ReadHello, NoHello, ReadHeader, ReadStrings, Leave, Closes, Goes, At
  <2>2. conn' \in [Conns -> At]
    BY <2>1 DEF TypeOK
  <2>3. /\ UNCHANGED <<wire, sent, got, cut, ready, port, hello, key>>
        /\ process' \in {"up", "down"}
    BY <1>3 DEF Accept, ReadHello, NoHello, ReadHeader, ReadStrings, Leave, Closes, clientVars,
                TypeOK
  <2> QED BY <1>1, <2>2, <2>3 DEF TypeOK
<1>4. ASSUME NEW c \in Conns, NEW m \in Payload, NEW cells \in Seq(Cell), Writes(c, m, cells),
             Len(sent[c]) <= MaxTexts, conn' \in [Conns -> At], UNCHANGED <<clientVars, cut, got>>
      PROVE  TypeOK' /\ Carried'
  <2>1. /\ wire' \in [Conns -> Seq(Cell)]
        /\ sent' \in [Conns -> Seq(Payload)]
        /\ \A d \in Conns : Len(sent'[d]) <= 1 + MaxTexts
    BY <1>4, WriteIs
  <2>2. \A d \in Conns : \A i \in DOMAIN wire'[d] :
          IsByte(wire'[d][i]) => wire'[d][i].byte \in 0..Base - 1
    BY <2>1, WireBytes
  <2> QED BY <1>4, <2>1, <2>2 DEF TypeOK, Carried, clientVars
<1>5. ASSUME NEW c \in Conns, Greet(c) PROVE TypeOK' /\ Carried'
  <2>1. Len(sent[c]) <= MaxTexts
    BY <1>5, TextsAssumption DEF Greet, Goes, Asked, AskedFor
  <2>2. conn' \in [Conns -> At]
    BY <1>5 DEF Greet, Goes, TypeOK, At
  <2>3. PrependSize(Plain(Greeting)) \in Seq(Cell)
    BY <1>0, WrittenCells DEF TypeOK
  <2> QED BY <1>0, <1>4, <1>5, <2>1, <2>2, <2>3 DEF Greet
<1>6. ASSUME NEW c \in Conns, Answer(c) PROVE TypeOK' /\ Carried'
  <2>1. Len(sent[c]) <= MaxTexts
    BY <1>6, TextsAssumption DEF Answer, Goes, Asked, AskedFor, TypeOK
  <2>2. conn' \in [Conns -> At]
    BY <1>6 DEF Answer, Goes, TypeOK, At
  <2>3. Finalize(Plain(LoginAnswer), key[c]) \in Seq(Cell)
    BY <1>0, WrittenCells DEF TypeOK
  <2> QED BY <1>0, <1>4, <1>6, <2>1, <2>2, <2>3 DEF Answer
<1>7. ASSUME NEW c \in Conns, Reject(c) PROVE TypeOK' /\ Carried'
  <2>1. CASE process' = "down"
    BY <1>1, <1>7, <2>1 DEF Reject, TypeOK, clientVars, Goes
  <2>2. CASE process' # "down"
    <3>1. PICK t \in {LameDuckText, NoText} :
            /\ Goes(c, "reject", "closed")
            /\ Writes(c, t, Finalize(Plain(t), key[c]))
            /\ UNCHANGED <<clientVars, cut, got>>
      BY <1>7, <2>2 DEF Reject
    <3>2. Len(sent[c]) <= MaxTexts
      BY <3>1, TextsAssumption DEF Goes, Asked, AskedFor, TypeOK
    <3>3. conn' \in [Conns -> At]
      BY <3>1 DEF Goes, TypeOK, At
    <3>4. t \in Payload /\ Finalize(Plain(t), key[c]) \in Seq(Cell)
      BY <1>0, WrittenCells DEF TypeOK
    <3> QED BY <1>4, <3>1, <3>2, <3>3, <3>4
  <2> QED BY <2>1, <2>2
<1>8. ASSUME NEW c \in Conns, NEW t \in Texts, Send(c, t) PROVE TypeOK' /\ Carried'
  <2>1. Len(sent[c]) <= MaxTexts
    BY <1>8, TextsAssumption DEF Send, TypeOK
  <2>2. conn' \in [Conns -> At]
    BY <1>8 DEF Send, Goes, TypeOK, At
  <2>3. t \in Payload /\ Finalize(Plain(t), key[c]) \in Seq(Cell)
    BY <1>0, WrittenCells DEF TypeOK
  <2> QED BY <1>4, <1>8, <2>1, <2>2, <2>3 DEF Send
<1>9. ASSUME NEW c \in Conns, Lose(c) PROVE TypeOK' /\ Carried'
  <2>1. PICK n \in 0..Len(wire[c]) : wire' = [wire EXCEPT ![c] = SubSeq(wire[c], 1, n)]
    BY <1>9 DEF Lose
  <2>2. wire[c] \in Seq(Cell) /\ n \in Nat /\ n <= Len(wire[c])
    BY DEF Carried
  <2>3. SubSeq(wire[c], 1, n) \in Seq(Cell)
    BY <2>2, PartOf
  <2>4. wire' \in [Conns -> Seq(Cell)]
    BY <2>1, <2>3 DEF Carried
  <2>5. \A d \in Conns : \A i \in DOMAIN wire'[d] :
          IsByte(wire'[d][i]) => wire'[d][i].byte \in 0..Base - 1
    BY <2>4, WireBytes
  <2> QED BY <1>9, <2>4, <2>5 DEF Lose, TypeOK, Carried, clientVars
<1>10. ASSUME NEW c \in Conns, Read(c) PROVE TypeOK' /\ Carried'
  <2>1. wire' \in [Conns -> Seq(Cell)]
    <3>1. CASE UNCHANGED wire
      BY <3>1 DEF Carried
    <3>2. CASE ~ UNCHANGED wire
      <4>1. /\ HasSize(wire[c]) /\ Known(wire[c])
            /\ wire' = [wire EXCEPT ![c] = After(wire[c])]
        BY <1>10, <3>2 DEF Read
      <4>2. After(wire[c]) \in Seq(Cell)
        BY <4>1, AfterIs DEF Carried
      <4> QED BY <4>1, <4>2 DEF Carried
    <3> QED BY <3>1, <3>2
  <2>2. \A d \in Conns : \A i \in DOMAIN wire'[d] :
          IsByte(wire'[d][i]) => wire'[d][i].byte \in 0..Base - 1
    BY <2>1, WireBytes
  <2>3. PICK m : got' = [got EXCEPT ![c] = Append(got[c], m)]
    BY <1>10 DEF Read
  <2>4. got' = [d \in Conns |-> got'[d]]
    BY <2>3 DEF Carried
  <2>5. ASSUME NEW d \in Conns PROVE \E S : got'[d] \in Seq(S)
    <3>1. PICK S : got[d] \in Seq(S)
      BY DEF Carried
    <3>2. CASE d # c
      BY <2>3, <3>1, <3>2 DEF Carried
    <3>3. CASE d = c
      <4>1. got'[d] = Append(got[d], m)
        BY <2>3, <3>3 DEF Carried
      <4>2. got[d] \in Seq(S \cup {m})
        BY <3>1, SeqMonotonic
      <4>3. Append(got[d], m) \in Seq(S \cup {m})
        BY <4>2
      <4> QED BY <4>1, <4>3
    <3> QED BY <3>2, <3>3
  <2>6. UNCHANGED <<process, ready, port, hello, key, conn, cut, sent>>
    BY <1>10 DEF Read, clientVars
  <2> QED BY <2>1, <2>2, <2>4, <2>5, <2>6 DEF TypeOK, Carried
<1>11. CASE UNCHANGED vars
  BY <1>11 DEF vars, TypeOK, Carried
<1> QED
  BY <1>2, <1>3, <1>5, <1>6, <1>7, <1>8, <1>9, <1>10, <1>11 DEF Next, Server

\* What a client asked for stays what it was.
LEMMA HelloKept ==
  ASSUME NEW c \in Conns, UNCHANGED <<hello, port>>
  PROVE  /\ hello[c]' = hello[c] /\ port[c]' = port[c]
         /\ StringsRead(hello[c])' <=> StringsRead(hello[c])
         /\ Decryptable(hello[c])' <=> Decryptable(hello[c])
BY DEF StringsRead, Decryptable, HeaderSize

\* A step of a connection that writes nothing.
LEMMA AskedMove ==
  ASSUME TypeOK, NEW c \in Conns, AskedFor(c), AnsweredFor(c),
         UNCHANGED <<hello, port, sent>>, conn[c] # "closed",
         NEW to \in At, conn'[c] = to,
         to = "greet" => sent[c] = <<>>,
         to # "none",
         to \in {"hello", "header", "strings", "answer", "reject", "play"} =>
           Len(sent[c]) <= 1 /\ \A i \in 1..Len(sent[c]) : sent[c][i] = Greeting,
         to \in {"header", "strings", "answer", "reject", "play"} =>
           hello[c] # Silent /\ hello[c].proto \in {1, 10},
         to \in {"strings", "answer", "reject", "play"} => Decryptable(hello[c]),
         to \in {"answer", "reject", "play"} => StringsRead(hello[c]),
         to = "answer" => hello[c].proto = 1,
         to \in {"reject", "play"} => hello[c].proto = 10,
         to = "reject" => port[c] = "game"
  PROVE  AskedFor(c)' /\ AnsweredFor(c)'
<1>1. /\ hello[c]' = hello[c] /\ port[c]' = port[c] /\ sent[c]' = sent[c] /\ conn[c]' = to
      /\ StringsRead(hello[c])' <=> StringsRead(hello[c])
      /\ Decryptable(hello[c])' <=> Decryptable(hello[c])
  BY HelloKept
<1>2. AskedFor(c)'
  BY <1>1 DEF AskedFor
<1>3. AnsweredFor(c)'
  BY <1>1 DEF AnsweredFor
<1> QED BY <1>2, <1>3

\* A message to a client, after those it was sent before.
LEMMA AskedWrite ==
  ASSUME TypeOK, NEW c \in Conns, AskedFor(c), AnsweredFor(c),
         UNCHANGED <<hello, port>>, conn[c] \in {"answer", "reject", "play"},
         conn'[c] = IF conn[c] = "play" THEN "play" ELSE "closed",
         NEW m \in Payload,
         conn[c] = "answer" => m = LoginAnswer,
         conn[c] = "reject" => m \in {LameDuckText, NoText},
         conn[c] = "play" => m \in Texts,
         \/ sent'[c] = sent[c]
         \/ sent'[c] = Append(sent[c], m)
  PROVE  AskedFor(c)' /\ AnsweredFor(c)'
<1>0. /\ hello[c]' = hello[c] /\ port[c]' = port[c]
      /\ StringsRead(hello[c])' <=> StringsRead(hello[c])
      /\ Decryptable(hello[c])' <=> Decryptable(hello[c])
  BY HelloKept
<1>1. sent[c] \in Seq(Payload)
  BY DEF TypeOK
<1>2. CASE sent'[c] = sent[c]
  <2>1. AskedFor(c)'
    BY <1>0, <1>2 DEF AskedFor
  <2>2. AnsweredFor(c)'
    BY <1>0, <1>2 DEF AnsweredFor
  <2> QED BY <2>1, <2>2
<1>3. CASE sent'[c] = Append(sent[c], m)
  <2>1. /\ Len(sent'[c]) = Len(sent[c]) + 1 /\ Len(sent[c]) \in Nat
        /\ \A i \in 1..Len(sent'[c]) :
             sent'[c][i] = IF i <= Len(sent[c]) THEN sent[c][i] ELSE m
    BY <1>1, <1>3
  <2>2. AskedFor(c)'
    BY <1>0, <2>1 DEF AskedFor
  <2>3. AnsweredFor(c)'
    <3>1. /\ hello[c] # Silent /\ hello[c].proto \in {1, 10} /\ StringsRead(hello[c])
          /\ hello[c].rest = HeaderSize(hello[c].proto) + RSASize
      BY DEF AskedFor, Decryptable
    <3>2. /\ hello[c].rest = RSASize + (IF m = LoginAnswer THEN 16 ELSE 4)
          /\ hello[c].proto = 1 <=> m = LoginAnswer
          /\ m \in {LoginAnswer, LameDuckText, NoText} => conn'[c] = "closed"
      BY <3>1, DifferentAssumption DEF AskedFor, HeaderSize, RSASize
    <3>3. \A i \in 1..Len(sent[c]) :
            /\ sent[c][i] # Greeting => conn[c] = "play" /\ sent[c][i] \in Texts
            /\ sent[c][i] \in Texts => sent[c][i] \notin {LoginAnswer, LameDuckText, NoText}
      BY DifferentAssumption DEF AskedFor
    <3> SUFFICES ASSUME NEW i \in 1..Len(sent'[c]), sent'[c][i] # Greeting
                 PROVE  /\ hello[c] # Silent /\ StringsRead(hello[c])
                        /\ hello[c].rest =
                             RSASize + (IF sent'[c][i] = LoginAnswer THEN 16 ELSE 4)
                        /\ hello[c].proto = 1 <=> sent'[c][i] = LoginAnswer
                        /\ sent'[c][i] \in {LoginAnswer, LameDuckText, NoText} =>
                             i = Len(sent'[c]) /\ conn'[c] = "closed"
      BY <1>0 DEF AnsweredFor
    <3>4. CASE i = Len(sent[c]) + 1
      <4>1. sent'[c][i] = m
        BY <2>1, <3>4
      <4> QED BY <2>1, <3>1, <3>2, <3>4, <4>1
    <3>5. CASE i # Len(sent[c]) + 1
      <4>1. i \in 1..Len(sent[c]) /\ sent'[c][i] = sent[c][i]
        BY <2>1, <3>5
      <4> QED BY <3>3, <4>1 DEF AnsweredFor
    <3> QED BY <3>4, <3>5
  <2> QED BY <2>2, <2>3
<1> QED BY <1>2, <1>3

\* What they were sent stays an answer to what they asked for.
LEMMA AskedStep == TypeOK /\ Asked /\ [Next]_vars => Asked'
<1> SUFFICES ASSUME TypeOK, Asked, [Next]_vars PROVE Asked'
  OBVIOUS
<1>0. /\ Greeting \in Payload /\ LoginAnswer \in Payload /\ LameDuckText \in Payload
      /\ NoText \in Payload /\ Texts \subseteq Payload
  BY PayloadAssumption
<1>1. ASSUME NEW c \in Conns, AskedFor(c)' /\ AnsweredFor(c)', UNCHANGED <<hello, port>>,
             \A d \in Conns \ {c} : conn'[d] = conn[d] /\ sent'[d] = sent[d]
      PROVE  Asked'
  <2>1. ASSUME NEW d \in Conns \ {c} PROVE AskedFor(d)' /\ AnsweredFor(d)'
    BY <1>1, AskedKept DEF Asked
  <2>2. \A d \in Conns : AskedFor(d)' /\ AnsweredFor(d)'
    BY <1>1, <2>1
  <2> QED BY <2>2 DEF Asked
<1>2. ASSUME NEW c \in Conns, NEW from \in At, NEW to \in At, Goes(c, from, to)
      PROVE  conn[c] = from /\ conn'[c] = to /\ \A d \in Conns \ {c} : conn'[d] = conn[d]
  BY <1>2 DEF Goes, TypeOK
<1>3. ASSUME UNCHANGED <<hello, port, conn, sent>> PROVE Asked'
  <2>1. ASSUME NEW d \in Conns PROVE AskedFor(d)' /\ AnsweredFor(d)'
    BY <1>3, AskedKept DEF Asked
  <2> QED BY <2>1 DEF Asked
<1>4. ASSUME NEW c \in Conns, NEW m \in Payload, NEW cells, Writes(c, m, cells)
      PROVE  /\ \A d \in Conns \ {c} : sent'[d] = sent[d]
             /\ sent'[c] = sent[c] \/ sent'[c] = Append(sent[c], m)
             /\ ~ cut[c] => sent'[c] = Append(sent[c], m)
  BY <1>4 DEF Writes, TypeOK
<1>5. CASE Ready
  BY <1>3, <1>5 DEF Ready
<1>6. ASSUME NEW c \in Conns, Accept(c) PROVE Asked'
  <2> DEFINE to == IF port[c] = "game" THEN "greet" ELSE "hello"
  <2>1. to \in At /\ "none" \in At /\ Goes(c, "none", to) /\ UNCHANGED <<hello, port, sent>>
    BY <1>6 DEF Accept, At, clientVars
  <2>2. conn[c] = "none" /\ conn'[c] = to /\ \A d \in Conns \ {c} : conn'[d] = conn[d]
    BY <1>2, <2>1
  <2>3. sent[c] = <<>>
    BY <2>2 DEF Asked, AskedFor
  <2>4. AskedFor(c)' /\ AnsweredFor(c)'
    BY <2>1, <2>2, <2>3, AskedMove DEF Asked
  <2> QED BY <1>1, <2>1, <2>2, <2>4
<1>7. ASSUME NEW c \in Conns, Greet(c) PROVE Asked'
  <2> DEFINE to == IF cut[c] THEN "closed" ELSE "hello"
  <2>1. /\ to \in At /\ "greet" \in At /\ Goes(c, "greet", to) /\ UNCHANGED <<hello, port>>
        /\ Writes(c, Greeting, PrependSize(Plain(Greeting)))
    BY <1>7 DEF Greet, At, clientVars
  <2>2. conn[c] = "greet" /\ conn'[c] = to /\ \A d \in Conns \ {c} : conn'[d] = conn[d]
    BY <1>2, <2>1
  <2>3. /\ \A d \in Conns \ {c} : sent'[d] = sent[d]
        /\ sent'[c] = sent[c] \/ sent'[c] = Append(sent[c], Greeting)
    BY <1>0, <1>4, <2>1
  <2>4. sent[c] = <<>>
    BY <2>2 DEF Asked, AskedFor
  <2>5. /\ Len(sent'[c]) <= 1 /\ \A i \in 1..Len(sent'[c]) : sent'[c][i] = Greeting
    <3>1. sent[c] \in Seq(Payload) /\ Len(sent[c]) = 0
      BY <2>4 DEF TypeOK
    <3>2. CASE sent'[c] = sent[c]
      BY <3>1, <3>2
    <3>3. CASE sent'[c] = Append(sent[c], Greeting)
      <4>1. /\ Len(Append(sent[c], Greeting)) = 1
            /\ \A i \in 1..1 : Append(sent[c], Greeting)[i] = Greeting
        BY <1>0, <3>1
      <4> QED BY <3>3, <4>1
    <3> QED BY <2>3, <3>2, <3>3
  <2>6. AskedFor(c)'
    BY <2>2, <2>5 DEF AskedFor
  <2>7. AnsweredFor(c)'
    BY <2>5 DEF AnsweredFor
  <2> QED BY <1>1, <2>1, <2>2, <2>3, <2>6, <2>7
<1>8. ASSUME NEW c \in Conns,
             ReadHello(c) \/ NoHello(c) \/ ReadHeader(c) \/ ReadStrings(c) \/ Leave(c)
      PROVE  Asked'
  <2>0. UNCHANGED <<hello, port, sent>>
    BY <1>8 DEF ReadHello, NoHello, ReadHeader, ReadStrings, Leave, Closes, clientVars
  <2>1. PICK from \in At, to \in At :
          /\ Goes(c, from, to) /\ from \in {"hello", "header", "strings", "play"}
          /\ \/ to = "closed"
             \/ from = "hello" /\ to = "header" /\ hello[c] # Silent /\ hello[c].proto \in {1, 10}
             \/ from = "header" /\ to = "strings" /\ Decryptable(hello[c])
             \/ /\ from = "strings" /\ StringsRead(hello[c])
                /\ to \in {"answer", "reject", "play"}
                /\ to = "answer" <=> hello[c].proto = 1
                /\ to = "play" => hello[c].proto = 10
                /\ to = "reject" => ~ (hello[c].proto = 10 /\ (port[c] = "game" => ready))
    <3>1. CASE ReadHello(c)
      BY <3>1 DEF ReadHello, At
    <3>2. CASE NoHello(c) \/ Leave(c)
      BY <3>2 DEF NoHello, Leave, Closes, At
    <3>3. CASE ReadHeader(c)
      BY <3>3 DEF ReadHeader, At
    <3>4. CASE ReadStrings(c)
      BY <3>4 DEF ReadStrings, At
    <3> QED BY <1>8, <3>1, <3>2, <3>3, <3>4
  <2>2. conn[c] = from /\ conn'[c] = to /\ \A d \in Conns \ {c} : conn'[d] = conn[d]
    BY <1>2, <2>1
  <2>3. AskedFor(c) /\ AnsweredFor(c)
    BY DEF Asked
  <2>4. CASE to = "closed"
    BY <1>1, <2>0, <2>1, <2>2, <2>3, <2>4, AskedMove
  <2>5. CASE to # "closed"
    <3>1. /\ from \in {"hello", "header", "strings"} /\ to \notin {"none", "greet", "hello"}
          /\ Len(sent[c]) <= 1 /\ \A i \in 1..Len(sent[c]) : sent[c][i] = Greeting
      BY <2>1, <2>2, <2>3, <2>5 DEF AskedFor
    <3>2. /\ hello[c] # Silent /\ hello[c].proto \in {1, 10}
          /\ to \in {"strings", "answer", "reject", "play"} => Decryptable(hello[c])
          /\ to \in {"answer", "reject", "play"} => StringsRead(hello[c])
          /\ to = "answer" => hello[c].proto = 1
          /\ to \in {"reject", "play"} => hello[c].proto = 10
          /\ to = "reject" => port[c] = "game"
      BY <2>1, <2>2, <2>3, <2>5 DEF AskedFor, TypeOK, Ports
    <3>3. AskedFor(c)' /\ AnsweredFor(c)'
      BY <2>0, <2>2, <2>3, <3>1, <3>2, AskedMove
    <3> QED BY <1>1, <2>0, <2>2, <3>3
  <2> QED BY <2>4, <2>5
<1>9. ASSUME NEW c \in Conns, NEW m \in Payload, NEW from \in {"answer", "reject", "play"},
             Goes(c, from, IF from = "play" THEN "play" ELSE "closed"),
             NEW cells, Writes(c, m, cells), UNCHANGED <<hello, port>>,
             from = "answer" => m = LoginAnswer,
             from = "reject" => m \in {LameDuckText, NoText},
             from = "play" => m \in Texts
      PROVE  Asked'
  <2>1. /\ conn[c] = from /\ conn'[c] = (IF from = "play" THEN "play" ELSE "closed")
        /\ \A d \in Conns \ {c} : conn'[d] = conn[d]
    BY <1>2, <1>9 DEF At
  <2>2. /\ \A d \in Conns \ {c} : sent'[d] = sent[d]
        /\ sent'[c] = sent[c] \/ sent'[c] = Append(sent[c], m)
    BY <1>4, <1>9
  <2>3. AskedFor(c)' /\ AnsweredFor(c)'
    BY <1>9, <2>1, <2>2, AskedWrite DEF Asked
  <2> QED BY <1>1, <1>9, <2>1, <2>2, <2>3
<1>10. ASSUME NEW c \in Conns, Answer(c) PROVE Asked'
  BY <1>0, <1>9, <1>10 DEF Answer, clientVars
<1>11. ASSUME NEW c \in Conns, Reject(c) PROVE Asked'
  <2>1. CASE UNCHANGED <<hello, port, conn, sent>>
    BY <1>3, <2>1
  <2>2. CASE ~ UNCHANGED <<hello, port, conn, sent>>
    <3>1. PICK t \in {LameDuckText, NoText} :
            /\ Goes(c, "reject", "closed")
            /\ Writes(c, t, Finalize(Plain(t), key[c]))
            /\ UNCHANGED <<clientVars, cut, got>>
      BY <1>11, <2>2 DEF Reject
    <3> QED BY <1>0, <1>9, <3>1 DEF clientVars
  <2> QED BY <2>1, <2>2
<1>12. ASSUME NEW c \in Conns, NEW t \in Texts, Send(c, t) PROVE Asked'
  BY <1>0, <1>9, <1>12 DEF Send, clientVars
<1>13. ASSUME NEW c \in Conns, Lose(c) \/ Read(c) PROVE Asked'
  BY <1>3, <1>13 DEF Lose, Read, clientVars
<1>14. CASE UNCHANGED vars
  BY <1>3, <1>14 DEF vars
<1> QED
  BY <1>5, <1>6, <1>7, <1>8, <1>10, <1>11, <1>12, <1>13, <1>14 DEF Next, Server

-----------------------------------------------------------------------------
(* What is on a connection with port p and key k, to which x was sent: y has *)
(* been read and w is still to be, and it may have been lost.              *)

FrameAt(p, k, x, i) == Frame(p = "game" /\ i = 1, k, x[i])

\* Where each message begins, counted from the first one.
Placed(p, k, x, start) ==
  /\ start \in [1..Len(x) + 1 -> Nat]
  /\ \A i \in 1..Len(x) : start[i + 1] = start[i] + Len(FrameAt(p, k, x, i))
  /\ \A i, j \in 1..Len(x) + 1 : i <= j => start[i] <= start[j]

\* What was read is what was sent first, and what is on the connection is all
\* that was sent after it, or the beginning.
Streams(p, k, x, w, y, lost, start) ==
  /\ Len(y) <= Len(x)
  /\ \A i \in 1..Len(y) : y[i] = Plain(x[i])
  /\ \A i \in Len(y) + 1..Len(x) : \A j \in 1..Len(FrameAt(p, k, x, i)) :
       start[i] - start[Len(y) + 1] + j <= Len(w) =>
         w[start[i] - start[Len(y) + 1] + j] = FrameAt(p, k, x, i)[j]
  /\ Len(w) <= start[Len(x) + 1] - start[Len(y) + 1]
  /\ ~ lost => Len(w) = start[Len(x) + 1] - start[Len(y) + 1]

\* A message at the end that was cut off.
Ends(x, w, y, lost) ==
  /\ lost /\ w = <<>> /\ Len(y) \in 1..Len(x)
  /\ \A i \in 1..Len(y) - 1 : y[i] = Plain(x[i])
  /\ Cut(y[Len(y)], x[Len(y)])

Streamed(p, k, x, w, y, lost) ==
  \/ Ends(x, w, y, lost)
  \/ \E start : Placed(p, k, x, start) /\ Streams(p, k, x, w, y, lost, start)

\* A message is written after those that were written before.
LEMMA StreamWrite ==
  ASSUME NEW p, NEW k \in Keys, NEW x \in Seq(Payload), NEW w \in Seq(Cell),
         NEW S, NEW y \in Seq(S), NEW m \in Payload,
         Streamed(p, k, x, w, y, FALSE)
  PROVE  Streamed(p, k, Append(x, m), w \o Frame(p = "game" /\ x = <<>>, k, m), y, FALSE)
<1> DEFINE n == Len(x)
           g == Len(y)
           z == Append(x, m)
           f == Frame(p = "game" /\ x = <<>>, k, m)
           v == w \o f
<1>1. PICK start : Placed(p, k, x, start) /\ Streams(p, k, x, w, y, FALSE, start)
  BY DEF Streamed, Ends
<1> DEFINE later == [i \in 1..n + 2 |-> IF i = n + 2 THEN start[n + 1] + Len(f) ELSE start[i]]
<1>2. n \in Nat /\ g \in Nat /\ Len(w) \in Nat
  OBVIOUS
<1>3. f \in Seq(Cell) /\ Len(f) \in Nat
  BY FrameIs
<1>4. z \in Seq(Payload) /\ Len(z) = n + 1 /\ z[n + 1] = m /\ \A i \in 1..n : z[i] = x[i]
  OBVIOUS
<1>5. /\ FrameAt(p, k, z, n + 1) = f
      /\ \A i \in 1..n : FrameAt(p, k, z, i) = FrameAt(p, k, x, i)
  <2>1. x = <<>> <=> n = 0
    OBVIOUS
  <2>2. (p = "game" /\ x = <<>>) = (p = "game" /\ n + 1 = 1)
    BY <1>2, <2>1
  <2> QED BY <1>4, <2>2 DEF FrameAt
<1>6. /\ v \in Seq(Cell) /\ Len(v) = Len(w) + Len(f)
      /\ \A i \in 1..Len(w) : v[i] = w[i]
      /\ \A i \in 1..Len(f) : v[Len(w) + i] = f[i]
  BY <1>3, ConcatProperties
<1>7. /\ start \in [1..n + 1 -> Nat]
      /\ \A i \in 1..n : start[i + 1] = start[i] + Len(FrameAt(p, k, x, i))
      /\ \A i, j \in 1..n + 1 : i <= j => start[i] <= start[j]
  BY <1>1 DEF Placed
<1>8. /\ g <= n
      /\ \A i \in 1..g : y[i] = Plain(x[i])
      /\ \A i \in g + 1..n : \A j \in 1..Len(FrameAt(p, k, x, i)) :
           start[i] - start[g + 1] + j <= Len(w) =>
             w[start[i] - start[g + 1] + j] = FrameAt(p, k, x, i)[j]
      /\ Len(w) = start[n + 1] - start[g + 1]
  BY <1>1 DEF Streams
<1> HIDE DEF n, g, z, f, v
<1>9. /\ later \in [1..n + 2 -> Nat] /\ later[n + 2] = start[n + 1] + Len(f)
      /\ \A i \in 1..n + 1 : later[i] = start[i]
  BY <1>2, <1>3, <1>7
<1> HIDE DEF later
<1>10. Placed(p, k, z, later)
  <2>1. \A i \in 1..n + 1 : later[i + 1] = later[i] + Len(FrameAt(p, k, z, i))
    <3> SUFFICES ASSUME NEW i \in 1..n + 1
                 PROVE  later[i + 1] = later[i] + Len(FrameAt(p, k, z, i))
      OBVIOUS
    <3>1. CASE i = n + 1
      BY <1>2, <1>5, <1>9, <3>1
    <3>2. CASE i # n + 1
      <4>1. i \in 1..n /\ i + 1 \in 1..n + 1
        BY <1>2, <3>2
      <4> QED BY <1>5, <1>7, <1>9, <4>1
    <3> QED BY <3>1, <3>2
  <2>2. \A i, j \in 1..n + 2 : i <= j => later[i] <= later[j]
    <3> SUFFICES ASSUME NEW i \in 1..n + 2, NEW j \in 1..n + 2, i <= j
                 PROVE  later[i] <= later[j]
      OBVIOUS
    <3>1. CASE j # n + 2
      <4>1. i \in 1..n + 1 /\ j \in 1..n + 1
        BY <1>2, <3>1
      <4> QED BY <1>7, <1>9, <4>1
    <3>2. CASE j = n + 2 /\ i # n + 2
      <4>1. i \in 1..n + 1 /\ n + 1 \in 1..n + 1 /\ i <= n + 1
        BY <1>2, <3>2
      <4>2. start[i] <= start[n + 1] /\ start[i] \in Nat /\ start[n + 1] \in Nat
        BY <1>7, <4>1
      <4>3. later[i] = start[i] /\ later[j] = start[n + 1] + Len(f)
        BY <1>9, <3>2, <4>1
      <4> QED BY <1>3, <4>2, <4>3
    <3>3. CASE i = n + 2 /\ j = n + 2
      BY <1>9, <3>3
    <3> QED BY <3>1, <3>2, <3>3
  <2>3. Len(z) + 1 = n + 2
    BY <1>2, <1>4
  <2> QED BY <1>4, <1>9, <2>1, <2>2, <2>3 DEF Placed
<1>11. Streams(p, k, z, v, y, FALSE, later)
  <2>1. later[g + 1] = start[g + 1] /\ start[g + 1] \in Nat /\ start[n + 1] \in Nat
    <3>1. g + 1 \in 1..n + 1 /\ n + 1 \in 1..n + 1
      BY <1>2, <1>8
    <3> QED BY <1>7, <1>9, <3>1
  <2>2. \A i \in 1..g : y[i] = Plain(z[i])
    BY <1>2, <1>4, <1>8
  <2>3. Len(v) = later[n + 2] - later[g + 1]
    BY <1>3, <1>6, <1>8, <1>9, <2>1
  <2>4. ASSUME NEW i \in g + 1..n + 1, NEW j \in 1..Len(FrameAt(p, k, z, i)),
               later[i] - later[g + 1] + j <= Len(v)
        PROVE  v[later[i] - later[g + 1] + j] = FrameAt(p, k, z, i)[j]
    <3>1. CASE i = n + 1
      <4>1. later[i] - later[g + 1] = Len(w) /\ FrameAt(p, k, z, i) = f
        BY <1>2, <1>5, <1>8, <1>9, <2>1, <3>1
      <4> QED BY <1>6, <4>1
    <3>2. CASE i # n + 1
      <4>1. i \in g + 1..n /\ i \in 1..n /\ i + 1 \in 1..n + 1 /\ g + 1 \in 1..n + 1
            /\ i \in 1..n + 1 /\ g + 1 <= i /\ i + 1 <= n + 1
        BY <1>2, <1>8, <3>2
      <4>2. later[i] = start[i] /\ FrameAt(p, k, z, i) = FrameAt(p, k, x, i)
        BY <1>5, <1>9, <4>1
      <4> DEFINE l == Len(FrameAt(p, k, x, i))
                 a == start[i]
                 b == start[g + 1]
      <4>3. /\ a \in Nat /\ b \in Nat /\ b <= a /\ start[i + 1] = a + l
            /\ start[i + 1] <= start[n + 1]
        BY <1>2, <1>7, <4>1
      <4>4. j \in 1..l
        BY <4>2
      <4>5. l \in Nat
        <5>1. x[i] \in Payload /\ (p = "game" /\ i = 1) \in BOOLEAN
          BY <4>1, ElementOfSeq DEF n
        <5> QED BY <5>1, FrameIs DEF FrameAt
      <4> HIDE DEF l, a, b
      <4>6. a - b + j \in 1..Len(w)
        <5> DEFINE e == start[n + 1]
        <5>1. Len(w) = e - b /\ e \in Nat /\ a + l <= e
          BY <1>8, <2>1, <4>3 DEF b
        <5>2. j \in Nat /\ 1 <= j /\ j <= l
          BY <4>4, <4>5
        <5>3. a \in Nat /\ b \in Nat /\ b <= a
          BY <4>3
        <5> HIDE DEF e
        <5> QED BY ONLY <4>5, <5>1, <5>2, <5>3
      <4>7. w[a - b + j] = FrameAt(p, k, x, i)[j]
        BY <1>8, <4>1, <4>4, <4>6 DEF a, b, l
      <4>8. later[i] - later[g + 1] + j = a - b + j
        BY <2>1, <4>2 DEF a, b
      <4> QED BY <1>6, <4>2, <4>6, <4>7, <4>8
    <3> QED BY <3>1, <3>2
  <2>5. g <= Len(z) /\ Len(z) + 1 = n + 2 /\ Len(z) = n + 1
    BY <1>2, <1>4, <1>8
  <2>6. Len(v) <= later[n + 2] - later[g + 1]
    BY <1>3, <1>6, <2>3
  <2>7. \A i \in g + 1..Len(z) : \A j \in 1..Len(FrameAt(p, k, z, i)) :
          later[i] - later[g + 1] + j <= Len(v) =>
            v[later[i] - later[g + 1] + j] = FrameAt(p, k, z, i)[j]
    BY <2>4, <2>5
  <2> QED BY <2>2, <2>3, <2>5, <2>6, <2>7 DEF Streams, g
<1> QED BY <1>10, <1>11 DEF Streamed, z, v, f

\* The end of what was written is lost.
LEMMA StreamLose ==
  ASSUME NEW p, NEW k \in Keys, NEW x \in Seq(Payload), NEW w \in Seq(Cell),
         NEW S, NEW y \in Seq(S), NEW q \in 0..Len(w),
         Streamed(p, k, x, w, y, FALSE)
  PROVE  Streamed(p, k, x, SubSeq(w, 1, q), y, TRUE)
<1> DEFINE v == SubSeq(w, 1, q)
<1>1. PICK start : Placed(p, k, x, start) /\ Streams(p, k, x, w, y, FALSE, start)
  BY DEF Streamed, Ends
<1>2. Len(v) = q /\ Len(w) \in Nat /\ q \in Nat /\ q <= Len(w) /\ \A i \in 1..q : v[i] = w[i]
  BY LenProperties, PartOf
<1> HIDE DEF v
<1>3. /\ Len(y) <= Len(x) /\ Len(y) \in Nat /\ Len(x) \in Nat
      /\ start \in [1..Len(x) + 1 -> Nat]
      /\ Len(w) <= start[Len(x) + 1] - start[Len(y) + 1]
      /\ \A i \in 1..Len(x) + 1 : Len(y) + 1 <= i => start[Len(y) + 1] <= start[i]
  <2>1. Len(y) \in Nat /\ Len(x) \in Nat
    OBVIOUS
  <2>2. /\ start \in [1..Len(x) + 1 -> Nat]
        /\ \A i, j \in 1..Len(x) + 1 : i <= j => start[i] <= start[j]
    BY <1>1 DEF Placed
  <2>3. Len(y) <= Len(x) /\ Len(w) <= start[Len(x) + 1] - start[Len(y) + 1]
    BY <1>1 DEF Streams
  <2>4. Len(y) + 1 \in 1..Len(x) + 1
    BY <2>1, <2>3
  <2> QED BY <2>1, <2>2, <2>3, <2>4
<1>4. Len(v) <= start[Len(x) + 1] - start[Len(y) + 1]
  <2> DEFINE e == start[Len(x) + 1] - start[Len(y) + 1]
  <2>1. start[Len(x) + 1] \in Nat /\ start[Len(y) + 1] \in Nat
    <3>1. Len(x) + 1 \in 1..Len(x) + 1 /\ Len(y) + 1 \in 1..Len(x) + 1
      BY <1>3
    <3> QED BY <1>3, <3>1
  <2>2. e \in Int /\ Len(w) <= e
    BY <1>3, <2>1
  <2> HIDE DEF e
  <2>3. Len(v) <= e
    BY ONLY <1>2, <2>2
  <2> QED BY <2>3 DEF e
<1>5. ASSUME NEW i \in Len(y) + 1..Len(x), NEW j \in 1..Len(FrameAt(p, k, x, i)),
             start[i] - start[Len(y) + 1] + j <= Len(v)
      PROVE  v[start[i] - start[Len(y) + 1] + j] = FrameAt(p, k, x, i)[j]
  <2> DEFINE a == start[i]
             b == start[Len(y) + 1]
  <2>1. a \in Nat /\ b \in Nat /\ b <= a
    <3>1. i \in 1..Len(x) + 1 /\ Len(y) + 1 \in 1..Len(x) + 1 /\ Len(y) + 1 <= i
      BY <1>3
    <3> QED BY <1>3, <3>1
  <2>2. a - b + j <= Len(w) => w[a - b + j] = FrameAt(p, k, x, i)[j]
    <3>1. \A e \in Len(y) + 1..Len(x) : \A o \in 1..Len(FrameAt(p, k, x, e)) :
            start[e] - start[Len(y) + 1] + o <= Len(w) =>
              w[start[e] - start[Len(y) + 1] + o] = FrameAt(p, k, x, e)[o]
      BY <1>1 DEF Streams
    <3> QED BY <3>1
  <2>3. a - b + j <= q /\ j \in Nat \ {0}
    BY <1>2, <1>5
  <2> HIDE DEF a, b
  <2>4. a - b + j \in 1..q /\ a - b + j <= Len(w)
    BY <1>2, <2>1, <2>3
  <2>5. v[a - b + j] = FrameAt(p, k, x, i)[j]
    BY <1>2, <2>2, <2>4
  <2> QED BY <2>5 DEF a, b
<1>6. Streams(p, k, x, v, y, TRUE, start)
  BY <1>1, <1>4, <1>5 DEF Streams
<1> QED BY <1>1, <1>6 DEF Streamed, v

\* What is read is the next message, or what has come of it before the connection
\* was lost.
LEMMA StreamRead ==
  ASSUME NEW p, NEW k \in Keys, NEW x \in Seq(Payload), NEW w \in Seq(Cell),
         NEW S, NEW y \in Seq(S), NEW lost \in BOOLEAN, HasSize(w),
         \A i \in 1..Len(x) : Fits(Plain(x[i])),
         Streamed(p, k, x, w, y, lost)
  PROVE  /\ Known(w)
         /\ Streamed(p, k, x, After(w), Append(y, Opening(p = "game" /\ y = <<>>, k, w)), lost)
<1> DEFINE n == Len(x)
           g == Len(y)
           r == Opening(p = "game" /\ y = <<>>, k, w)
           z == Append(y, r)
           h == (p = "game" /\ g + 1 = 1)
           t == x[g + 1]
           f == Frame(h, k, t)
           v == After(w)
<1>0. n \in Nat /\ g \in Nat /\ Len(w) \in Nat /\ 2 <= Len(w)
  BY DEF HasSize
<1>1. PICK start : Placed(p, k, x, start) /\ Streams(p, k, x, w, y, lost, start)
  <2>1. w # <<>>
    BY <1>0
  <2> QED BY <2>1 DEF Streamed, Ends
<1>2. /\ start \in [1..n + 1 -> Nat]
      /\ \A i \in 1..n : start[i + 1] = start[i] + Len(FrameAt(p, k, x, i))
      /\ \A i, j \in 1..n + 1 : i <= j => start[i] <= start[j]
  BY <1>1 DEF Placed
<1>3. /\ g <= n
      /\ \A i \in 1..g : y[i] = Plain(x[i])
      /\ \A i \in g + 1..n : \A j \in 1..Len(FrameAt(p, k, x, i)) :
           start[i] - start[g + 1] + j <= Len(w) =>
             w[start[i] - start[g + 1] + j] = FrameAt(p, k, x, i)[j]
      /\ Len(w) <= start[n + 1] - start[g + 1]
      /\ ~ lost => Len(w) = start[n + 1] - start[g + 1]
  BY <1>1 DEF Streams
<1>4. g + 1 \in 1..n + 1 /\ n + 1 \in 1..n + 1
  BY <1>0, <1>3
<1>5. start[g + 1] \in Nat /\ start[n + 1] \in Nat
  BY <1>2, <1>4
<1>6. g + 1 \in 1..n
  <2>1. g # n
    BY <1>0, <1>3, <1>5
  <2> QED BY <1>0, <1>3, <2>1
<1>7. t \in Payload /\ Fits(Plain(t)) /\ h \in BOOLEAN
  BY <1>6, ElementOfSeq
<1>8. /\ h = (p = "game" /\ y = <<>>) /\ r = Opening(h, k, w) /\ FrameAt(p, k, x, g + 1) = f
  <2>1. g + 1 = 1 <=> y = <<>>
    OBVIOUS
  <2>2. h = (p = "game" /\ y = <<>>)
    BY <2>1
  <2> QED BY <2>2 DEF FrameAt
<1>9. f \in Seq(Cell) /\ Len(f) \in Nat
  BY <1>7, FrameIs
<1>10. z \in Seq(S \cup {r}) /\ Len(z) = g + 1 /\ z[g + 1] = r /\ \A i \in 1..g : z[i] = y[i]
  <2>1. y \in Seq(S \cup {r})
    BY SeqMonotonic
  <2> HIDE DEF r
  <2> QED BY <2>1
<1> HIDE DEF n, g, r, z, h, t, f
<1>11. \A j \in 1..Len(f) : j <= Len(w) => w[j] = f[j]
  <2> SUFFICES ASSUME NEW j \in 1..Len(f), j <= Len(w) PROVE w[j] = f[j]
    OBVIOUS
  <2>1. start[g + 1] - start[g + 1] + j = j
    BY <1>5, <1>9
  <2>2. g + 1 \in g + 1..n
    BY <1>0, <1>6
  <2> QED BY <1>3, <1>8, <2>1, <2>2
<1>12. /\ Known(w) /\ 2 + Announced(w) = Len(f)
       /\ Cut(r, t)
       /\ Len(f) <= Len(w) => r = Plain(t)
  BY <1>7, <1>8, <1>11, ReadIs DEF f
<1>13. /\ Announced(w) \in Nat /\ v \in Seq(Cell)
       /\ Len(v) = IF 3 + Announced(w) <= Len(w) THEN Len(w) - 2 - Announced(w) ELSE 0
       /\ \A i \in 1..Len(w) - 2 - Announced(w) : v[i] = w[2 + Announced(w) + i]
  BY <1>12, AfterIs
<1>14. /\ Len(v) = IF Len(f) <= Len(w) THEN Len(w) - Len(f) ELSE 0
       /\ \A i \in 1..Len(w) - Len(f) : v[i] = w[Len(f) + i]
  <2>1. Len(w) - 2 - Announced(w) = Len(w) - Len(f) /\ 3 + Announced(w) = Len(f) + 1
    <3>1. 2 + Announced(w) = Len(f) /\ Announced(w) \in Nat
      BY <1>12, <1>13
    <3> QED BY ONLY <1>0, <1>9, <3>1
  <2>2. \A i \in 1..Len(w) - Len(f) : v[i] = w[Len(f) + i]
    BY <1>12, <1>13, <2>1
  <2> QED BY <1>0, <1>9, <1>13, <2>1, <2>2
<1> HIDE DEF v
<1>15. start[g + 2] = start[g + 1] + Len(f) /\ g + 2 \in 1..n + 1 /\ g + 1 + 1 = g + 2
       /\ start[g + 2] <= start[n + 1]
  BY <1>0, <1>2, <1>4, <1>6, <1>8
<1>16. CASE Len(f) <= Len(w)
  <2>1. \A i \in 1..g + 1 : z[i] = Plain(x[i])
    BY <1>0, <1>3, <1>10, <1>12, <1>16 DEF t
  <2>2. Len(v) = Len(w) - Len(f)
    BY <1>14, <1>16
  <2>3. /\ Len(w) <= start[n + 1] - start[g + 1]
        /\ ~ lost => Len(w) = start[n + 1] - start[g + 1]
        /\ start[g + 2] = start[g + 1] + Len(f)
    BY <1>3, <1>15
  <2> DEFINE b == start[g + 1]
             e == start[n + 1]
             u == Len(w)
             l == Len(f)
  <2> HIDE DEF b, e, u, l
  <2>4. Len(v) <= start[n + 1] - start[g + 2]
    <3>1. b \in Nat /\ e \in Nat /\ u \in Nat /\ l \in Nat
      BY <1>0, <1>5, <1>9 DEF b, e, u, l
    <3>2. Len(v) = u - l /\ start[g + 2] = b + l /\ u <= e - b
      BY <2>2, <2>3 DEF b, e, u, l
    <3>3. Len(v) <= e - start[g + 2]
      BY ONLY <3>1, <3>2
    <3> QED BY <3>3 DEF e
  <2>5. ~ lost => Len(v) = start[n + 1] - start[g + 2]
    <3> SUFFICES ASSUME ~ lost PROVE Len(v) = start[n + 1] - start[g + 2]
      OBVIOUS
    <3>1. b \in Nat /\ e \in Nat /\ u \in Nat /\ l \in Nat
      BY <1>0, <1>5, <1>9 DEF b, e, u, l
    <3>2. Len(v) = u - l /\ start[g + 2] = b + l /\ u = e - b
      BY <2>2, <2>3 DEF b, e, u, l
    <3>3. Len(v) = e - start[g + 2]
      BY ONLY <3>1, <3>2
    <3> QED BY <3>3 DEF e
  <2>6. ASSUME NEW i \in g + 2..n, NEW j \in 1..Len(FrameAt(p, k, x, i)),
               start[i] - start[g + 2] + j <= Len(v)
        PROVE  v[start[i] - start[g + 2] + j] = FrameAt(p, k, x, i)[j]
    <3> USE DEF b, l
    <3> DEFINE a == start[i]
    <3>1. i \in g + 1..n /\ i \in 1..n + 1 /\ g + 2 <= i /\ j \in Nat \ {0}
      BY <1>0
    <3>2. a \in Nat /\ b \in Nat /\ b + l <= a /\ l \in Nat
      BY <1>2, <1>5, <1>9, <1>15, <3>1
    <3>3. a - b + j <= Len(w) => w[a - b + j] = FrameAt(p, k, x, i)[j]
      BY <1>3, <3>1
    <3>4. start[g + 2] = b + l /\ Len(v) = Len(w) - l
      BY <1>15, <2>2
    <3>5. a - (b + l) + j <= Len(v)
      BY <2>6, <3>4
    <3>6. \A q \in 1..Len(w) - l : v[q] = w[l + q]
      BY <1>14
    <3> HIDE DEF a, b, l
    <3>7. a - (b + l) + j \in 1..Len(w) - l /\ l + (a - (b + l) + j) = a - b + j
          /\ a - b + j <= Len(w)
      BY <1>0, <3>1, <3>2, <3>4, <3>5
    <3>8. v[a - (b + l) + j] = FrameAt(p, k, x, i)[j]
      BY <3>3, <3>6, <3>7
    <3> QED BY <3>4, <3>8 DEF a
  <2>7. Len(z) <= n /\ Len(z) + 1 = g + 2
    BY <1>0, <1>6, <1>10
  <2>8. Streams(p, k, x, v, z, lost, start)
    BY <1>10, <2>1, <2>4, <2>5, <2>6, <2>7 DEF Streams, n
  <2> QED BY <1>1, <1>12, <2>8 DEF Streamed, v, z, r
<1>17. CASE Len(w) < Len(f)
  <2>1. lost
    BY <1>0, <1>3, <1>5, <1>9, <1>15, <1>17
  <2>2. v = <<>>
    <3>1. Len(v) = 0
      BY <1>0, <1>9, <1>14, <1>17
    <3> QED BY <1>13, <3>1, EmptySeq
  <2>3. Len(z) \in 1..n /\ Len(z) - 1 = g
    BY <1>0, <1>6, <1>10
  <2>4. \A i \in 1..Len(z) - 1 : z[i] = Plain(x[i])
    BY <1>3, <1>10, <2>3
  <2>5. Cut(z[Len(z)], x[Len(z)])
    BY <1>10, <1>12 DEF t
  <2>6. Ends(x, v, z, lost)
    BY <2>1, <2>2, <2>3, <2>4, <2>5 DEF Ends, n
  <2> QED BY <1>12, <2>6 DEF Streamed, v, z, r
<1> QED BY <1>0, <1>9, <1>16, <1>17

-----------------------------------------------------------------------------
(* All of it.                                                              *)

\* The greeting comes first on the game port, and there only; and what fits its
\* size is read as it was sent.
FlowsFor(c) ==
  /\ conn[c] = "greet" => port[c] = "game"
  /\ port[c] = "game" /\ conn[c] \in {"hello", "header", "strings", "answer", "reject", "play"} =>
       sent[c] # <<>>
  /\ (\A i \in 1..Len(sent[c]) : Fits(Plain(sent[c][i]))) =>
       Streamed(port[c], key[c], sent[c], wire[c], got[c], cut[c])

Flows == \A c \in Conns : FlowsFor(c)

LEMMA FlowsKept ==
  ASSUME NEW c \in Conns, FlowsFor(c), UNCHANGED <<port, key>>, conn'[c] = conn[c],
         sent'[c] = sent[c], wire'[c] = wire[c], got'[c] = got[c], cut'[c] = cut[c]
  PROVE  FlowsFor(c)'
BY DEF FlowsFor

\* A connection moves on, and nothing is written.
LEMMA FlowsMove ==
  ASSUME NEW c \in Conns, FlowsFor(c), UNCHANGED <<port, key>>,
         conn'[c] = "greet" => port[c] = "game",
         port[c] = "game" /\ conn'[c] \in {"hello", "header", "strings", "answer", "reject", "play"}
           => sent[c] # <<>>,
         sent'[c] = sent[c], wire'[c] = wire[c], got'[c] = got[c], cut'[c] = cut[c]
  PROVE  FlowsFor(c)'
BY DEF FlowsFor

\* A connection moves on, and a message is written.
LEMMA FlowsWrite ==
  ASSUME TypeOK, Carried, NEW c \in Conns, FlowsFor(c), UNCHANGED <<port, key, got, cut>>,
         NEW m \in Payload, ~ cut[c],
         conn'[c] # "greet",
         sent'[c] = Append(sent[c], m),
         wire'[c] = wire[c] \o Frame(port[c] = "game" /\ sent[c] = <<>>, key[c], m)
  PROVE  FlowsFor(c)'
<1> DEFINE x == sent[c]
           w == wire[c]
           p == port[c]
           k == key[c]
           f == Frame(p = "game" /\ x = <<>>, k, m)
<1>1. /\ x \in Seq(Payload) /\ Len(x) \in Nat /\ Append(x, m) # <<>>
      /\ Len(Append(x, m)) = Len(x) + 1
      /\ \A i \in 1..Len(x) : Append(x, m)[i] = x[i]
  <2>1. x \in Seq(Payload)
    BY DEF TypeOK
  <2> HIDE DEF x
  <2>2. /\ Append(x, m) \in Seq(Payload) /\ Len(x) \in Nat
        /\ Len(Append(x, m)) = Len(x) + 1
        /\ \A i \in 1..Len(x) : Append(x, m)[i] = x[i]
    BY <2>1
  <2>3. Append(x, m) # <<>>
    <3>1. Len(Append(x, m)) # 0
      BY <2>2
    <3> QED BY <3>1
  <2> QED BY <2>1, <2>2, <2>3
<1>2. PICK S : got[c] \in Seq(S)
  BY DEF Carried
<1>3. w \in Seq(Cell) /\ k \in Keys
  BY DEF Carried, TypeOK
<1>4. ASSUME \A i \in 1..Len(Append(x, m)) : Fits(Plain(Append(x, m)[i]))
      PROVE  Streamed(p, k, Append(x, m), w \o f, got[c], FALSE)
  <2>1. \A i \in 1..Len(x) : Fits(Plain(x[i]))
    BY <1>1, <1>4
  <2>2. Streamed(p, k, x, w, got[c], cut[c])
    BY <2>1 DEF FlowsFor
  <2>3. cut[c] = FALSE
    BY DEF TypeOK
  <2>4. Streamed(p, k, x, w, got[c], FALSE)
    BY <2>2, <2>3
  <2> QED BY <1>1, <1>2, <1>3, <2>4, StreamWrite
<1>5. cut'[c] = FALSE /\ got'[c] = got[c] /\ key'[c] = k /\ port'[c] = p
  BY DEF TypeOK
<1>6. sent'[c] = Append(x, m) /\ wire'[c] = w \o f
  OBVIOUS
<1> HIDE DEF x, w, p, k, f
<1>7. (\A i \in 1..Len(sent'[c]) : Fits(Plain(sent'[c][i]))) =>
        Streamed(port'[c], key'[c], sent'[c], wire'[c], got'[c], cut'[c])
  BY <1>4, <1>5, <1>6
<1>8. sent'[c] # <<>>
  BY <1>1, <1>6
<1> QED BY <1>7, <1>8 DEF FlowsFor

LEMMA FlowsStep == TypeOK /\ Carried /\ Asked /\ Flows /\ [Next]_vars => Flows'
<1> SUFFICES ASSUME TypeOK, Carried, Asked, Flows, [Next]_vars PROVE Flows'
  OBVIOUS
<1>0. /\ Greeting \in Payload /\ LoginAnswer \in Payload /\ LameDuckText \in Payload
      /\ NoText \in Payload /\ Texts \subseteq Payload
  BY PayloadAssumption
<1>1. ASSUME NEW c \in Conns, FlowsFor(c)', UNCHANGED <<port, key>>,
             \A d \in Conns \ {c} : /\ conn'[d] = conn[d] /\ sent'[d] = sent[d]
                                    /\ wire'[d] = wire[d] /\ got'[d] = got[d] /\ cut'[d] = cut[d]
      PROVE  Flows'
  <2>1. ASSUME NEW d \in Conns \ {c} PROVE FlowsFor(d)'
    BY <1>1, FlowsKept DEF Flows
  <2>2. \A d \in Conns : FlowsFor(d)'
    BY <1>1, <2>1
  <2> QED BY <2>2 DEF Flows
<1>2. ASSUME NEW c \in Conns, NEW from \in At, NEW to \in At, Goes(c, from, to)
      PROVE  conn[c] = from /\ conn'[c] = to /\ \A d \in Conns \ {c} : conn'[d] = conn[d]
  BY <1>2 DEF Goes, TypeOK
<1>3. ASSUME UNCHANGED <<port, key, conn, sent, wire, got, cut>> PROVE Flows'
  <2>1. ASSUME NEW d \in Conns PROVE FlowsFor(d)'
    BY <1>3, FlowsKept DEF Flows
  <2> QED BY <2>1 DEF Flows
<1>4. ASSUME NEW c \in Conns, NEW from \in At, NEW to \in At, Goes(c, from, to),
             UNCHANGED <<port, key, sent, wire, got, cut>>,
             to = "greet" => port[c] = "game",
             port[c] = "game" /\ to \in {"hello", "header", "strings", "answer", "reject", "play"} =>
               from \in {"hello", "header", "strings", "answer", "reject", "play"}
      PROVE  Flows'
  <2>1. conn[c] = from /\ conn'[c] = to /\ \A d \in Conns \ {c} : conn'[d] = conn[d]
    BY <1>2, <1>4
  <2>2. FlowsFor(c)
    BY DEF Flows
  <2>3. port[c] = "game" /\ to \in {"hello", "header", "strings", "answer", "reject", "play"} =>
          sent[c] # <<>>
    BY <1>4, <2>1, <2>2 DEF FlowsFor
  <2>4. FlowsFor(c)'
    BY <1>4, <2>1, <2>2, <2>3, FlowsMove
  <2> QED BY <1>1, <1>4, <2>1, <2>4
<1>5. ASSUME NEW c \in Conns, NEW m \in Payload, NEW from \in At, NEW to \in At \ {"greet"},
             Goes(c, from, to), from \in {"greet", "answer", "reject", "play"},
             Writes(c, m, Frame(port[c] = "game" /\ sent[c] = <<>>, key[c], m)),
             cut[c] => to = "closed" \/ to = from, UNCHANGED <<port, key, got, cut>>
      PROVE  Flows'
  <2>1. conn[c] = from /\ conn'[c] = to /\ \A d \in Conns \ {c} : conn'[d] = conn[d]
    BY <1>2, <1>5
  <2>2. CASE cut[c]
    <3>1. UNCHANGED <<wire, sent>>
      BY <1>5, <2>2 DEF Writes
    <3> QED BY <1>4, <1>5, <2>2, <3>1
  <2>3. CASE ~ cut[c]
    <3> DEFINE f == Frame(port[c] = "game" /\ sent[c] = <<>>, key[c], m)
    <3> HIDE DEF f
    <3>1. /\ wire' = [wire EXCEPT ![c] = wire[c] \o f]
          /\ sent' = [sent EXCEPT ![c] = Append(sent[c], m)]
      BY <1>5, <2>3 DEF Writes, f
    <3>2. /\ wire'[c] = wire[c] \o f /\ sent'[c] = Append(sent[c], m)
          /\ \A d \in Conns \ {c} : wire'[d] = wire[d] /\ sent'[d] = sent[d]
      BY <3>1 DEF TypeOK, Carried
    <3>3. FlowsFor(c)'
      BY <1>5, <2>1, <2>3, <3>2, FlowsWrite DEF Flows, f
    <3> QED BY <1>1, <1>5, <2>1, <3>2, <3>3
  <2> QED BY <2>2, <2>3
<1>6. ASSUME NEW c \in Conns, NEW m \in Payload, conn[c] \in {"answer", "reject", "play"},
             Writes(c, m, Finalize(Plain(m), key[c]))
      PROVE  Writes(c, m, Frame(port[c] = "game" /\ sent[c] = <<>>, key[c], m))
  <2>1. ~ (port[c] = "game" /\ sent[c] = <<>>)
    BY <1>6 DEF Flows, FlowsFor
  <2>2. Frame(port[c] = "game" /\ sent[c] = <<>>, key[c], m) = Finalize(Plain(m), key[c])
    BY <2>1 DEF Frame
  <2> QED BY <1>6, <2>2
<1>7. CASE Ready
  BY <1>3, <1>7 DEF Ready
<1>8. ASSUME NEW c \in Conns, Accept(c) PROVE Flows'
  BY <1>4, <1>8 DEF Accept, clientVars, At
<1>9. ASSUME NEW c \in Conns, Greet(c) PROVE Flows'
  <2>1. Goes(c, "greet", IF cut[c] THEN "closed" ELSE "hello")
    BY <1>9 DEF Greet
  <2>2. conn[c] = "greet"
    BY <2>1 DEF Goes
  <2>3. port[c] = "game" /\ sent[c] = <<>>
    BY <2>2 DEF Flows, FlowsFor, Asked, AskedFor
  <2>4. Frame(port[c] = "game" /\ sent[c] = <<>>, key[c], Greeting) = PrependSize(Plain(Greeting))
    BY <2>3 DEF Frame
  <2>5. Writes(c, Greeting, Frame(port[c] = "game" /\ sent[c] = <<>>, key[c], Greeting))
    BY <1>9, <2>4 DEF Greet
  <2> QED BY <1>0, <1>5, <1>9, <2>1, <2>5 DEF Greet, clientVars, At
<1>10. ASSUME NEW c \in Conns,
             ReadHello(c) \/ NoHello(c) \/ ReadHeader(c) \/ ReadStrings(c) \/ Leave(c)
      PROVE  Flows'
  <2>1. PICK from \in {"hello", "header", "strings", "play"}, to \in At \ {"none", "greet"} :
          Goes(c, from, to)
    BY <1>10 DEF ReadHello, NoHello, ReadHeader, ReadStrings, Leave, Closes, At
  <2>2. UNCHANGED <<port, key, sent, wire, got, cut>>
    BY <1>10 DEF ReadHello, NoHello, ReadHeader, ReadStrings, Leave, Closes, clientVars
  <2> QED BY <1>4, <2>1, <2>2 DEF At
<1>11. ASSUME NEW c \in Conns, Answer(c) PROVE Flows'
  <2>1. Goes(c, "answer", "closed") /\ conn[c] = "answer"
    BY <1>11 DEF Answer, Goes
  <2>2. Writes(c, LoginAnswer, Frame(port[c] = "game" /\ sent[c] = <<>>, key[c], LoginAnswer))
    BY <1>0, <1>6, <1>11, <2>1 DEF Answer
  <2> QED BY <1>0, <1>5, <1>11, <2>1, <2>2 DEF Answer, clientVars, At
<1>12. ASSUME NEW c \in Conns, Reject(c) PROVE Flows'
  <2>1. CASE UNCHANGED <<port, key, conn, sent, wire, got, cut>>
    BY <1>3, <2>1
  <2>2. CASE ~ UNCHANGED <<port, key, conn, sent, wire, got, cut>>
    <3>1. PICK t \in {LameDuckText, NoText} :
            /\ Goes(c, "reject", "closed")
            /\ Writes(c, t, Finalize(Plain(t), key[c]))
            /\ UNCHANGED <<clientVars, cut, got>>
      BY <1>12, <2>2 DEF Reject, clientVars
    <3>2. t \in Payload /\ conn[c] = "reject"
      BY <1>0, <3>1 DEF Goes
    <3>3. Writes(c, t, Frame(port[c] = "game" /\ sent[c] = <<>>, key[c], t))
      BY <1>6, <3>1, <3>2
    <3> QED BY <1>5, <3>1, <3>2, <3>3 DEF clientVars, At
  <2> QED BY <2>1, <2>2
<1>13. ASSUME NEW c \in Conns, NEW t \in Texts, Send(c, t) PROVE Flows'
  <2>1. Goes(c, "play", "play") /\ conn[c] = "play" /\ t \in Payload
    BY <1>0, <1>13 DEF Send, Goes
  <2>2. Writes(c, t, Frame(port[c] = "game" /\ sent[c] = <<>>, key[c], t))
    BY <1>6, <1>13, <2>1 DEF Send
  <2> QED BY <1>5, <1>13, <2>1, <2>2 DEF Send, clientVars, At
<1>14. ASSUME NEW c \in Conns, Lose(c) PROVE Flows'
  <2>1. PICK n \in 0..Len(wire[c]) : wire' = [wire EXCEPT ![c] = SubSeq(wire[c], 1, n)]
    BY <1>14 DEF Lose
  <2>2. /\ ~ cut[c] /\ cut' = [cut EXCEPT ![c] = TRUE]
        /\ UNCHANGED <<port, key, conn, sent, got>>
    BY <1>14 DEF Lose, clientVars
  <2>3. /\ wire'[c] = SubSeq(wire[c], 1, n) /\ cut'[c] = TRUE /\ cut[c] = FALSE
        /\ \A d \in Conns \ {c} : wire'[d] = wire[d] /\ cut'[d] = cut[d]
    BY <2>1, <2>2 DEF TypeOK, Carried
  <2>4. PICK S : got[c] \in Seq(S)
    BY DEF Carried
  <2>5. wire[c] \in Seq(Cell) /\ key[c] \in Keys /\ sent[c] \in Seq(Payload)
    BY DEF TypeOK, Carried
  <2>6. ASSUME \A i \in 1..Len(sent[c]) : Fits(Plain(sent[c][i]))
        PROVE  Streamed(port[c], key[c], sent[c], SubSeq(wire[c], 1, n), got[c], TRUE)
    <3>1. Streamed(port[c], key[c], sent[c], wire[c], got[c], FALSE)
      BY <2>3, <2>6 DEF Flows, FlowsFor
    <3> QED BY <2>4, <2>5, <3>1, StreamLose
  <2>7. FlowsFor(c)'
    BY <2>2, <2>3, <2>6 DEF Flows, FlowsFor
  <2> QED BY <1>1, <2>2, <2>3, <2>7
<1>15. ASSUME NEW c \in Conns, Read(c) PROVE Flows'
  <2> DEFINE r == Opening(port[c] = "game" /\ got[c] = <<>>, key[c], wire[c])
  <2>1. UNCHANGED <<port, key, conn, cut, sent>> /\ HasSize(wire[c])
    BY <1>15 DEF Read, clientVars
  <2>2. PICK S : got[c] \in Seq(S)
    BY DEF Carried
  <2>3. wire[c] \in Seq(Cell) /\ key[c] \in Keys /\ sent[c] \in Seq(Payload) /\ cut[c] \in BOOLEAN
    BY DEF TypeOK, Carried
  <2>4. /\ \A d \in Conns \ {c} : wire'[d] = wire[d] /\ got'[d] = got[d]
        /\ Known(wire[c]) => got'[c] = Append(got[c], r) /\ wire'[c] = After(wire[c])
    <3>1. PICK m, w : /\ got' = [got EXCEPT ![c] = Append(got[c], m)]
                      /\ wire' = [wire EXCEPT ![c] = w]
                      /\ Known(wire[c]) => m = r /\ w = After(wire[c])
      <4>1. CASE ~ Known(wire[c])
        <5>1. got' = [got EXCEPT ![c] = Append(got[c], Lost)] /\ UNCHANGED wire
          BY <1>15, <4>1 DEF Read
        <5>2. wire' = [wire EXCEPT ![c] = wire[c]]
          BY <5>1 DEF Carried
        <5> QED BY <4>1, <5>1, <5>2
      <4>2. CASE Known(wire[c])
        <5>1. /\ got' = [got EXCEPT ![c] = Append(got[c], r)]
              /\ wire' = [wire EXCEPT ![c] = After(wire[c])]
          BY <1>15, <4>2 DEF Read, Opening
        <5> HIDE DEF r
        <5> QED BY <5>1
      <4> QED BY <4>1, <4>2
    <3> HIDE DEF r
    <3>2. /\ got'[c] = Append(got[c], m) /\ wire'[c] = w
          /\ \A d \in Conns \ {c} : wire'[d] = wire[d] /\ got'[d] = got[d]
      BY <3>1 DEF Carried
    <3> QED BY <3>1, <3>2
  <2>5. ASSUME \A i \in 1..Len(sent[c]) : Fits(Plain(sent[c][i]))
        PROVE  Streamed(port[c], key[c], sent[c], wire'[c], got'[c], cut[c])
    <3>1. Streamed(port[c], key[c], sent[c], wire[c], got[c], cut[c])
      BY <2>5 DEF Flows, FlowsFor
    <3>2. /\ Known(wire[c])
          /\ Streamed(port[c], key[c], sent[c], After(wire[c]), Append(got[c], r), cut[c])
      BY <2>1, <2>2, <2>3, <2>5, <3>1, StreamRead
    <3> HIDE DEF r
    <3> QED BY <2>4, <3>2
  <2> HIDE DEF r
  <2>6. FlowsFor(c)'
    BY <2>1, <2>5 DEF Flows, FlowsFor
  <2> QED BY <1>1, <2>1, <2>4, <2>6
<1>16. CASE UNCHANGED vars
  BY <1>3, <1>16 DEF vars
<1> QED
  BY <1>7, <1>8, <1>9, <1>10, <1>11, <1>12, <1>13, <1>14, <1>15, <1>16 DEF Next, Server

IInv == TypeOK /\ Carried /\ Asked /\ Flows

\* Nothing was sent, and all of it was read.
LEMMA NothingStreamed ==
  ASSUME NEW p, NEW k
  PROVE  Streamed(p, k, <<>>, <<>>, <<>>, FALSE)
<1> DEFINE start == [i \in 1..1 |-> 0]
           none == <<>>
<1>1. Len(none) = 0 /\ 1..Len(none) = {} /\ Len(none) + 1..Len(none) = {} /\ Len(none) + 1 = 1
  OBVIOUS
<1>2. start \in [1..1 -> Nat] /\ start[1] = 0 /\ \A i \in 1..1 : i = 1
  OBVIOUS
<1> HIDE DEF start, none
<1>3. Placed(p, k, none, start)
  BY <1>1, <1>2 DEF Placed
<1>4. Streams(p, k, none, none, none, FALSE, start)
  BY <1>1, <1>2 DEF Streams
<1>5. Streamed(p, k, none, none, none, FALSE)
  BY <1>3, <1>4 DEF Streamed
<1> QED BY <1>5 DEF none

LEMMA InitIInv == Init => IInv
<1> SUFFICES ASSUME Init PROVE IInv
  OBVIOUS
<1>1. /\ process = "up" /\ ready = FALSE
      /\ port \in [Conns -> Ports] /\ hello \in [Conns -> Hellos \cup {Silent}]
      /\ key \in [Conns -> Keys]
      /\ conn = [c \in Conns |-> "none"] /\ cut = [c \in Conns |-> FALSE]
      /\ wire = [c \in Conns |-> <<>>] /\ sent = [c \in Conns |-> <<>>]
      /\ got = [c \in Conns |-> <<>>]
  BY DEF Init
<1>2. \A c \in Conns : /\ conn[c] = "none" /\ cut[c] = FALSE
                       /\ wire[c] = <<>> /\ sent[c] = <<>> /\ got[c] = <<>>
  BY <1>1
<1>3. wire \in [Conns -> Seq(Cell)] /\ sent \in [Conns -> Seq(Payload)]
  <2>1. \A S : <<>> \in Seq(S)
    BY EmptySeq
  <2>2. <<>> \in Seq(Cell) /\ <<>> \in Seq(Payload)
    BY <2>1
  <2> QED BY <1>1, <2>2
<1>4. TypeOK
  <2>1. \A c \in Conns : \A i \in DOMAIN wire[c] :
          IsByte(wire[c][i]) => wire[c][i].byte \in 0..Base - 1
    BY <1>3, WireBytes
  <2>2. \A c \in Conns : Len(sent[c]) <= 1 + MaxTexts
    <3>1. \A c \in Conns : Len(sent[c]) = 0
      BY <1>2
    <3> QED BY <3>1, TextsAssumption
  <2>3. conn \in [Conns -> At] /\ cut \in [Conns -> BOOLEAN]
    BY <1>1 DEF At
  <2> QED BY <1>1, <1>3, <2>1, <2>2, <2>3 DEF TypeOK
<1>5. Carried
  <2>1. \A c \in Conns : \E S : got[c] \in Seq(S)
    <3>1. <<>> \in Seq({})
      BY EmptySeq
    <3> QED BY <1>2, <3>1
  <2> QED BY <1>1, <1>3, <2>1 DEF Carried
<1>6. Asked
  <2> SUFFICES ASSUME NEW c \in Conns PROVE AskedFor(c) /\ AnsweredFor(c)
    BY DEF Asked
  <2>1. sent[c] = <<>> /\ conn[c] = "none"
    BY <1>2
  <2>2. 1..Len(sent[c]) = {}
    BY <2>1
  <2> QED BY <2>1, <2>2 DEF AskedFor, AnsweredFor
<1>7. Flows
  <2> SUFFICES ASSUME NEW c \in Conns PROVE FlowsFor(c)
    BY DEF Flows
  <2>1. Streamed(port[c], key[c], sent[c], wire[c], got[c], cut[c])
    BY <1>2, NothingStreamed
  <2>2. conn[c] = "none"
    BY <1>2
  <2> QED BY <2>1, <2>2 DEF FlowsFor
<1> QED BY <1>4, <1>5, <1>6, <1>7 DEF IInv

LEMMA IInvStep == IInv /\ [Next]_vars => IInv'
BY TypesStep, AskedStep, FlowsStep DEF IInv

LEMMA IInvAlways == Spec => []IInv
BY InitIInv, IInvStep, PTL DEF Spec

LEMMA ReadFollows == TypeOK /\ Carried /\ Flows => ReadAsSent
<1> SUFFICES ASSUME TypeOK, Carried, Flows, NEW c \in Conns,
                    \A i \in 1..Len(sent[c]) : Fits(Plain(sent[c][i]))
             PROVE  /\ Len(got[c]) <= Len(sent[c])
                    /\ \A i \in 1..Len(got[c]) :
                         \/ got[c][i] = Plain(sent[c][i])
                         \/ /\ i = Len(got[c]) /\ cut[c] /\ wire[c] = <<>>
                            /\ Cut(got[c][i], sent[c][i])
  BY DEF ReadAsSent
<1>1. Streamed(port[c], key[c], sent[c], wire[c], got[c], cut[c])
  BY DEF Flows, FlowsFor
<1>2. PICK S : got[c] \in Seq(S)
  BY DEF Carried
<1>3. Len(got[c]) \in Nat
  BY <1>2
<1>4. CASE Ends(sent[c], wire[c], got[c], cut[c])
  <2>1. Len(got[c]) <= Len(sent[c]) /\ cut[c] /\ wire[c] = <<>>
    BY <1>3, <1>4 DEF Ends
  <2>2. ASSUME NEW i \in 1..Len(got[c]), i # Len(got[c]) PROVE got[c][i] = Plain(sent[c][i])
    <3>1. i \in 1..Len(got[c]) - 1
      BY <1>3, <2>2
    <3> QED BY <1>4, <3>1 DEF Ends
  <2>3. Cut(got[c][Len(got[c])], sent[c][Len(got[c])])
    BY <1>4 DEF Ends
  <2> QED BY <2>1, <2>2, <2>3
<1>5. ASSUME NEW start, Streams(port[c], key[c], sent[c], wire[c], got[c], cut[c], start)
      PROVE  /\ Len(got[c]) <= Len(sent[c])
             /\ \A i \in 1..Len(got[c]) : got[c][i] = Plain(sent[c][i])
  BY <1>5 DEF Streams
<1> QED BY <1>1, <1>4, <1>5 DEF Streamed

\* However many connections there are, whatever keys, hellos and messages: all
\* keep to their types, and a client reads with its key what the server wrote, in
\* order, but for the last of a connection that was lost (net/message.go).
THEOREM LoginsCorrect == Spec => []LoginsInv
<1>1. IInv => LoginsInv
  BY ReadFollows DEF IInv, LoginsInv
<1> QED BY IInvAlways, <1>1, PTL

\* Whoever is answered has been understood, and is answered what was asked for
\* (gotserv.go connection, login.go, gameworld.go Serve).
THEOREM AnswersAreAsked == Spec => []AnsweredAsAsked
<1>1. IInv => AnsweredAsAsked
  BY DEF IInv, Asked, AnsweredFor, AnsweredAsAsked
<1> QED BY IInvAlways, <1>1, PTL
=============================================================================
