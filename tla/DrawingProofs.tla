----------------------------- MODULE DrawingProofs -----------------------------
(***************************************************************************)
(* What is looked up in the dataset is what was asked for, its sprites     *)
(* are there, and requests that share the sprite file do not mix them up;  *)
(* floors are painted in order (FloorsInOrder), and painting only stops at *)
(* a picture that cannot be drawn (StopsForAReason): for all files, maps   *)
(* and pictures, and any number of requests.                               *)
(***************************************************************************)
EXTENDS Drawing, SequenceTheorems, TLAPS

\* A sequence after one more element.
LEMMA AppendTypes ==
  ASSUME NEW S, NEW s \in Seq(S), NEW x \in S
  PROVE  /\ Append(s, x) \in Seq(S)
         /\ Len(Append(s, x)) = Len(s) + 1
         /\ Append(s, x)[Len(s) + 1] = x
         /\ \A i \in 1..Len(s) : Append(s, x)[i] = s[i]
         /\ \A i \in 1..Len(s) + 1 : i \in 1..Len(s) \/ i = Len(s) + 1
OBVIOUS

\* The beginning of a sequence.
LEMMA CutTypes ==
  ASSUME NEW S, NEW f \in Seq(S), NEW c \in Nat, c <= Len(f)
  PROVE  SubSeq(f, 1, c) \in Seq(S) /\ Len(SubSeq(f, 1, c)) = c
<1>1. \A i \in 1..c : f[i] \in S
  OBVIOUS
<1>2. /\ SubSeq(f, 1, c) \in Seq(S)
      /\ Len(SubSeq(f, 1, c)) = IF 1 <= c THEN c - 1 + 1 ELSE 0
  BY <1>1, SubSeqProperties
<1> QED BY <1>2

\* Products of numbers.
LEMMA Products ==
  /\ \A p, q \in Nat : p * q \in Nat
  /\ \A p, q, r \in Nat : q <= r => p * q <= p * r
<1>1. \A p, q \in Nat : p * q \in Nat
  OBVIOUS
<1>2. ASSUME NEW p \in Nat, NEW q \in Nat, NEW r \in Nat, q <= r PROVE p * q <= p * r
  <2>1. PICK s \in Nat : r = q + s
    <3>1. r - q \in Nat /\ r = q + (r - q)
      BY <1>2
    <3> QED BY <3>1
  <2>2. p * (q + s) = p * q + p * s
    OBVIOUS
  <2>3. p * q \in Nat /\ p * s \in Nat
    BY <1>1
  <2> QED BY <2>1, <2>2, <2>3
<1> QED BY <1>1, <1>2

\* The remainder of a number that is small enough.
LEMMA Remainder == ASSUME NEW q \in Nat, NEW p \in 0..q - 1 PROVE p % q = p
OBVIOUS

\* The number of a variant in a frame, with w in a row, h rows and n frames.
LEMMA Numbered ==
  ASSUME NEW w \in Nat, NEW h \in Nat, NEW n \in Nat,
         NEW x \in 0..w - 1, NEW y \in 0..h - 1, NEW i \in 0..n - 1
  PROVE  /\ x + y * w + i * w * h \in Nat
         /\ x + y * w + i * w * h + 1 <= w * h * n
<1> DEFINE row == y * w
           v == w * h
           all == w * h * n
           past == i * w * h
<1>0. x \in Nat /\ y \in Nat /\ i \in Nat /\ y + 1 \in Nat /\ i + 1 \in Nat
  OBVIOUS
<1>1. row \in Nat /\ v \in Nat /\ past \in Nat /\ all \in Nat
  <2>1. i * w \in Nat /\ v \in Nat /\ row \in Nat
    BY <1>0, Products
  <2> HIDE DEF v
  <2>2. v * n \in Nat
    BY <2>1, Products
  <2>3. (i * w) * h \in Nat
    BY <2>1, Products
  <2> QED BY <2>1, <2>2, <2>3 DEF v
<1>2. row + w <= v
  <2>1. w * (y + 1) <= w * h
    BY <1>0, Products
  <2>2. w * (y + 1) = row + w
    BY <1>0
  <2> QED BY <2>1, <2>2
<1>3. past + v <= all
  <2>1. v * (i + 1) <= v * n
    <3> HIDE DEF v
    <3> QED BY <1>0, <1>1, Products
  <2>2. v * (i + 1) = past + v
    BY <1>0
  <2> QED BY <2>1, <2>2
<1> HIDE DEF row, v, all, past
<1>4. x + row + past \in Nat /\ x + row + past + 1 <= all
  BY <1>0, <1>1, <1>2, <1>3
<1> QED BY <1>4 DEF row, all, past

\* The last sprite of a layer is one of the sprites that were counted.
LEMMA Fits ==
  ASSUME NEW a \in Nat, NEW l \in Nat, NEW v \in Nat, NEW n \in Nat, NEW z \in Nat \ {0},
         NEW k \in Nat, k + 1 <= v * n, NEW b \in 0..l - 1
  PROVE  (l * a) * k + a * (b + 1) <= a * l * (v * z) * n
<1> DEFINE la == l * a
           vn == v * n
<1>1. la \in Nat /\ vn \in Nat /\ b + 1 \in Nat /\ b + 1 <= l
  BY Products
<1>2. a * (b + 1) <= la /\ a * (b + 1) \in Nat
  <2>1. a * (b + 1) <= a * l /\ a * (b + 1) \in Nat
    BY <1>1, Products
  <2> QED BY <2>1
<1>3. la * (k + 1) <= la * vn /\ la * k \in Nat
  <2> HIDE DEF la, vn
  <2>1. k + 1 <= vn
    BY DEF vn
  <2> QED BY <1>1, <2>1, Products
<1>4. la * (k + 1) = la * k + la
  <2> HIDE DEF la
  <2> QED BY <1>1
<1>5. la * vn <= (la * vn) * z /\ la * vn \in Nat
  <2> HIDE DEF la, vn
  <2>1. la * vn \in Nat
    BY <1>1, Products
  <2>2. (la * vn) * 1 <= (la * vn) * z
    BY <2>1, Products
  <2>3. (la * vn) * 1 = la * vn
    BY <2>1
  <2> QED BY <2>1, <2>2, <2>3
<1>6. (la * vn) * z = a * l * (v * z) * n
  OBVIOUS
<1>7. (la * vn) * z \in Nat
  <2> HIDE DEF la, vn
  <2> QED BY <1>5, Products
<1>8. la * k + a * (b + 1) <= (la * vn) * z
  <2> DEFINE s == a * (b + 1) t == la * k u == la * vn r == u * z
  <2>1. s <= la /\ s \in Nat /\ t \in Nat /\ t + la <= u /\ u <= r /\ u \in Nat /\ r \in Nat
    BY <1>2, <1>3, <1>4, <1>5, <1>7
  <2> HIDE DEF s, t, u, r, la
  <2>2. t + s <= r
    BY <2>1, <1>1
  <2> QED BY <2>2 DEF s, t, u, r
<1> QED BY <1>6, <1>8

\* If a layer, of a sprites, starts among the sprites that were counted, it ends
\* among them.
LEMMA Blocks ==
  ASSUME NEW a \in Nat \ {0}, NEW p \in Nat, NEW k \in Nat, NEW l \in Nat,
         NEW m \in Nat, NEW n \in Nat, NEW r \in 0..a - 1,
         (p * a) * k + a * l < a * p * m * n
  PROVE  (p * a) * k + a * l + r < a * p * m * n
<1> DEFINE first == p * k + l
           all == p * m * n
<1>1. first \in Nat /\ all \in Nat
  <2>1. p * k \in Nat /\ p * m \in Nat
    BY Products
  <2> DEFINE pm == p * m pk == p * k
  <2> HIDE DEF pm, pk
  <2>2. pm * n \in Nat /\ pk + l \in Nat
    BY <2>1, Products DEF pm, pk
  <2> QED BY <2>2 DEF pm, pk
<1>2. (p * a) * k + a * l = a * first /\ a * p * m * n = a * all
  OBVIOUS
<1> HIDE DEF first, all
<1>3. a * first \in Nat /\ a * all \in Nat /\ a * first < a * all
  BY <1>1, <1>2, Products
<1>4. first + 1 <= all
  <2>1. all <= first => a * all <= a * first
    BY <1>1, Products
  <2> QED BY <1>1, <1>3, <2>1
<1>5. a * (first + 1) <= a * all /\ a * (first + 1) = a * first + a
  BY <1>1, <1>4, Products
<1>6. a * first + r < a * all
  <2> DEFINE s == a * first t == a * all u == a * (first + 1)
  <2>1. s \in Nat /\ t \in Nat /\ u = s + a /\ u <= t
    BY <1>3, <1>5
  <2> HIDE DEF s, t, u
  <2>2. s + r < t
    BY <2>1
  <2> QED BY <2>2 DEF s, t
<1> QED BY <1>2, <1>6

-----------------------------------------------------------------------------
(* The items.                                                              *)

\* Positions in a sequence are positions in a longer one.
LEMMA Longer ==
  ASSUME NEW L \in Nat, NEW s \in Seq(1..L)
  PROVE  s \in Seq(1..L + 1) /\ Append(s, L + 1) \in Seq(1..L + 1)
<1>1. \A i \in 1..Len(s) : s[i] \in 1..L + 1
  OBVIOUS
<1>2. s \in Seq(1..L + 1)
  BY <1>1
<1> QED BY <1>2, AppendTypes

\* An index after one more entry.
LEMMA PutTypes ==
  ASSUME NEW L \in Nat, NEW f, f \in [DOMAIN f -> 1..L], DOMAIN f \subseteq ID,
         NEW x \in ID, NEW M \in Nat, M >= L, NEW y \in 1..M
  PROVE  /\ Put(f, x, y) \in [DOMAIN Put(f, x, y) -> 1..M]
         /\ DOMAIN Put(f, x, y) \subseteq ID
BY DEF Put

\* Reading items.otb keeps the types of its array and of the six indexes.
LEMMA ItemsStep == ASSUME ItemsTypeOK, ItemsNext PROVE ItemsTypeOK'
<1>1. CASE ItemsFail
  BY <1>1 DEF ItemsFail, ItemsTypeOK
<1>2. CASE ItemsEnd
  BY <1>2 DEF ItemsEnd, ItemsTypeOK
<1>3. ASSUME NEW r \in Records, ReadItem(r) PROVE ItemsTypeOK'
  <2> DEFINE L == Len(items)
  <2>1. r \in Item /\ L \in Nat
    BY RecordsAssumption DEF ItemsTypeOK
  <2>0. L + 1 \in Nat /\ L + 1 >= L /\ L + 1 \in 1..L + 1
    BY <2>1
  <2>2. items' = Append(items, r) /\ items' \in Seq(Item) /\ Len(items') = L + 1
    BY <1>3, <2>1, AppendTypes DEF ReadItem, ItemsTypeOK
  <2>3. IndexClient(r, L + 1) /\ IndexServer(r, L + 1) /\ UNCHANGED itemsFile
    BY <1>3 DEF ReadItem
  <2>4. /\ r.client = None \/ r.client \in ID
        /\ r.server = None \/ r.server \in ID
    BY <2>1 DEF Item
  <2>5. /\ byClient' \in [DOMAIN byClient' -> 1..L + 1]
        /\ DOMAIN byClient' \subseteq ID
        /\ clientIDs' \in Seq(ID)
        /\ clientIdxs' \in Seq(1..L + 1)
        /\ Len(clientIdxs') \in {Len(clientIdxs), Len(clientIdxs) + 1}
        /\ r.client # None => Len(clientIdxs') = Len(clientIdxs) + 1
    <3>1. CASE r.client = None
      <4>1. UNCHANGED <<byClient, clientIDs, clientIdxs>>
        BY <2>3, <3>1 DEF IndexClient
      <4>2. byClient \in [DOMAIN byClient -> 1..L + 1]
        BY <2>1 DEF ItemsTypeOK
      <4>3. clientIdxs \in Seq(1..L + 1) /\ Len(clientIdxs) \in Nat
        BY <2>1, Longer DEF ItemsTypeOK
      <4>4. DOMAIN byClient \subseteq ID /\ clientIDs \in Seq(ID)
        BY DEF ItemsTypeOK
      <4> QED BY <4>1, <4>2, <4>3, <4>4, <3>1
    <3>2. CASE r.client # None
      <4>1. /\ byClient' = Put(byClient, r.client, L + 1)
            /\ clientIDs' = Append(clientIDs, r.client)
            /\ clientIdxs' = Append(clientIdxs, L + 1)
        BY <2>3, <3>2 DEF IndexClient
      <4>2. r.client \in ID
        BY <2>4, <3>2
      <4>3. /\ Put(byClient, r.client, L + 1)
                 \in [DOMAIN Put(byClient, r.client, L + 1) -> 1..L + 1]
            /\ DOMAIN Put(byClient, r.client, L + 1) \subseteq ID
        <5>1. byClient \in [DOMAIN byClient -> 1..L] /\ DOMAIN byClient \subseteq ID
          BY DEF ItemsTypeOK
        <5> QED BY <5>1, <2>1, <2>0, <4>2, PutTypes
      <4>4. clientIDs' \in Seq(ID)
        BY <4>1, <4>2, AppendTypes DEF ItemsTypeOK
      <4>5. clientIdxs' \in Seq(1..L + 1) /\ Len(clientIdxs') = Len(clientIdxs) + 1
        BY <4>1, <2>1, Longer DEF ItemsTypeOK
      <4> QED BY <4>1, <4>3, <4>4, <4>5
    <3> QED BY <3>1, <3>2
  <2>6. /\ byServer' \in [DOMAIN byServer' -> 1..L + 1]
        /\ DOMAIN byServer' \subseteq ID
        /\ serverIDs' \in Seq(ID)
        /\ serverIdxs' \in Seq(1..L + 1)
        /\ serverToIdx' \in [DOMAIN serverToIdx' -> 1..Len(clientIdxs')]
        /\ DOMAIN serverToIdx' \subseteq ID
    <3> DEFINE C == Len(clientIdxs)
    <3>1. C \in Nat /\ Len(clientIdxs') \in Nat /\ C <= Len(clientIdxs')
      BY <2>5 DEF ItemsTypeOK
    <3>2. serverToIdx \in [DOMAIN serverToIdx -> 1..Len(clientIdxs')]
      BY <3>1 DEF ItemsTypeOK
    <3>3. CASE r.server = None
      <4>1. UNCHANGED <<byServer, serverIDs, serverIdxs, serverToIdx>>
        BY <2>3, <3>3 DEF IndexServer
      <4>2. byServer \in [DOMAIN byServer -> 1..L + 1]
        BY <2>1 DEF ItemsTypeOK
      <4>3. serverIdxs \in Seq(1..L + 1)
        BY <2>1, Longer DEF ItemsTypeOK
      <4>4. DOMAIN byServer \subseteq ID /\ serverIDs \in Seq(ID) /\ DOMAIN serverToIdx \subseteq ID
        BY DEF ItemsTypeOK
      <4> QED BY <4>1, <4>2, <4>3, <4>4, <3>2
    <3>4. CASE r.server # None
      <4>1. /\ byServer' = Put(byServer, r.server, L + 1)
            /\ serverIDs' = Append(serverIDs, r.server)
            /\ serverIdxs' = Append(serverIdxs, L + 1)
            /\ serverToIdx' = IF r.client = None THEN serverToIdx
                              ELSE Put(serverToIdx, r.server, C + 1)
        BY <2>3, <3>4 DEF IndexServer
      <4>2. r.server \in ID
        BY <2>4, <3>4
      <4>3. /\ Put(byServer, r.server, L + 1)
                 \in [DOMAIN Put(byServer, r.server, L + 1) -> 1..L + 1]
            /\ DOMAIN Put(byServer, r.server, L + 1) \subseteq ID
        <5>1. byServer \in [DOMAIN byServer -> 1..L] /\ DOMAIN byServer \subseteq ID
          BY DEF ItemsTypeOK
        <5> QED BY <5>1, <2>1, <2>0, <4>2, PutTypes
      <4>4. serverIDs' \in Seq(ID)
        BY <4>1, <4>2, AppendTypes DEF ItemsTypeOK
      <4>5. serverIdxs' \in Seq(1..L + 1)
        BY <4>1, <2>1, Longer DEF ItemsTypeOK
      <4>6. /\ serverToIdx' \in [DOMAIN serverToIdx' -> 1..Len(clientIdxs')]
            /\ DOMAIN serverToIdx' \subseteq ID
        <5>1. CASE r.client = None
          BY <4>1, <5>1, <3>2 DEF ItemsTypeOK
        <5>2. CASE r.client # None
          <6>1. Len(clientIdxs') = C + 1
            BY <2>5, <5>2
          <6>2. C + 1 \in 1..C + 1 /\ C + 1 \in Nat /\ C + 1 >= C
            BY <3>1
          <6>3. /\ Put(serverToIdx, r.server, C + 1)
                     \in [DOMAIN Put(serverToIdx, r.server, C + 1) -> 1..C + 1]
                /\ DOMAIN Put(serverToIdx, r.server, C + 1) \subseteq ID
            <7>1. serverToIdx \in [DOMAIN serverToIdx -> 1..C] /\ DOMAIN serverToIdx \subseteq ID
              BY DEF ItemsTypeOK
            <7> QED BY <7>1, <6>2, <3>1, <4>2, PutTypes
          <6> QED BY <6>1, <6>3, <4>1, <5>2
        <5> QED BY <5>1, <5>2
      <4> QED BY <4>1, <4>3, <4>4, <4>5, <4>6
    <3> QED BY <3>3, <3>4
  <2>7. itemsFile' \in {"reading", "loaded", "failed"}
    BY <2>3 DEF ItemsTypeOK
  <2> HIDE DEF L
  <2> QED BY <2>2, <2>5, <2>6, <2>7 DEF ItemsTypeOK
<1> QED BY <1>1, <1>2, <1>3 DEF ItemsNext

\* The identifier in the dataset that things looks an item up by.
LEMMA ClientIDType ==
  ASSUME ItemsTypeOK, NEW s PROVE ThingsItem(s).dat \in ID
<1>0. ThingsItem(s).dat = ClientIDForServerID(s) /\ 0 \in ID
  BY DEF ThingsItem, ID
<1>1. CASE Known(s)
  <2>1. ItemByServerID(s) \in Item
    BY <1>1 DEF Known, ItemByServerID, ItemsTypeOK
  <2>2. ItemByServerID(s).client # None => ItemByServerID(s).client \in ID
    BY <2>1 DEF Item
  <2>3. ClientIDForServerID(s) \in {ItemByServerID(s).client, 0}
    BY DEF ClientIDForServerID
  <2>4. ItemByServerID(s).client = None => ClientIDForServerID(s) = 0
    BY DEF ClientIDForServerID
  <2> QED BY <1>0, <2>2, <2>3, <2>4
<1>2. CASE ~ Known(s)
  BY <1>0, <1>2 DEF ClientIDForServerID
<1> QED BY <1>1, <1>2

-----------------------------------------------------------------------------
(* The dataset.                                                            *)

DatInv == DatTypeOK /\ EntriesInv

\* The sizes of the four arrays.
LEMMA Sizes ==
  ASSUME header \in Header
  PROVE  /\ NItems \in 0..Word - 1
         /\ NOutfits \in 0..Word - 1
         /\ header.effects \in 0..Word - 1 /\ header.missiles \in 0..Word - 1
         /\ NEntries \in Nat /\ NItems + NOutfits <= NEntries
BY WidthsAssumption DEF NItems, NOutfits, NEntries, Header

\* Every entry has a kind and an identifier.
LEMMA Places ==
  ASSUME header \in Header, NEW n \in Nat \ {0}
  PROVE  KindAt(n) \in Kind /\ IdAt(n) \in Nat
<1>1. NItems \in Nat /\ NOutfits \in Nat /\ header.effects \in Nat
  BY Sizes, WidthsAssumption
<1>2. KindAt(n) \in Kind
  BY DEF KindAt, Kind
<1>3. IdAt(n) \in Nat
  BY <1>1, WidthsAssumption DEF IdAt
<1> QED BY <1>2, <1>3

\* The number of sprites is a number.
LEMMA SpriteCountType ==
  ASSUME NEW g \in Graphics PROVE SpriteCount(g) \in Nat
<1>1. /\ g.width \in Nat /\ g.height \in Nat /\ g.blend \in Nat /\ g.xdiv \in Nat
      /\ g.ydiv \in Nat /\ g.zdiv \in Nat /\ g.anim \in Nat
  BY WidthsAssumption DEF Graphics
<1> DEFINE a == g.width * g.height
           v == g.xdiv * g.ydiv * g.zdiv
<1>2. a \in Nat /\ v \in Nat
  BY <1>1
<1>3. a % Byte \in Nat /\ v % Byte \in Nat
  <2> HIDE DEF a, v
  <2> QED BY <1>2, WidthsAssumption
<1>4. \A p, q, b, n \in Nat : p * b * q * n \in Nat
  OBVIOUS
<1> HIDE DEF a, v
<1> QED BY <1>1, <1>3, <1>4 DEF SpriteCount, a, v

\* Reading Tibia.dat keeps the types, and puts entries where they belong.
LEMMA DatStep == ASSUME DatInv, DatNext PROVE DatInv'
<1> USE DEF DatInv
<1>0. header \in Header /\ entries \in Seq(Entry) /\ options \in Seq(Option)
  BY DEF DatTypeOK
<1>1. ASSUME NEW h \in Headers, ReadHeader(h) PROVE DatInv'
  <2>1. entries = <<>> /\ entries' = <<>> /\ header' = h /\ options' = options
    BY <1>1 DEF ReadHeader, EntriesInv
  <2>2. h \in Header
    BY FileAssumption
  <2>3. NEntries' \in Nat
    BY <2>1, <2>2, WidthsAssumption DEF NEntries, NItems, NOutfits, Header
  <2>4. datFile' = IF NEntries' = 0 THEN "loaded" ELSE "options"
    BY <1>1 DEF ReadHeader, LastEntry
  <2>5. EntriesInv'
    BY <2>1 DEF EntriesInv
  <2> QED BY <1>0, <2>1, <2>2, <2>3, <2>4, <2>5 DEF DatTypeOK
<1>2. ASSUME NEW o \in Options, ReadOption(o) PROVE DatInv'
  <2>1. UNCHANGED <<header, entries>>
    BY <1>2 DEF ReadOption
  <2>2. o \in Option
    BY FileAssumption
  <2>3. options' \in Seq(Option) /\ datFile' \in {"options", "failed"} /\ datFile = "options"
    BY <1>0, <1>2, <2>2, AppendTypes DEF ReadOption
  <2>4. EntriesInv'
    BY <2>1, <2>3 DEF EntriesInv, KindAt, IdAt, NItems, NOutfits
  <2> QED BY <1>0, <2>1, <2>3, <2>4 DEF DatTypeOK, NEntries, NItems, NOutfits
<1>3. CASE EndOfOptions
  <2>1. UNCHANGED <<header, entries, options>> /\ datFile = "options" /\ datFile' = "graphics"
    BY <1>3 DEF EndOfOptions
  <2>2. EntriesInv'
    BY <2>1 DEF EntriesInv, KindAt, IdAt, NItems, NOutfits
  <2> QED BY <1>0, <2>1, <2>2 DEF DatTypeOK, NEntries, NItems, NOutfits
<1>4. ASSUME NEW g \in Specs, NEW f \in Fillings, ReadGraphics(g, f) PROVE DatInv'
  <2> DEFINE n == Len(entries) + 1
             c == SpriteCount(g)
             e == [kind |-> KindAt(n), id |-> IdAt(n), options |-> options,
                   gfx |-> g, sprites |-> SubSeq(f, 1, c)]
  <2>1. g \in Graphics /\ f \in Seq(0..Word - 1) /\ c \in Nat /\ c <= Len(f)
    BY <1>4, FileAssumption, SpriteCountType DEF ReadGraphics
  <2>2. header' = header /\ datFile = "graphics" /\ Len(entries) < NEntries
    BY <1>4 DEF ReadGraphics, DatTypeOK
  <2>3. CASE c = 0
    <3>1. UNCHANGED <<entries, options>> /\ datFile' = "failed"
      BY <1>4, <2>3 DEF ReadGraphics
    <3>2. EntriesInv'
      BY <2>2, <3>1 DEF EntriesInv, KindAt, IdAt, NItems, NOutfits
    <3> QED BY <1>0, <2>2, <3>1, <3>2 DEF DatTypeOK, NEntries, NItems, NOutfits
  <2>4. CASE c # 0
    <3>1. /\ entries' = Append(entries, e)
          /\ options' = <<>>
          /\ datFile' = IF n = NEntries THEN "loaded" ELSE "options"
      BY <1>4, <2>4 DEF ReadGraphics, LastEntry
    <3>2. SubSeq(f, 1, c) \in Seq(0..Word - 1) /\ Len(SubSeq(f, 1, c)) = c
      <4> HIDE DEF c
      <4> QED BY <2>1, CutTypes
    <3>3. KindAt(n) \in Kind /\ IdAt(n) \in Nat
      BY <1>0, Places
    <3>4. e \in Entry
      BY <1>0, <2>1, <3>2, <3>3 DEF Entry
    <3>5. /\ entries' \in Seq(Entry) /\ Len(entries') = n /\ entries'[n] = e
          /\ \A i \in 1..Len(entries) : entries'[i] = entries[i]
          /\ \A i \in 1..n : i \in 1..Len(entries) \/ i = n
      <4> HIDE DEF e
      <4> QED BY <1>0, <3>1, <3>4, AppendTypes
    <3>6. \A i \in 1..Len(entries) :
            entries[i].kind = KindAt(i) /\ entries[i].id = IdAt(i)
              /\ SpriteCount(entries[i].gfx) # 0
              /\ Len(entries[i].sprites) = SpriteCount(entries[i].gfx)
      BY DEF EntriesInv
    <3>7. /\ e.kind = KindAt(n) /\ e.id = IdAt(n)
          /\ SpriteCount(e.gfx) # 0 /\ Len(e.sprites) = SpriteCount(e.gfx)
      BY <2>4, <3>2
    <3>8. \A i \in Nat : KindAt(i)' = KindAt(i) /\ IdAt(i)' = IdAt(i)
      BY <2>2 DEF KindAt, IdAt, NItems, NOutfits
    <3>9. \A i \in 1..Len(entries') :
            entries'[i].kind = KindAt(i) /\ entries'[i].id = IdAt(i)
              /\ SpriteCount(entries'[i].gfx) # 0
              /\ Len(entries'[i].sprites) = SpriteCount(entries'[i].gfx)
      <4> HIDE DEF e, n
      <4> QED BY <3>5, <3>6, <3>7
    <3>10. EntriesInv'
      <4>1. datFile' # "header" /\ 1..Len(entries') \subseteq Nat
        BY <3>1, <3>5, <1>0
      <4> QED BY <4>1, <3>8, <3>9 DEF EntriesInv
    <3>11. NEntries' = NEntries /\ NEntries \in Nat
      BY <1>0, <2>2, Sizes DEF NEntries, NItems, NOutfits
    <3> QED BY <1>0, <2>2, <3>1, <3>5, <3>10, <3>11 DEF DatTypeOK
  <2> QED BY <2>3, <2>4
<1>5. CASE DatFails
  <2>1. UNCHANGED <<header, entries, options>> /\ datFile' = "failed"
    BY <1>5 DEF DatFails
  <2>2. EntriesInv'
    BY <2>1 DEF EntriesInv, KindAt, IdAt, NItems, NOutfits
  <2> QED BY <1>0, <2>1, <2>2 DEF DatTypeOK, NEntries, NItems, NOutfits
<1>6. CASE DatOmitted
  <2>1. UNCHANGED <<header, entries, options>> /\ datFile' = "omitted"
    BY <1>6 DEF DatOmitted
  <2>2. EntriesInv'
    BY <2>1 DEF EntriesInv, KindAt, IdAt, NItems, NOutfits
  <2> QED BY <1>0, <2>1, <2>2 DEF DatTypeOK, NEntries, NItems, NOutfits
<1> QED BY <1>1, <1>2, <1>3, <1>4, <1>5, <1>6 DEF DatNext

-----------------------------------------------------------------------------
(* Lookups and sprites of an entry.                                        *)

\* A loaded dataset finds what it is asked for.
LEMMA InRange == ASSUME DatInv PROVE LookupsInRange
<1> SUFFICES ASSUME datFile = "loaded" PROVE LookupsInRange
  BY DEF LookupsInRange
<1>1. /\ NItems \in 0..Word - 1 /\ NOutfits \in 0..Word - 1
      /\ NEntries \in Nat /\ NItems + NOutfits <= NEntries
  BY Sizes DEF DatInv, DatTypeOK
<1>2. Len(entries) = NEntries
  BY DEF DatInv, DatTypeOK
<1>3. \A n \in 1..NEntries : entries[n].kind = KindAt(n) /\ entries[n].id = IdAt(n)
  BY <1>2 DEF DatInv, EntriesInv
<1>4. FirstID \in Nat /\ Word \in Nat
  BY WidthsAssumption
<1>5. ASSUME NEW id \in 0..Word - 1
      PROVE  IF id \in FirstID..FirstID + NItems - 1
             THEN DatItem(id).kind = "item" /\ DatItem(id).id = id
             ELSE DatItem(id) = IF id = FirstID + NItems THEN OutOfRange ELSE NoEntry
  <2>1. CASE id \in FirstID..FirstID + NItems - 1
    <3>1. id - FirstID + 1 \in 1..NItems /\ id - FirstID + 1 \in 1..NEntries
      BY <1>1, <1>4, <2>1
    <3>2. DatItem(id) = entries[id - FirstID + 1]
      BY <1>1, <1>4, <2>1 DEF DatItem
    <3>3. KindAt(id - FirstID + 1) = "item" /\ IdAt(id - FirstID + 1) = id
      BY <3>1, <1>4 DEF KindAt, IdAt
    <3> QED BY <1>3, <2>1, <3>1, <3>2, <3>3
  <2>2. CASE id \notin FirstID..FirstID + NItems - 1
    BY <1>1, <1>4, <2>2 DEF DatItem
  <2> QED BY <2>1, <2>2
<1>6. ASSUME NEW id \in 0..Word - 1
      PROVE  IF id \in 1..NOutfits
             THEN Outfit(id).kind = "outfit" /\ Outfit(id).id = id
             ELSE Outfit(id) = NoEntry
  <2>1. CASE id \in 1..NOutfits
    <3>1. NItems + id \in 1..NEntries
      BY <1>1, <1>4, <2>1
    <3>2. Outfit(id) = entries[NItems + id]
      BY <1>1, <1>4, <2>1 DEF Outfit
    <3>3. KindAt(NItems + id) = "outfit" /\ IdAt(NItems + id) = id
      BY <1>1, <2>1, <1>4 DEF KindAt, IdAt
    <3> QED BY <1>3, <2>1, <3>1, <3>2, <3>3
  <2>2. CASE id \notin 1..NOutfits
    BY <1>1, <1>4, <2>2 DEF Outfit
  <2> QED BY <2>1, <2>2
<1>7. ASSUME header.items >= FirstID - 1, NEW id \in MinItemID..MaxItemID
      PROVE  DatItem(id).id = id
  <2>1. header.items \in 0..Word - 1
    BY DEF DatInv, DatTypeOK, Header
  <2>2. NItems = header.items - FirstID + 1
    BY <2>1, <1>4, <1>7, WidthsAssumption DEF NItems
  <2>3. id \in 0..Word - 1 /\ id \in FirstID..FirstID + NItems - 1
    BY <2>1, <2>2, <1>4 DEF MinItemID, MaxItemID
  <2> QED BY <1>5, <2>3
<1> QED BY <1>5, <1>6, <1>7 DEF LookupsInRange

\* Nothing that is multiplied for the number of sprites is zero.
LEMMA Positive ==
  ASSUME NEW g \in Graphics, SpriteCount(g) # 0
  PROVE  /\ g.width \in Nat \ {0} /\ g.height \in Nat \ {0} /\ g.blend \in Nat \ {0}
         /\ g.xdiv \in Nat \ {0} /\ g.ydiv \in Nat \ {0} /\ g.zdiv \in Nat \ {0}
         /\ g.anim \in Nat \ {0}
<1>1. /\ g.width \in Nat /\ g.height \in Nat /\ g.blend \in Nat /\ g.xdiv \in Nat
      /\ g.ydiv \in Nat /\ g.zdiv \in Nat /\ g.anim \in Nat
  BY WidthsAssumption DEF Graphics
<1> DEFINE a == (g.width * g.height) % Byte
           v == (g.xdiv * g.ydiv * g.zdiv) % Byte
<1>2. 0 % Byte = 0
  BY WidthsAssumption
<1>3. /\ g.width = 0 \/ g.height = 0 => g.width * g.height = 0
      /\ g.xdiv = 0 \/ g.ydiv = 0 \/ g.zdiv = 0 => g.xdiv * g.ydiv * g.zdiv = 0
  BY <1>1
<1>4. a \in Nat /\ v \in Nat
  <2>1. g.width * g.height \in Nat /\ g.xdiv * g.ydiv * g.zdiv \in Nat
    BY <1>1
  <2>2. \A n \in Nat : n % Byte \in Nat
    BY WidthsAssumption
  <2> QED BY <2>1, <2>2
<1>5. a * g.blend * v * g.anim # 0
  BY DEF SpriteCount
<1>6. \A p, q, b, n \in Nat :
        p * b * q * n # 0 => p # 0 /\ b # 0 /\ q # 0 /\ n # 0
  OBVIOUS
<1>7. a # 0 /\ g.blend # 0 /\ v # 0 /\ g.anim # 0
  <2> HIDE DEF a, v
  <2> QED BY <1>1, <1>4, <1>5, <1>6
<1> QED BY <1>1, <1>2, <1>3, <1>7

\* The sprites of an entry suffice for whatever may be drawn of it.
LEMMA Suffice == ASSUME DatInv PROVE SpritesSuffice
<1> SUFFICES ASSUME NEW n \in 1..Len(entries), Counted(entries[n].gfx),
                    NEW x \in 0..entries[n].gfx.xdiv - 1,
                    NEW y \in 0..entries[n].gfx.ydiv - 1,
                    NEW frame \in 0..entries[n].gfx.anim - 1,
                    NEW b \in 0..entries[n].gfx.blend - 1
             PROVE  ActiveSprite(entries[n].gfx, x, y, frame)
                      + entries[n].gfx.width * entries[n].gfx.height * (b + 1)
                        <= Len(entries[n].sprites)
  BY DEF SpritesSuffice
<1> DEFINE g == entries[n].gfx
           a == g.width * g.height
           v == g.xdiv * g.ydiv
           k == x + y * g.xdiv + frame * g.xdiv * g.ydiv
<1>1. g \in Graphics /\ SpriteCount(g) # 0 /\ Len(entries[n].sprites) = SpriteCount(g)
  <2>1. entries[n] \in Entry
    BY DEF DatInv, DatTypeOK
  <2>2. SpriteCount(g) # 0 /\ Len(entries[n].sprites) = SpriteCount(g)
    BY DEF DatInv, EntriesInv
  <2> QED BY <2>1, <2>2 DEF Entry
<1>2. /\ x \in 0..g.xdiv - 1 /\ y \in 0..g.ydiv - 1 /\ frame \in 0..g.anim - 1
      /\ b \in 0..g.blend - 1 /\ Counted(g)
  OBVIOUS
<1> HIDE DEF g
<1>3. /\ g.width \in Nat \ {0} /\ g.height \in Nat \ {0} /\ g.blend \in Nat \ {0}
      /\ g.xdiv \in Nat \ {0} /\ g.ydiv \in Nat \ {0} /\ g.zdiv \in Nat \ {0}
      /\ g.anim \in Nat \ {0}
  BY <1>1, Positive
<1>4. a \in Nat /\ v \in Nat /\ v * g.zdiv \in Nat
  <2>1. a \in Nat /\ v \in Nat
    BY <1>3, Products
  <2> HIDE DEF v
  <2>2. v * g.zdiv \in Nat
    BY <1>3, <2>1, Products
  <2> QED BY <2>1, <2>2
<1>5. SpriteCount(g) = a * g.blend * (v * g.zdiv) * g.anim
  <2>1. a < Byte /\ v * g.zdiv < Byte
    BY <1>2 DEF Counted
  <2>2. a % Byte = a /\ (v * g.zdiv) % Byte = v * g.zdiv
    <3> DEFINE u == v * g.zdiv
    <3>1. u \in Nat /\ u < Byte
      BY <1>4, <2>1
    <3> HIDE DEF a, u
    <3>2. a % Byte = a /\ u % Byte = u
      BY <1>4, <2>1, <3>1, WidthsAssumption
    <3> QED BY <3>2 DEF u
  <2> QED BY <2>2 DEF SpriteCount
<1>6. k \in Nat /\ k + 1 <= v * g.anim
  BY <1>2, <1>3, Numbered
<1>7. ActiveSprite(g, x, y, frame) = (g.blend * a) * k
  <2>1. x % g.xdiv = x /\ y % g.ydiv = y /\ frame % g.anim = frame
    <3>1. x % g.xdiv = x
      BY <1>2, <1>3, Remainder
    <3>2. y % g.ydiv = y
      BY <1>2, <1>3, Remainder
    <3>3. frame % g.anim = frame
      BY <1>2, <1>3, Remainder
    <3> QED BY <3>1, <3>2, <3>3
  <2>2. g.blend * g.height * g.width = g.blend * a
    BY <1>3
  <2> QED BY <2>1, <2>2 DEF ActiveSprite
<1>8. (g.blend * a) * k + a * (b + 1) <= a * g.blend * (v * g.zdiv) * g.anim
  <2> HIDE DEF a, k, v
  <2> QED BY <1>2, <1>3, <1>4, <1>6, Fits
<1>9. ActiveSprite(g, x, y, frame) + a * (b + 1) <= SpriteCount(g)
  BY <1>5, <1>7, <1>8
<1> QED BY <1>1, <1>9 DEF g

-----------------------------------------------------------------------------
(* Types of what is drawn.                                                 *)

\* The quotient and the remainder of a whole number.
LEMMA Division ==
  ASSUME NEW p \in Int, NEW q \in Nat \ {0}
  PROVE  /\ p \div q \in Int /\ p % q \in 0..q - 1
         /\ p \in Nat => p \div q \in Nat
         /\ \A k \in Nat : p \in 0..q * k - 1 => p \div q \in 0..k - 1
OBVIOUS

\* Elements of a sequence are of any larger type.
LEMMA Wider ==
  ASSUME NEW S, NEW T, S \subseteq T, NEW s \in Seq(S) PROVE s \in Seq(T)
<1>1. \A i \in 1..Len(s) : s[i] \in T
  OBVIOUS
<1> QED BY <1>1

\* What is first, and what is left.
LEMMA Rest ==
  ASSUME NEW S, NEW s \in Seq(S), s # <<>>
  PROVE  Head(s) \in S /\ Tail(s) \in Seq(S)
BY HeadTailProperties

\* A tile by its floor, column and row of the picture.
LEMMA VisitParts ==
  ASSUME NEW b \in Box, NEW i \in Nat
  PROVE  \E up \in Int, col \in 0..b.width - 1, row \in 0..b.height - 1 :
           /\ up = (i - 1) \div (b.width * b.height)
           /\ Visit(b, i).pos
                = <<(b.x + up + col) % Word, (b.y + up + row) % Word, b.bottom - up>>
           /\ Visit(b, i).cell = <<col + 1, row + 1>>
<1> DEFINE a == b.width * b.height
           up == (i - 1) \div a
           col == (i - 1) % b.width
           line == (i - 1) \div b.width
           row == line % b.height
<1>1. /\ b.width \in Nat \ {0} /\ b.height \in Nat \ {0} /\ b.x \in Int /\ b.y \in Int
      /\ i - 1 \in Int
  BY WidthsAssumption DEF Box
<1>2. a \in Nat \ {0}
  BY <1>1
<1>3. up \in Int
  <2> HIDE DEF a
  <2> QED BY <1>1, <1>2, Division
<1>4. col \in 0..b.width - 1 /\ line \in Int
  BY <1>1, Division
<1>5. row \in 0..b.height - 1
  <2> HIDE DEF line
  <2> QED BY <1>1, <1>4, Division
<1>6. /\ Visit(b, i).pos
           = <<(b.x + up + col) % Word, (b.y + up + row) % Word, b.bottom - up>>
      /\ Visit(b, i).cell
           = <<(b.x + up + col) - b.x + 1 - up, (b.y + up + row) - b.y + 1 - up>>
  BY DEF Visit
<1> HIDE DEF up, col, row
<1>7. /\ (b.x + up + col) - b.x + 1 - up = col + 1
      /\ (b.y + up + row) - b.y + 1 - up = row + 1
  BY <1>1, <1>3, <1>4, <1>5
<1> QED BY <1>3, <1>4, <1>5, <1>6, <1>7 DEF up

\* A tile is on the map, and a cell on the picture.
LEMMA VisitType ==
  ASSUME NEW b \in Box, NEW i \in Nat
  PROVE  /\ Visit(b, i).pos \in Position
         /\ Visit(b, i).cell \in (1..b.width) \X (1..b.height)
         /\ Visit(b, i).cell \in Int \X Int
<1>1. PICK up \in Int, col \in 0..b.width - 1, row \in 0..b.height - 1 :
        /\ Visit(b, i).pos
             = <<(b.x + up + col) % Word, (b.y + up + row) % Word, b.bottom - up>>
        /\ Visit(b, i).cell = <<col + 1, row + 1>>
  BY VisitParts
<1>2. /\ b.width \in Nat /\ b.height \in Nat /\ b.x + up + col \in Int
      /\ b.y + up + row \in Int /\ b.bottom - up \in Int /\ Word \in Nat \ {0}
  BY WidthsAssumption DEF Box
<1> DEFINE tx == b.x + up + col
           ty == b.y + up + row
<1>3. tx % Word \in 0..Word - 1
  <2>1. tx \in Int
    BY <1>2
  <2> HIDE DEF tx
  <2> QED BY <1>2, <2>1, Division
<1>4. ty % Word \in 0..Word - 1
  <2>1. ty \in Int
    BY <1>2
  <2> HIDE DEF ty
  <2> QED BY <1>2, <2>1, Division
<1>5. /\ col + 1 \in 1..b.width /\ row + 1 \in 1..b.height
      /\ col + 1 \in Int /\ row + 1 \in Int
  BY <1>2
<1>6. Visit(b, i).pos \in Position
  BY <1>1, <1>2, <1>3, <1>4 DEF Position
<1> QED BY <1>1, <1>5, <1>6

\* The larger of two numbers has the larger quotient.
LEMMA Quotients ==
  ASSUME NEW q \in Nat \ {0}, NEW c \in Int, NEW d \in Int,
         NEW s \in 0..q - 1, NEW t \in 0..q - 1, q * c + s <= q * d + t
  PROVE  c <= d
<1> SUFFICES ASSUME d < c PROVE FALSE
  OBVIOUS
<1>1. PICK k \in Nat : c = d + 1 + k
  <2>1. c - d - 1 \in Nat /\ c = d + 1 + (c - d - 1)
    OBVIOUS
  <2> QED BY <2>1
<1>2. q * (d + 1 + k) = q * d + q + q * k /\ q * k \in Nat
  BY Products
<1> DEFINE x == q * c y == q * d z == q * k
<1>3. x \in Int /\ y \in Int /\ z \in Nat /\ x = y + q + z /\ x + s <= y + t
  BY <1>1, <1>2
<1> HIDE DEF x, y, z
<1> QED BY <1>3

\* A number is its quotient times the divisor, and its remainder.
LEMMA Divided ==
  ASSUME NEW p \in Int, NEW q \in Nat \ {0}
  PROVE  p \div q \in Int /\ p % q \in 0..q - 1 /\ p = q * (p \div q) + (p % q)
OBVIOUS

\* Division keeps the order of numbers.
LEMMA DivisionGrows ==
  ASSUME NEW p \in Int, NEW r \in Int, p <= r, NEW q \in Nat \ {0}
  PROVE  p \div q <= r \div q
<1> DEFINE c == p \div q d == r \div q s == p % q t == r % q
<1>1. /\ c \in Int /\ d \in Int /\ s \in 0..q - 1 /\ t \in 0..q - 1
      /\ p = q * c + s /\ r = q * d + t
  BY Divided
<1> HIDE DEF c, d, s, t
<1>2. q * c + s <= q * d + t
  BY <1>1
<1> QED BY <1>1, <1>2, Quotients DEF c, d

\* There is only one remainder.
LEMMA OneRemainder ==
  ASSUME NEW q \in Nat \ {0}, NEW c \in Int, NEW s \in 0..q - 1
  PROVE  (q * c + s) % q = s
<1> DEFINE p == q * c + s d == p \div q t == p % q
<1>1. p \in Int
  OBVIOUS
<1>2. p = q * c + s
  OBVIOUS
<1> HIDE DEF p
<1>3. d \in Int /\ t \in 0..q - 1 /\ p = q * d + t
  BY <1>1, Divided
<1> HIDE DEF d, t
<1>4. c <= d /\ d <= c
  <2>1. q * c + s <= q * d + t /\ q * d + t <= q * c + s
    BY <1>1, <1>2, <1>3
  <2>2. c <= d
    BY <1>3, <2>1, Quotients
  <2>3. d <= c
    BY <1>3, <2>1, Quotients
  <2> QED BY <2>2, <2>3
<1>5. c = d
  BY <1>3, <1>4
<1>6. q * c \in Int
  OBVIOUS
<1> DEFINE x == q * c
<1>7. x \in Int /\ p = x + s /\ p = x + t
  BY <1>2, <1>3, <1>5, <1>6
<1> HIDE DEF x
<1>8. s = t
  BY <1>3, <1>7
<1> QED BY <1>8 DEF t, p

\* Moving along before or after the edge of the map has been crossed.
LEMMA RemainderMoves ==
  ASSUME NEW p \in Int, NEW m \in Int, NEW q \in Nat \ {0}
  PROVE  (p + m) % q = ((p % q) + m) % q
<1> DEFINE c == p \div q r == p % q w == r + m d == w \div q t == w % q
<1>1. c \in Int /\ r \in 0..q - 1 /\ p = q * c + r
  BY Divided
<1> HIDE DEF c, r
<1>2. w \in Int
  BY <1>1
<1>3. d \in Int /\ t \in 0..q - 1 /\ w = q * d + t
  <2> HIDE DEF w
  <2> QED BY <1>2, Divided
<1> HIDE DEF d, t
<1>4. p + m = q * (c + d) + t
  <2>1. q * (c + d) = q * c + q * d
    BY <1>1, <1>3
  <2> DEFINE x == q * c y == q * d
  <2>2. x \in Int /\ y \in Int /\ q * (c + d) = x + y /\ p = x + r /\ w = y + t /\ w = r + m
    BY <1>1, <1>3, <2>1
  <2> DEFINE z == q * (c + d)
  <2> HIDE DEF x, y, z, w
  <2>3. p + m = z + t
    BY <1>1, <1>2, <1>3, <2>2 DEF z
  <2> QED BY <2>3 DEF z
<1>5. (q * (c + d) + t) % q = t
  <2>1. c + d \in Int
    BY <1>1, <1>3
  <2> DEFINE e == c + d
  <2> HIDE DEF e
  <2>2. (q * e + t) % q = t
    BY <1>3, <2>1, OneRemainder DEF e
  <2> QED BY <2>2 DEF e
<1> QED BY <1>4, <1>5 DEF t, r

\* Tiles are come to from the lowest floor upwards.
LEMMA VisitsRise ==
  ASSUME NEW b \in Box, NEW i \in Nat, NEW j \in Nat, i <= j
  PROVE  Visit(b, i).pos[3] >= Visit(b, j).pos[3]
<1> DEFINE a == b.width * b.height
<1>1. a \in Nat \ {0} /\ b.bottom \in Int
  BY DEF Box
<1>2. Visit(b, i).pos[3] = b.bottom - ((i - 1) \div a)
  BY DEF Visit
<1>3. Visit(b, j).pos[3] = b.bottom - ((j - 1) \div a)
  BY DEF Visit
<1> HIDE DEF a
<1>4. (i - 1) \div a <= (j - 1) \div a
  BY <1>1, DivisionGrows
<1>5. (i - 1) \div a \in Int /\ (j - 1) \div a \in Int
  BY <1>1, Division
<1> QED BY <1>1, <1>2, <1>3, <1>4, <1>5

\* Tiles on one cell of the picture lie on one line of the map.
LEMMA OneLine ==
  ASSUME NEW b \in Box, NEW i \in Nat, NEW j \in Nat,
         Visit(b, i).cell = Visit(b, j).cell, NEW k \in {1, 2}
  PROVE  Visit(b, j).pos[k]
           = (Visit(b, i).pos[k] + Visit(b, i).pos[3] - Visit(b, j).pos[3]) % Word
<1>1. PICK up \in Int, col \in 0..b.width - 1, row \in 0..b.height - 1 :
        /\ Visit(b, i).pos
             = <<(b.x + up + col) % Word, (b.y + up + row) % Word, b.bottom - up>>
        /\ Visit(b, i).cell = <<col + 1, row + 1>>
  BY VisitParts
<1>2. PICK top \in Int, c \in 0..b.width - 1, r \in 0..b.height - 1 :
        /\ Visit(b, j).pos
             = <<(b.x + top + c) % Word, (b.y + top + r) % Word, b.bottom - top>>
        /\ Visit(b, j).cell = <<c + 1, r + 1>>
  BY VisitParts
<1>3. /\ b.width \in Nat /\ b.height \in Nat /\ b.x \in Int /\ b.y \in Int
      /\ b.bottom \in Int /\ Word \in Nat \ {0}
  BY WidthsAssumption DEF Box
<1>4. col \in Int /\ row \in Int /\ c = col /\ r = row
  <2>1. col \in Int /\ row \in Int /\ c \in Int /\ r \in Int
    BY <1>3
  <2> DEFINE w == col + 1 x == row + 1 y == c + 1 z == r + 1
  <2>2. w = y /\ x = z
    <3>1. Visit(b, i).cell = <<w, x>> /\ Visit(b, j).cell = <<y, z>>
      BY <1>1, <1>2
    <3> HIDE DEF w, x, y, z
    <3>2. <<w, x>> = <<y, z>>
      BY <3>1
    <3> QED BY ONLY <3>2
  <2> QED BY <2>1, <2>2
<1>5. ASSUME NEW p \in Int
      PROVE  /\ (p + top) % Word = (((p + up) % Word) + (top - up)) % Word
             /\ (p + up) % Word \in Int
  <2> DEFINE n == p + up m == top - up
  <2>1. n \in Int /\ m \in Int /\ n + m = p + top
    OBVIOUS
  <2> HIDE DEF n, m
  <2>2. (n + m) % Word = ((n % Word) + m) % Word
    <3>1. n \in Int /\ m \in Int /\ Word \in Nat \ {0}
      BY <1>3, <2>1
    <3> QED BY ONLY <3>1, RemainderMoves, Zenon
  <2>3. n % Word \in 0..Word - 1
    BY <1>3, <2>1, Division
  <2>4. n % Word \in Int
    BY <1>3, <2>3
  <2> QED BY <2>1, <2>2, <2>4 DEF n, m
<1> DEFINE p == b.x + col
           n == b.y + row
           X == (p + up) % Word
           Y == (n + up) % Word
           S == (p + top) % Word
           T == (n + top) % Word
<1>6. p \in Int /\ n \in Int
  BY <1>3, <1>4
<1>7. /\ b.x + up + col = p + up /\ b.x + top + c = p + top
      /\ b.y + up + row = n + up /\ b.y + top + r = n + top
  BY <1>3, <1>4
<1>8. /\ Visit(b, i).pos = <<X, Y, b.bottom - up>>
      /\ Visit(b, j).pos = <<S, T, b.bottom - top>>
  BY <1>1, <1>2, <1>7
<1> HIDE DEF p, n
<1>9. /\ X \in Int /\ Y \in Int
      /\ S = (X + (top - up)) % Word /\ T = (Y + (top - up)) % Word
  BY <1>5, <1>6
<1> HIDE DEF X, Y, S, T
<1>10. /\ X + (b.bottom - up) - (b.bottom - top) = X + (top - up)
       /\ Y + (b.bottom - up) - (b.bottom - top) = Y + (top - up)
  BY <1>3, <1>9
<1> QED BY <1>8, <1>9, <1>10

\* What lies on a tile.
LEMMA TileType ==
  ASSUME world \in Worlds, NEW p
  PROVE  TileAt(p) \in Seq(Thing) /\ Append(TileAt(p), Decoration) \in Seq(Thing)
<1>1. TileAt(p) \in Seq(Thing)
  <2>1. CASE p \in DOMAIN world
    <3>1. world[p] \in Seq([kind : {"item", "creature"}, id : Nat, dir : 0..3])
      BY <2>1, WorldsAssumption
    <3>2. [kind : {"item", "creature"}, id : Nat, dir : 0..3] \subseteq Thing
      BY DEF Thing
    <3>3. world[p] \in Seq(Thing)
      BY <3>1, <3>2, Wider
    <3> QED BY <2>1, <3>3 DEF TileAt
  <2>2. CASE p \notin DOMAIN world
    BY <2>2 DEF TileAt
  <2> QED BY <2>1, <2>2
<1>2. Decoration \in Thing
  BY DecorativeAssumption DEF Decoration, Thing
<1> QED BY <1>1, <1>2

\* What may be drawn of an entry: a sprite that is not there only if the
\* sprites were counted wrongly.
Shown(e) == IF Counted(e.gfx) THEN Nat ELSE Nat \cup {Beyond}

\* An entry that load780plus completed.
Whole(e) ==
  e \in Entry /\ SpriteCount(e.gfx) # 0 /\ Len(e.sprites) = SpriteCount(e.gfx)

\* Products that do not wrap are what they are.
LEMMA CountedCount ==
  ASSUME NEW g \in Graphics, SpriteCount(g) # 0, Counted(g)
  PROVE  SpriteCount(g)
           = (g.width * g.height) * g.blend * (g.xdiv * g.ydiv * g.zdiv) * g.anim
<1> DEFINE a == g.width * g.height
           u == g.xdiv * g.ydiv * g.zdiv
<1>1. g.width \in Nat /\ g.height \in Nat /\ g.xdiv \in Nat /\ g.ydiv \in Nat /\ g.zdiv \in Nat
  BY Positive
<1>2. a \in Nat /\ u \in Nat
  BY <1>1
<1>3. a < Byte /\ u < Byte
  BY DEF Counted
<1>4. SpriteCount(g) = (a % Byte) * g.blend * (u % Byte) * g.anim
  BY DEF SpriteCount
<1> HIDE DEF a, u
<1>5. a % Byte = a /\ u % Byte = u
  BY <1>2, <1>3, WidthsAssumption
<1> QED BY <1>4, <1>5 DEF a, u

\* What is drawn of an entry is numbers of sprites, or beyond them.
LEMMA DrawnType ==
  ASSUME NEW e, Whole(e),
         NEW x \in Nat, NEW y \in Nat, NEW frame \in Nat, NEW layers \in Seq(Nat)
  PROVE  DrawnSprites(e, x, y, frame, layers) \in Seq(Shown(e))
<1> DEFINE g == e.gfx
           area == g.width * g.height
           L == Len(layers)
           N == Len(e.sprites)
<1>1. /\ g \in Graphics /\ e.sprites \in Seq(0..Word - 1)
      /\ SpriteCount(g) # 0 /\ N = SpriteCount(g)
  BY DEF Entry, Whole
<1>2. /\ g.width \in Nat \ {0} /\ g.height \in Nat \ {0} /\ g.blend \in Nat \ {0}
      /\ g.xdiv \in Nat \ {0} /\ g.ydiv \in Nat \ {0} /\ g.zdiv \in Nat \ {0}
      /\ g.anim \in Nat \ {0}
  BY <1>1, Positive
<1>3. area \in Nat \ {0} /\ L \in Nat /\ N \in Nat
  <2>1. area \in Nat \ {0}
    <3> HIDE DEF g
    <3> QED BY <1>2
  <2> QED BY <1>1, <2>1
<1>4. PICK k \in Nat : ActiveSprite(g, x, y, frame) = (g.blend * area) * k
  <2>1. x % g.xdiv \in Nat /\ y % g.ydiv \in Nat /\ frame % g.anim \in Nat
    <3> HIDE DEF g
    <3>1. \A p \in Nat, q \in Nat \ {0} : p % q \in Nat
      OBVIOUS
    <3> QED BY <1>2, <3>1
  <2> DEFINE k == (x % g.xdiv) + (y % g.ydiv) * g.xdiv + (frame % g.anim) * g.xdiv * g.ydiv
  <2> HIDE DEF g
  <2>2. (y % g.ydiv) * g.xdiv \in Nat
    BY <1>2, <2>1, Products
  <2>3. (frame % g.anim) * g.xdiv \in Nat
    BY <1>2, <2>1, Products
  <2>4. ((frame % g.anim) * g.xdiv) * g.ydiv \in Nat
    BY <1>2, <2>3, Products
  <2>5. k \in Nat
    BY <2>1, <2>2, <2>4
  <2>6. g.blend * g.height * g.width = g.blend * area
    BY <1>2
  <2>7. ActiveSprite(g, x, y, frame) = g.blend * g.height * g.width * k
    BY DEF ActiveSprite
  <2> HIDE DEF k, area
  <2> QED BY <2>5, <2>6, <2>7
<1>5. ASSUME NEW i \in 1..area * L
      PROVE  SpriteAt(e, x, y, frame, layers, i) \in Shown(e)
  <2> DEFINE l == layers[((i - 1) \div area) + 1]
             start == ActiveSprite(g, x, y, frame) + area * l
             pos == start + ((i - 1) % area)
  <2>1. l \in Nat
    <3> HIDE DEF area, L
    <3>1. i - 1 \in Int /\ i - 1 \in 0..area * L - 1
      BY <1>3, <1>5
    <3>2. (i - 1) \div area \in 0..L - 1
      BY <1>3, <3>1, Division
    <3>3. ((i - 1) \div area) + 1 \in 1..L
      BY <1>3, <3>2
    <3> QED BY <3>3 DEF L
  <2>2. (i - 1) % area \in Nat /\ (i - 1) % area \in 0..area - 1
    <3> HIDE DEF area
    <3>1. i - 1 \in Int
      BY <1>5
    <3>2. (i - 1) % area \in 0..area - 1
      BY <1>3, <3>1, Division
    <3> QED BY <1>3, <3>2
  <2>3. start = (g.blend * area) * k + area * l /\ start \in Nat
    <3>1. g.blend * area \in Nat
      <4> HIDE DEF g, area
      <4> QED BY <1>2, <1>3, Products
    <3> DEFINE ga == g.blend * area
    <3> HIDE DEF l, area, g, ga
    <3>2. area * l \in Nat /\ ga * k \in Nat
      BY <1>3, <2>1, <3>1, Products DEF ga
    <3> QED BY <1>4, <3>2 DEF ga
  <2>4. pos \in Nat
    <3> HIDE DEF start
    <3> QED BY <2>2, <2>3
  <2>5. pos < N => e.sprites[pos + 1] \in Nat
    <3> HIDE DEF pos
    <3>1. ASSUME pos < N PROVE e.sprites[pos + 1] \in 0..Word - 1
      <4>1. pos + 1 \in 1..N
        <5> HIDE DEF N
        <5> QED BY <1>3, <2>4, <3>1
      <4>2. e.sprites \in Seq(0..Word - 1)
        BY <1>1
      <4> QED BY <4>1, <4>2, ElementOfSeq
    <3> QED BY <3>1, WidthsAssumption
  <2>6. SpriteAt(e, x, y, frame, layers, i)
          = IF start >= N THEN 0 ELSE IF pos >= N THEN Beyond ELSE e.sprites[pos + 1]
    BY DEF SpriteAt
  <2>7. Counted(g) /\ start < N => pos < N
    <3> SUFFICES ASSUME Counted(g), start < N PROVE pos < N
      OBVIOUS
    <3> DEFINE u == g.xdiv * g.ydiv * g.zdiv
               r == (i - 1) % area
               all == area * g.blend * u * g.anim
    <3>1. N = all
      BY <1>1, CountedCount
    <3>2. u \in Nat
      <4> HIDE DEF g
      <4>1. g.xdiv * g.ydiv \in Nat
        BY <1>2, Products
      <4> QED BY <1>2, <4>1, Products
    <3>3. (g.blend * area) * k + area * l < all
      <4> HIDE DEF N, start, all
      <4> QED BY <2>3, <3>1
    <3> HIDE DEF g, area, u, l, r
    <3>4. (g.blend * area) * k + area * l + r < area * g.blend * u * g.anim
      BY <1>2, <1>3, <1>4, <2>1, <2>2, <3>2, <3>3, Blocks DEF r
    <3>5. pos = (g.blend * area) * k + area * l + r
      BY <2>3 DEF r
    <3> QED BY <3>1, <3>4, <3>5
  <2> HIDE DEF start, pos, N
  <2>8. start \in Nat /\ pos \in Nat /\ N \in Nat
    BY <1>3, <2>3, <2>4
  <2> QED BY <2>5, <2>6, <2>7, <2>8 DEF Shown, g
<1>6. area * L \in Nat
  <2> HIDE DEF area, L
  <2> QED BY <1>3, Products
<1>7. DrawnSprites(e, x, y, frame, layers)
        = [i \in 1..area * L |-> SpriteAt(e, x, y, frame, layers, i)]
  BY DEF DrawnSprites
<1> HIDE DEF area, L
<1> QED BY <1>5, <1>6, <1>7

\* An entry that is found is one of the dataset.
LEMMA EntryFound ==
  ASSUME ItemsTypeOK, DatInv, NEW t \in Thing, HasEntry(t)
  PROVE  Whole(EntryOf(t)) /\ \E n \in 1..Len(entries) : EntryOf(t) = entries[n]
<1>1. /\ NItems \in 0..Word - 1 /\ NOutfits \in 0..Word - 1
      /\ NEntries \in Nat /\ NItems + NOutfits <= NEntries
  BY Sizes DEF DatInv, DatTypeOK
<1>2. FirstID \in Nat /\ Word \in Nat
  BY WidthsAssumption
<1>3. \A n \in 1..Len(entries) : Whole(entries[n])
  BY DEF DatInv, DatTypeOK, EntriesInv, Whole
<1>4. NoEntry.kind \notin Kind /\ OutOfRange.kind \notin Kind
  BY DEF NoEntry, OutOfRange, Kind
<1>5. EntryOf(t) # NoEntry /\ EntryOf(t) # OutOfRange
  BY <1>4 DEF HasEntry
<1>6. HasDataset /\ Len(entries) = NEntries
  BY <1>5 DEF EntryOf, HasDataset, DatInv, DatTypeOK
<1>7. CASE t.kind = "item"
  <2> DEFINE id == ThingsItem(t.id).dat
  <2>1. EntryOf(t) = DatItem(id)
    BY <1>5, <1>6, <1>7 DEF EntryOf
  <2>2. id \in Int
    <3>1. id \in ID
      BY ClientIDType
    <3>2. ID \subseteq Int
      BY ONLY DEF ID
    <3> HIDE DEF id
    <3> QED BY ONLY <3>1, <3>2
  <2> HIDE DEF id
  <2>3. /\ id >= FirstID /\ id - FirstID < NItems
        /\ DatItem(id) = entries[id - FirstID + 1]
    BY <1>1, <1>2, <1>5, <2>1, <2>2 DEF DatItem
  <2>4. id - FirstID + 1 \in 1..Len(entries)
    BY <1>1, <1>2, <1>6, <2>2, <2>3
  <2> QED BY <1>3, <2>1, <2>3, <2>4
<1>8. CASE t.kind # "item"
  <2>1. EntryOf(t) = Outfit(t.id) /\ t.id \in Nat
    BY <1>6, <1>8 DEF EntryOf, Thing
  <2>2. t.id # 0 /\ t.id < NOutfits + 1 /\ Outfit(t.id) = entries[NItems + t.id]
    BY <1>1, <1>5, <2>1 DEF Outfit
  <2>3. NItems + t.id \in 1..Len(entries)
    BY <1>1, <1>6, <2>1, <2>2
  <2> QED BY <1>3, <2>1, <2>2, <2>3
<1> QED BY <1>7, <1>8

\* What is drawn of a thing.
LEMMA FrameType ==
  ASSUME ItemsTypeOK, DatInv, NEW t \in Thing, HasEntry(t), NEW b \in Box, NEW i \in Nat
  PROVE  FrameOf(t, Visit(b, i)) \in Seq(Shown(EntryOf(t)))
<1> DEFINE e == EntryOf(t)
<1>1. Whole(e)
  BY EntryFound
<1>2. e.gfx.blend \in Nat /\ t.dir \in Nat
  <2>1. e.gfx \in Graphics
    BY <1>1 DEF Entry, Whole
  <2> QED BY <2>1, WidthsAssumption DEF Graphics, Thing
<1> HIDE DEF e
<1>3. CASE t.kind = "item"
  <2> DEFINE v == Visit(b, i)
  <2>1. v.pos[1] \in Nat /\ v.pos[2] \in Nat
    <3>1. v.pos \in Position
      BY VisitType
    <3> HIDE DEF v
    <3> QED BY <3>1, WidthsAssumption DEF Position
  <2>2. AllLayers(e.gfx) \in Seq(Nat)
    BY <1>2 DEF AllLayers
  <2>3. FrameOf(t, v) = DrawnSprites(e, v.pos[1], v.pos[2], 0, AllLayers(e.gfx))
    BY <1>3 DEF FrameOf, ItemFrame, e
  <2> DEFINE px == v.pos[1]
             py == v.pos[2]
             layers == AllLayers(e.gfx)
  <2>4. FrameOf(t, v) = DrawnSprites(e, px, py, 0, layers)
    BY <2>3
  <2>5. px \in Nat /\ py \in Nat /\ layers \in Seq(Nat)
    BY <2>1, <2>2
  <2> HIDE DEF px, py, layers, v
  <2>6. DrawnSprites(e, px, py, 0, layers) \in Seq(Shown(e))
    BY <1>1, <2>5, DrawnType
  <2> QED BY <2>4, <2>6 DEF v, e
<1>4. CASE t.kind # "item"
  <2> DEFINE one == DrawnSprites(e, t.dir, 0, 0, <<0>>)
             two == DrawnSprites(e, t.dir, 0, 0, <<1>>)
  <2>1. <<0>> \in Seq(Nat) /\ <<1>> \in Seq(Nat)
    OBVIOUS
  <2>2. one \in Seq(Shown(e))
    BY <1>1, <1>2, <2>1, DrawnType
  <2>3. two \in Seq(Shown(e))
    BY <1>1, <1>2, <2>1, DrawnType
  <2>4. FrameOf(t, Visit(b, i)) = IF e.gfx.blend = 1 THEN one ELSE one \o two
    BY <1>4 DEF FrameOf, CreatureFrame, e
  <2> HIDE DEF one, two
  <2>5. one \o two \in Seq(Shown(e))
    BY <2>2, <2>3, ConcatProperties
  <2> QED BY <2>2, <2>4, <2>5 DEF e
<1> QED BY <1>3, <1>4 DEF e

-----------------------------------------------------------------------------
(* The invariant.                                                          *)

\* The files as they were.
LEMMA FilesKept ==
  ASSUME ItemsTypeOK, DatInv, UNCHANGED filesVars
  PROVE  /\ ItemsTypeOK' /\ DatInv'
         /\ UNCHANGED <<datFile, program, things, spriteSet>> /\ HasDataset' = HasDataset
<1>0. UNCHANGED <<itemsVars, datVars, program, things, spriteSet>>
  BY DEF filesVars
<1>1. ItemsTypeOK'
  BY <1>0 DEF ItemsTypeOK, itemsVars
<1>2. /\ UNCHANGED <<datFile, header, entries, options>>
      /\ NItems' = NItems /\ NOutfits' = NOutfits /\ NEntries' = NEntries
  BY <1>0 DEF datVars, NItems, NOutfits, NEntries
<1>3. DatTypeOK'
  BY <1>2 DEF DatInv, DatTypeOK
<1>4. \A n : KindAt(n)' = KindAt(n) /\ IdAt(n)' = IdAt(n)
  BY <1>2 DEF KindAt, IdAt
<1>5. EntriesInv'
  BY <1>2, <1>4 DEF DatInv, EntriesInv
<1>6. HasDataset' = HasDataset
  BY <1>0, <1>2 DEF HasDataset
<1> QED BY <1>0, <1>1, <1>2, <1>3, <1>5, <1>6 DEF DatInv

\* At the start there is nothing to draw and nobody draws.
LEMMA InitDraws == Init => DrawInv
<1> SUFFICES ASSUME Init PROVE DrawInv
  OBVIOUS
<1>1. ItemsTypeOK
  BY DEF Init, ItemsInit, ItemsTypeOK
<1>2. DatTypeOK /\ EntriesInv
  BY WidthsAssumption DEF Init, DatInit, NoHeader, DatTypeOK, EntriesInv, Header
<1>3. TypeOK
  <2>1. /\ at \in [Drawers -> {"idle", "drawing", "find", "read", "done", "panicked",
                              "spinning", "stuck"}]
        /\ queue \in [Drawers -> Seq(Thing)]
        /\ sprites \in [Drawers -> Seq(Nat \cup {Beyond})]
        /\ painted \in [Drawers -> Seq(Painting)]
    BY DEF Init
  <2> QED BY <1>1, <1>2, <2>1 DEF Init, TypeOK
<1>4. OneReader /\ ReaderInv /\ FilesInv
  BY DrawersAssumption DEF Init, OneReader, ReaderInv, FilesInv
<1>5. SpritesAsAsked
  BY DEF Init, SpritesAsAsked
<1> QED BY <1>2, <1>3, <1>4, <1>5 DEF DrawInv, DrawingInv

\* While the files are read nobody draws.
LEMMA LoadDraws == ASSUME DrawInv, Load PROVE DrawInv'
<1>1. /\ UNCHANGED <<program, world, at, box, visited, queue, sprites, mapHolder, holder,
                     reader, painted>>
      /\ ItemsTypeOK /\ DatInv
  BY DEF Load, drawVars, DrawInv, DrawingInv, TypeOK, DatInv
<1>2. /\ program \in {"server", "tool"} /\ spriteSet \in BOOLEAN
      /\ things \in {"items", "dat", "spr"}
  BY DEF Load, LoadItems, LoadDat, LoadSprites, DrawInv, DrawingInv, TypeOK, FilesInv
<1>3. \A d \in Drawers : at[d] = "idle"
  BY <1>2 DEF DrawInv, FilesInv
<1>4. \A file, next :
        next \in {"dat", "spr"} =>
          After(file, next) \in {"items", "dat", "spr", "nil"}
  BY <1>2 DEF After
<1>5. /\ ItemsTypeOK' /\ DatInv' /\ spriteSet' \in BOOLEAN
      /\ things' \in {"items", "dat", "spr", "ready", "nil"}
  <2>1. ASSUME UNCHANGED datVars PROVE DatInv' /\ datFile' = datFile
    <3>2. /\ UNCHANGED <<datFile, header, entries, options>>
          /\ NItems' = NItems /\ NOutfits' = NOutfits /\ NEntries' = NEntries
      BY <2>1 DEF datVars, NItems, NOutfits, NEntries
    <3>3. DatTypeOK'
      BY <1>1, <3>2 DEF DatInv, DatTypeOK
    <3>4. \A n : KindAt(n)' = KindAt(n) /\ IdAt(n)' = IdAt(n)
      BY <3>2 DEF KindAt, IdAt
    <3>5. EntriesInv'
      BY <1>1, <3>2, <3>4 DEF DatInv, EntriesInv
    <3> QED BY <3>2, <3>3, <3>5 DEF DatInv
  <2>2. ASSUME UNCHANGED itemsVars PROVE ItemsTypeOK'
    BY <1>1, <2>2 DEF ItemsTypeOK, itemsVars
  <2>3. CASE LoadItems
    <3>1. /\ UNCHANGED datVars /\ UNCHANGED spriteSet
          /\ ItemsNext \/ UNCHANGED itemsVars
          /\ things' \in {"items", "dat", "spr", "nil"}
      BY <1>4, <2>3 DEF LoadItems
    <3> QED BY <1>1, <1>2, <2>1, <2>2, <3>1, ItemsStep
  <2>4. CASE LoadDat
    <3>1. /\ UNCHANGED itemsVars /\ UNCHANGED spriteSet /\ DatNext
          /\ things' \in {"items", "dat", "spr", "nil"}
      BY <1>4, <2>4 DEF LoadDat
    <3> QED BY <1>1, <1>2, <2>2, <3>1, DatStep
  <2>5. CASE LoadSprites
    <3>1. /\ UNCHANGED itemsVars /\ UNCHANGED datVars /\ spriteSet' \in BOOLEAN
          /\ things = "spr" /\ things' \in {"ready", "nil"}
      BY <1>2, <2>5 DEF LoadSprites
    <3> QED BY <2>1, <2>2, <3>1
  <2> QED BY <2>3, <2>4, <2>5 DEF Load
<1>6. FilesInv'
  BY <1>1, <1>3 DEF FilesInv
<1>7. TypeOK'
  BY <1>1, <1>2, <1>5 DEF DrawInv, DrawingInv, TypeOK, DatInv
<1>8. OneReader' /\ ReaderInv' /\ SpritesAsAsked'
  BY <1>1 DEF DrawInv, DrawingInv, OneReader, ReaderInv, SpritesAsAsked
<1> QED BY <1>5, <1>6, <1>7, <1>8 DEF DrawInv, DrawingInv, DatInv

\* The parts of the invariant.
LEMMA Parts ==
  ASSUME DrawInv
  PROVE  /\ ItemsTypeOK /\ DatInv /\ TypeOK /\ OneReader /\ ReaderInv /\ FilesInv
         /\ SpritesAsAsked
         /\ box \in [Drawers -> Box]
BY BoxesAssumption DEF DrawInv, DrawingInv, TypeOK, DatInv

\* A step of a drawer keeps the invariant if it keeps the files, the types, and
\* what readers and paintings are like.
LEMMA PartsBack ==
  ASSUME DrawInv, UNCHANGED <<filesVars, world, box, mapHolder>>,
         visited' \in [Drawers -> Nat],
         queue' \in [Drawers -> Seq(Thing)],
         at' \in [Drawers -> {"idle", "drawing", "find", "read", "done", "panicked",
                              "spinning", "stuck"}],
         sprites' \in [Drawers -> Seq(Nat \cup {Beyond})],
         holder' \in Drawers \cup {Nobody}, reader' \in Nat,
         painted' \in [Drawers -> Seq(Painting)],
         \A c \in Drawers : at'[c] # "idle" => at[c] # "idle",
         OneReader', ReaderInv', SpritesAsAsked'
  PROVE  DrawInv'
<1>1. /\ ItemsTypeOK' /\ DatInv'
      /\ UNCHANGED <<program, things, spriteSet>> /\ HasDataset' = HasDataset
  BY Parts, FilesKept
<1>2. world' = world /\ box' = box /\ mapHolder' = mapHolder
  OBVIOUS
<1>3. FilesInv'
  BY <1>1, Parts DEF FilesInv
<1>4. TypeOK'
  BY <1>1, <1>2, Parts DEF TypeOK, DatInv
<1> QED BY <1>1, <1>3, <1>4 DEF DrawInv, DrawingInv, DatInv

\* A request is begun.
LEMMA StartDraws ==
  ASSUME DrawInv, NEW d \in Drawers, StartDrawing(d) PROVE DrawInv'
<1> USE Parts
<1>1. /\ at[d] = "idle" /\ things \in {"ready", "nil"}
      /\ program = "server" => HasDataset /\ spriteSet
      /\ at' = [at EXCEPT ![d] = "drawing"]
      /\ UNCHANGED filesVars
      /\ UNCHANGED <<world, box, visited, queue, sprites, mapHolder, holder, reader,
                     painted>>
  BY DEF StartDrawing, HasDataset
<1>2. /\ ItemsTypeOK' /\ DatInv'
      /\ UNCHANGED <<program, things, spriteSet>> /\ HasDataset' = HasDataset
  BY <1>1, FilesKept
<1>3. TypeOK'
  BY <1>1, <1>2 DEF TypeOK, DatInv
<1>4. FilesInv'
  BY <1>1, <1>2 DEF FilesInv
<1>5. OneReader' /\ ReaderInv'
  BY <1>1 DEF OneReader, ReaderInv, TypeOK
<1>6. SpritesAsAsked'
  BY <1>1 DEF SpritesAsAsked
<1> QED BY <1>2, <1>3, <1>4, <1>5, <1>6 DEF DrawInv, DrawingInv, DatInv

\* The next tile is gone to, or never got.
LEMMA NextTileDraws ==
  ASSUME DrawInv, NEW d \in Drawers, NextTile(d) PROVE DrawInv'
<1> USE Parts
<1>1. /\ at[d] = "drawing"
      /\ UNCHANGED filesVars
      /\ UNCHANGED <<world, box, sprites, holder, reader, painted>>
  BY DEF NextTile
<1>2. /\ ItemsTypeOK' /\ DatInv'
      /\ UNCHANGED <<program, things, spriteSet>> /\ HasDataset' = HasDataset
  BY <1>1, FilesKept
<1>3. /\ visited' \in [Drawers -> Nat] /\ queue' \in [Drawers -> Seq(Thing)]
      /\ mapHolder' \in Drawers \cup {Nobody}
      /\ at' = at \/ at' = [at EXCEPT ![d] = "stuck"]
  <2> DEFINE v == Visit(box[d], visited[d] + 1)
             new == IF Decorated(box[d], v) THEN Append(TileAt(v.pos), Decoration)
                    ELSE TileAt(v.pos)
  <2>1. new \in Seq(Thing)
    BY TileType DEF TypeOK
  <2>2. \/ mapHolder' = d /\ at' = [at EXCEPT ![d] = "stuck"] /\ UNCHANGED <<visited, queue>>
        \/ /\ visited' = [visited EXCEPT ![d] = @ + 1]
           /\ queue' = [queue EXCEPT ![d] = new]
           /\ UNCHANGED <<mapHolder, at>>
    <3>1. IF v.pos \in Peopled
          THEN /\ mapHolder' = d
               /\ at' = [at EXCEPT ![d] = "stuck"]
               /\ UNCHANGED <<visited, queue>>
          ELSE /\ visited' = [visited EXCEPT ![d] = @ + 1]
               /\ queue' = [queue EXCEPT ![d] = new]
               /\ UNCHANGED <<mapHolder, at>>
      BY Zenon DEF NextTile
    <3> HIDE DEF v, new
    <3>2. CASE v.pos \in Peopled
      BY ONLY <3>1, <3>2
    <3>3. CASE v.pos \notin Peopled
      BY ONLY <3>1, <3>3
    <3> QED BY ONLY <3>2, <3>3
  <2> HIDE DEF new, v
  <2>3. /\ visited \in [Drawers -> Nat] /\ queue \in [Drawers -> Seq(Thing)]
        /\ mapHolder \in Drawers \cup {Nobody}
    BY DEF TypeOK
  <2>4. /\ [visited EXCEPT ![d] = @ + 1] \in [Drawers -> Nat]
        /\ [queue EXCEPT ![d] = new] \in [Drawers -> Seq(Thing)]
    BY <2>1, <2>3
  <2>5. CASE mapHolder' = d /\ at' = [at EXCEPT ![d] = "stuck"] /\ UNCHANGED <<visited, queue>>
    BY <2>3, <2>5
  <2>6. CASE /\ visited' = [visited EXCEPT ![d] = @ + 1]
             /\ queue' = [queue EXCEPT ![d] = new]
             /\ UNCHANGED <<mapHolder, at>>
    BY <2>3, <2>4, <2>6
  <2> QED BY <2>2, <2>5, <2>6
<1>4. /\ at' \in [Drawers -> {"idle", "drawing", "find", "read", "done", "panicked",
                              "spinning", "stuck"}]
      /\ \A c \in Drawers : at'[c] = at[c] \/ (at[c] = "drawing" /\ at'[c] = "stuck")
  BY <1>1, <1>3 DEF TypeOK
<1>5. TypeOK'
  BY <1>1, <1>2, <1>3, <1>4 DEF TypeOK, DatInv
<1>6. FilesInv'
  BY <1>2, <1>4 DEF FilesInv
<1>7. OneReader' /\ ReaderInv'
  BY <1>1, <1>4 DEF OneReader, ReaderInv
<1>8. SpritesAsAsked'
  BY <1>1 DEF SpritesAsAsked
<1> QED BY <1>2, <1>5, <1>6, <1>7, <1>8 DEF DrawInv, DrawingInv, DatInv

\* A picture is finished.
LEMMA FinishDraws ==
  ASSUME DrawInv, NEW d \in Drawers, Finish(d) PROVE DrawInv'
<1> USE Parts
<1>1. /\ at[d] = "drawing" /\ at' = [at EXCEPT ![d] = "done"]
      /\ UNCHANGED <<filesVars, world, box, mapHolder>>
      /\ UNCHANGED <<visited, queue, sprites, holder, reader, painted>>
  BY DEF Finish
<1>2. OneReader' /\ ReaderInv'
  BY <1>1 DEF OneReader, ReaderInv, TypeOK
<1>3. SpritesAsAsked'
  BY <1>1 DEF SpritesAsAsked
<1> QED BY <1>1, <1>2, <1>3, PartsBack DEF TypeOK

\* A thing is drawn, left out, or the end of it.
LEMMA ThingDraws ==
  ASSUME DrawInv, NEW d \in Drawers, DrawThing(d) PROVE DrawInv'
<1> USE Parts
<1> DEFINE t == Head(queue[d])
<1>1. /\ at[d] = "drawing" /\ queue[d] # <<>>
      /\ UNCHANGED <<filesVars, world, box, mapHolder>>
      /\ UNCHANGED <<visited, holder, reader, painted>>
  BY DEF DrawThing
<1>2. t \in Thing /\ Tail(queue[d]) \in Seq(Thing)
  <2>1. queue[d] \in Seq(Thing)
    BY DEF TypeOK
  <2> QED BY <1>1, <2>1, Rest
<1>3. HasEntry(t) => FrameOf(t, Here(d)) \in Seq(Nat \cup {Beyond})
  <2>1. box[d] \in Box /\ visited[d] \in Nat
    BY DEF TypeOK
  <2> HIDE DEF t
  <2>2. HasEntry(t) => FrameOf(t, Here(d)) \in Seq(Shown(EntryOf(t)))
    BY <1>2, <2>1, FrameType DEF Here
  <2>3. Shown(EntryOf(t)) \subseteq Nat \cup {Beyond}
    BY DEF Shown
  <2> QED BY <2>2, <2>3, Wider
<1>4. /\ queue' \in {queue, [queue EXCEPT ![d] = Tail(@)]}
      /\ \/ sprites' = sprites
         \/ HasEntry(t) /\ sprites' = [sprites EXCEPT ![d] = FrameOf(t, Here(d))]
      /\ at' = at \/ at' = [at EXCEPT ![d] = "spinning"]
           \/ at' = [at EXCEPT ![d] = "panicked"]
  BY DEF DrawThing
<1> HIDE DEF t
<1>5. queue' \in [Drawers -> Seq(Thing)] /\ sprites' \in [Drawers -> Seq(Nat \cup {Beyond})]
  <2>1. queue \in [Drawers -> Seq(Thing)] /\ sprites \in [Drawers -> Seq(Nat \cup {Beyond})]
    BY DEF TypeOK
  <2> QED BY ONLY <1>2, <1>3, <1>4, <2>1
<1>6. /\ at' \in [Drawers -> {"idle", "drawing", "find", "read", "done", "panicked",
                              "spinning", "stuck"}]
      /\ \A c \in Drawers :
           at'[c] = at[c] \/ (at[c] = "drawing" /\ at'[c] \in {"spinning", "panicked"})
  BY <1>1, <1>4 DEF TypeOK
<1>7. \A c \in Drawers : at'[c] \in {"find", "read"} => sprites'[c] = sprites[c]
  BY <1>1, <1>4, <1>6 DEF TypeOK
<1>8. OneReader'
  BY <1>1, <1>6 DEF OneReader
<1>9. ReaderInv'
  BY <1>1, <1>6, <1>7 DEF ReaderInv
<1>10. SpritesAsAsked'
  BY <1>1 DEF SpritesAsAsked
<1> QED BY <1>1, <1>5, <1>6, <1>8, <1>9, <1>10, PartsBack DEF TypeOK

\* No sprite is to be painted, or one that is not there.
LEMMA NoSpriteDraws ==
  ASSUME DrawInv, NEW d \in Drawers, NoSprite(d) PROVE DrawInv'
<1> USE Parts
<1>1. /\ at[d] = "drawing" /\ sprites[d] # <<>>
      /\ UNCHANGED <<filesVars, world, box, mapHolder>>
      /\ UNCHANGED <<visited, queue, holder, reader, painted>>
      /\ \/ sprites' = [sprites EXCEPT ![d] = Tail(@)] /\ at' = at
         \/ at' = [at EXCEPT ![d] = "panicked"] /\ sprites' = sprites
  BY DEF NoSprite
<1>2. Tail(sprites[d]) \in Seq(Nat \cup {Beyond})
  <2>1. sprites[d] \in Seq(Nat \cup {Beyond})
    BY DEF TypeOK
  <2> QED BY <1>1, <2>1, Rest
<1>3. sprites' \in [Drawers -> Seq(Nat \cup {Beyond})]
  BY <1>1, <1>2 DEF TypeOK
<1>4. /\ at' \in [Drawers -> {"idle", "drawing", "find", "read", "done", "panicked",
                              "spinning", "stuck"}]
      /\ \A c \in Drawers :
           at'[c] = at[c] \/ (at[c] = "drawing" /\ at'[c] = "panicked")
  BY <1>1 DEF TypeOK
<1>5. \A c \in Drawers : at'[c] \in {"find", "read"} => sprites'[c] = sprites[c]
  BY <1>1, <1>4 DEF TypeOK
<1>6. OneReader'
  BY <1>1, <1>4 DEF OneReader
<1>7. ReaderInv'
  BY <1>1, <1>4, <1>5 DEF ReaderInv
<1>8. SpritesAsAsked'
  BY <1>1 DEF SpritesAsAsked
<1> QED BY <1>1, <1>3, <1>4, <1>6, <1>7, <1>8, PartsBack DEF TypeOK

\* There are no sprites at all.
LEMMA NoSpriteSetDraws ==
  ASSUME DrawInv, NEW d \in Drawers, NoSpriteSet(d) PROVE DrawInv'
<1> USE Parts
<1>1. /\ at[d] = "drawing" /\ at' = [at EXCEPT ![d] = "panicked"]
      /\ UNCHANGED <<filesVars, world, box, mapHolder>>
      /\ UNCHANGED <<visited, queue, sprites, holder, reader, painted>>
  BY DEF NoSpriteSet
<1>2. OneReader' /\ ReaderInv'
  BY <1>1 DEF OneReader, ReaderInv, TypeOK
<1>3. SpritesAsAsked'
  BY <1>1 DEF SpritesAsAsked
<1> QED BY <1>1, <1>2, <1>3, PartsBack DEF TypeOK

\* The lock is taken, and the reader put at the start.
LEMMA LockDraws ==
  ASSUME DrawInv, NEW d \in Drawers, LockSprites(d) PROVE DrawInv'
<1> USE Parts
<1>1. /\ at[d] = "drawing" /\ sprites[d] # <<>> /\ Head(sprites[d]) > 0
      /\ holder = Nobody /\ holder' = d /\ reader' = 0
      /\ at' = [at EXCEPT ![d] = "find"]
      /\ UNCHANGED <<filesVars, world, box, mapHolder>>
      /\ UNCHANGED <<visited, queue, sprites, painted>>
  BY DEF LockSprites
<1>2. \A c \in Drawers : at[c] \notin {"find", "read"}
  BY <1>1, DrawersAssumption DEF OneReader
<1>3. \A c \in Drawers : at'[c] = IF c = d THEN "find" ELSE at[c]
  BY <1>1 DEF TypeOK
<1>4. OneReader'
  BY <1>1, <1>2, <1>3 DEF OneReader
<1>5. ReaderInv'
  BY <1>1, <1>2, <1>3 DEF ReaderInv
<1>6. SpritesAsAsked'
  BY <1>1 DEF SpritesAsAsked
<1> QED BY <1>1, <1>3, <1>4, <1>5, <1>6, PartsBack DEF TypeOK

\* The sprite that was asked for is painted, or left out for a reason, and the
\* lock given back.
LEMMA PaintDraws ==
  ASSUME DrawInv, NEW d \in Drawers, at[d] \in {"find", "read"}, NEW got \in Nat,
         Paint(d, got), holder' = Nobody, reader' = reader,
         got = IF Head(sprites[d]) >= NSprites \/ Head(sprites[d]) \in Unreadable THEN 0
               ELSE Head(sprites[d]),
         UNCHANGED <<filesVars, world, box, visited, queue, mapHolder>>
  PROVE  DrawInv'
<1> USE Parts
<1> DEFINE h == Head(sprites[d])
           p == [pos |-> Here(d).pos, cell |-> Here(d).cell, asked |-> h, got |-> got]
<1>1. /\ painted' = [painted EXCEPT ![d] = Append(@, p)]
      /\ sprites' = [sprites EXCEPT ![d] = Tail(@)]
      /\ at' = [at EXCEPT ![d] = "drawing"]
      /\ UNCHANGED <<filesVars, world, box, mapHolder>>
      /\ UNCHANGED <<visited, queue>>
  BY DEF Paint
<1>2. sprites[d] # <<>> /\ h > 0
  BY DEF ReaderInv
<1>3. h \in Nat /\ Tail(sprites[d]) \in Seq(Nat \cup {Beyond})
  <2>1. sprites[d] \in Seq(Nat \cup {Beyond})
    BY DEF TypeOK
  <2>2. h \in Nat \cup {Beyond} /\ Tail(sprites[d]) \in Seq(Nat \cup {Beyond})
    BY <1>2, <2>1, Rest
  <2> QED BY <1>2, <2>2 DEF Beyond
<1>4. p \in Painting
  <2>1. box[d] \in Box /\ visited[d] \in Nat
    BY DEF TypeOK
  <2>2. Here(d).pos \in Position /\ Here(d).cell \in Int \X Int
    BY <2>1, VisitType DEF Here
  <2> QED BY <1>3, <2>2 DEF Painting
<1>5. p.asked = h /\ p.got = got
  OBVIOUS
<1> HIDE DEF p
<1>6. /\ painted' \in [Drawers -> Seq(Painting)]
      /\ \A c \in Drawers : \A i \in 1..Len(painted'[c]) :
           \/ i \in 1..Len(painted[c]) /\ painted'[c][i] = painted[c][i]
           \/ painted'[c][i] = p
  <2>1. \A c \in Drawers : painted[c] \in Seq(Painting)
    BY DEF TypeOK
  <2>2. /\ Append(painted[d], p) \in Seq(Painting)
        /\ \A i \in 1..Len(Append(painted[d], p)) :
             \/ i \in 1..Len(painted[d]) /\ Append(painted[d], p)[i] = painted[d][i]
             \/ Append(painted[d], p)[i] = p
    <3>1. painted[d] \in Seq(Painting)
      BY <2>1
    <3> QED BY <1>4, <3>1, AppendTypes
  <2>3. \A c \in Drawers :
          painted'[c] = IF c = d THEN Append(painted[d], p) ELSE painted[c]
    BY <1>1 DEF TypeOK
  <2>4. painted' \in [Drawers -> Seq(Painting)]
    BY <1>1, <2>1, <2>2 DEF TypeOK
  <2> QED BY <2>2, <2>3, <2>4
<1>7. SpritesAsAsked'
  <2>1. SpritesAsAsked /\ p.got = IF p.asked >= NSprites \/ p.asked \in Unreadable THEN 0
                                   ELSE p.asked
    BY <1>5
  <2> DEFINE Right(r) == r.got = IF r.asked >= NSprites \/ r.asked \in Unreadable THEN 0
                                 ELSE r.asked
  <2>2. Right(p) /\ \A c \in Drawers : \A i \in 1..Len(painted[c]) : Right(painted[c][i])
    BY <2>1 DEF SpritesAsAsked
  <2>3. SpritesAsAsked'
          <=> \A c \in Drawers : \A i \in 1..Len(painted'[c]) : Right(painted'[c][i])
    BY DEF SpritesAsAsked
  <2> HIDE DEF Right
  <2> QED BY ONLY <1>6, <2>2, <2>3
<1>8. sprites' \in [Drawers -> Seq(Nat \cup {Beyond})]
  <2> DEFINE S == Seq(Nat \cup {Beyond})
             rest == Tail(sprites[d])
  <2>1. sprites \in [Drawers -> S] /\ rest \in S
    BY <1>3 DEF TypeOK
  <2>2. sprites' = [sprites EXCEPT ![d] = rest]
    BY <1>1
  <2> HIDE DEF S, rest
  <2>3. sprites' \in [Drawers -> S]
    BY ONLY <2>1, <2>2
  <2> QED BY <2>3 DEF S
<1>9. \A c \in Drawers : at'[c] = IF c = d THEN "drawing" ELSE at[c]
  BY <1>1 DEF TypeOK
<1>10. \A c \in Drawers : at'[c] \notin {"find", "read"}
  BY <1>9 DEF OneReader
<1>11. OneReader' /\ ReaderInv'
  BY <1>10, DrawersAssumption DEF OneReader, ReaderInv
<1>12. at' \in [Drawers -> {"idle", "drawing", "find", "read", "done", "panicked",
                            "spinning", "stuck"}]
  BY <1>1 DEF TypeOK
<1> QED BY <1>1, <1>6, <1>7, <1>8, <1>9, <1>11, <1>12, PartsBack DEF TypeOK

\* The sprite is looked for.
LEMMA FindDraws ==
  ASSUME DrawInv, NEW d \in Drawers, FindSprite(d) PROVE DrawInv'
<1> USE Parts
<1> DEFINE h == Head(sprites[d])
<1>1. /\ at[d] = "find"
      /\ UNCHANGED <<filesVars, world, box, visited, queue, mapHolder>>
      /\ sprites[d] # <<>> /\ h > 0 /\ reader = 0 /\ holder = d
  BY DEF FindSprite, ReaderInv, OneReader
<1>2. CASE h >= NSprites
  <2>1. Paint(d, 0) /\ holder' = Nobody /\ reader' = reader
    BY <1>2 DEF FindSprite
  <2> QED BY <1>1, <1>2, <2>1, PaintDraws
<1>3. CASE ~ h >= NSprites
  <2>1. /\ reader' = h /\ at' = [at EXCEPT ![d] = "read"]
        /\ UNCHANGED <<sprites, painted, holder, visited, queue>>
    <3>1. h \in Int
      <4>1. sprites[d] \in Seq(Nat \cup {Beyond})
        BY DEF TypeOK
      <4>2. h \in Nat \cup {Beyond}
        BY <1>1, <4>1, Rest
      <4> QED BY <4>2 DEF Beyond
    <3> HIDE DEF h
    <3>2. reader' = reader + h
      BY <1>3 DEF FindSprite, h
    <3> QED BY <1>1, <1>3, <3>1, <3>2 DEF FindSprite, h
  <2>2. h \in Nat
    <3>1. sprites[d] \in Seq(Nat \cup {Beyond})
      BY DEF TypeOK
    <3>2. h \in Nat \cup {Beyond}
      BY <1>1, <3>1, Rest
    <3> QED BY <1>1, <3>2 DEF Beyond
  <2>3. \A c \in Drawers : at'[c] = IF c = d THEN "read" ELSE at[c]
    BY <2>1 DEF TypeOK
  <2>4. \A c \in Drawers : c # d => at[c] \notin {"find", "read"}
    BY <1>1 DEF OneReader
  <2>5. OneReader'
    BY <1>1, <2>1, <2>3 DEF OneReader
  <2>6. h < NSprites
    BY <1>3, <2>2, SpriteFileAssumption
  <2>7. ReaderInv'
    BY <1>1, <2>1, <2>3, <2>4, <2>6 DEF ReaderInv
  <2>8. SpritesAsAsked'
    BY <2>1 DEF SpritesAsAsked
  <2>9. at' \in [Drawers -> {"idle", "drawing", "find", "read", "done", "panicked",
                             "spinning", "stuck"}]
    BY <2>1 DEF TypeOK
  <2> HIDE DEF h
  <2> QED BY <1>1, <2>1, <2>2, <2>3, <2>5, <2>7, <2>8, <2>9, PartsBack DEF TypeOK
<1> QED BY <1>2, <1>3

\* The sprite is read.
LEMMA ReadDraws ==
  ASSUME DrawInv, NEW d \in Drawers, ReadSprite(d) PROVE DrawInv'
<1> USE Parts
<1>1. /\ at[d] = "read" /\ holder' = Nobody /\ reader' = reader
      /\ UNCHANGED <<filesVars, world, box, visited, queue, mapHolder>>
      /\ Paint(d, IF reader \in Unreadable THEN 0 ELSE reader)
  BY DEF ReadSprite
<1>2. reader = Head(sprites[d]) /\ Head(sprites[d]) < NSprites /\ reader \in Nat
  BY <1>1 DEF ReaderInv, TypeOK
<1> DEFINE got == IF reader \in Unreadable THEN 0 ELSE reader
<1>3. /\ got \in Nat
      /\ got = IF Head(sprites[d]) >= NSprites \/ Head(sprites[d]) \in Unreadable THEN 0
               ELSE Head(sprites[d])
  BY <1>2, SpriteFileAssumption
<1> HIDE DEF got
<1> QED BY <1>1, <1>3, PaintDraws DEF got

\* Every step keeps the invariant.
LEMMA StepDraws == DrawInv /\ [Next]_vars => DrawInv'
<1> SUFFICES ASSUME DrawInv, [Next]_vars PROVE DrawInv'
  OBVIOUS
<1>1. CASE Load
  BY <1>1, LoadDraws
<1>2. ASSUME NEW d \in Drawers, StartDrawing(d) PROVE DrawInv'
  BY <1>2, StartDraws
<1>3. ASSUME NEW d \in Drawers, Draw(d) PROVE DrawInv'
  BY <1>3, NextTileDraws, ThingDraws, NoSpriteDraws, NoSpriteSetDraws, LockDraws,
     FindDraws, ReadDraws, FinishDraws DEF Draw
<1>4. CASE UNCHANGED vars
  <2>1. /\ UNCHANGED <<filesVars, world, box, mapHolder>>
        /\ UNCHANGED <<at, visited, queue, sprites, holder, reader, painted>>
    BY <1>4 DEF vars, drawVars
  <2>2. OneReader' /\ ReaderInv' /\ SpritesAsAsked'
    BY <2>1, Parts DEF OneReader, ReaderInv, SpritesAsAsked
  <2> QED BY <2>1, <2>2, Parts, PartsBack DEF TypeOK
<1> QED BY <1>1, <1>2, <1>3, <1>4 DEF Next

\* The inductive invariant of drawing.
THEOREM DrawInvariant == Spec => []DrawInv
BY InitDraws, StepDraws, PTL DEF Spec

\* However many requests overlap, on whatever files and map, what they share
\* and what they have keeps its types, at most one of them reads the sprite
\* file at a time and it is the one with the lock, and what is painted is the
\* sprite that was asked for (spr/spr.go:29-43).
THEOREM DrawsAsAsked == Spec => []DrawingInv
<1>1. DrawInv => DrawingInv
  BY DEF DrawInv
<1> QED BY <1>1, DrawInvariant, PTL

\* For every header, and every number of things of each kind, a dataset that
\* has been loaded answers Item and Outfit with the entry of that identifier;
\* only the identifier behind the last item is out of range
\* (dat/dat.go:526-553).
THEOREM LookupsRight == Spec => []LookupsInRange
<1>1. DrawInv => LookupsInRange
  BY InRange, Parts
<1> QED BY <1>1, DrawInvariant, PTL

\* For every graphics specification whose products of bytes do not wrap,
\* load780plus reads all the sprites that compositeGfx looks at, for every
\* variant, frame and layer (dat/dat.go:988-991,
\* things/compositor.go:264-286).
THEOREM SpritesThere == Spec => []SpritesSuffice
<1>1. DrawInv => SpritesSuffice
  BY Suffice, Parts
<1> QED BY <1>1, DrawInvariant, PTL

-----------------------------------------------------------------------------
(* The picture.                                                            *)

\* What was painted belongs to the first n tiles, from the lowest floor upwards.
Pictured(b, n, s) ==
  /\ \A i \in 1..Len(s) : \E v \in 1..n :
       s[i].pos = Visit(b, v).pos /\ s[i].cell = Visit(b, v).cell
  /\ \A i, j \in 1..Len(s) : i < j => s[i].pos[3] >= s[j].pos[3]

\* Nothing is drawn before a tile is come to.
PictureInv ==
  \A d \in Drawers :
    /\ queue[d] # <<>> \/ sprites[d] # <<>> => visited[d] # 0
    /\ Pictured(box[d], visited[d], painted[d])

\* A painting on the last of the tiles is on top of the others.
LEMMA PaintsOnTop ==
  ASSUME NEW b \in Box, NEW n \in Nat \ {0}, NEW s \in Seq(Painting), Pictured(b, n, s),
         NEW p \in Painting, p.pos = Visit(b, n).pos, p.cell = Visit(b, n).cell
  PROVE  Pictured(b, n, Append(s, p))
<1> DEFINE t == Append(s, p)
           L == Len(s)
<1>1. /\ L \in Nat /\ Len(t) = L + 1 /\ t[L + 1] = p
      /\ \A i \in 1..L : t[i] = s[i]
      /\ \A i \in 1..L + 1 : i \in 1..L \/ i = L + 1
  BY AppendTypes
<1>2. n \in 1..n
  OBVIOUS
<1>3. \A i \in 1..L : \E v \in 1..n :
        s[i].pos = Visit(b, v).pos /\ s[i].cell = Visit(b, v).cell
  BY DEF Pictured
<1>4. \A i, j \in 1..L : i < j => s[i].pos[3] >= s[j].pos[3]
  BY DEF Pictured
<1>5. \A i \in 1..L : s[i].pos[3] >= p.pos[3]
  <2> TAKE i \in 1..L
  <2>1. PICK v \in 1..n : s[i].pos = Visit(b, v).pos
    BY <1>3
  <2>2. v \in Nat /\ v <= n
    OBVIOUS
  <2>3. Visit(b, v).pos[3] >= Visit(b, n).pos[3]
    BY <2>2, VisitsRise
  <2> QED BY <2>1, <2>3
<1> HIDE DEF t, L
<1>6. \A i \in 1..L + 1 : \E v \in 1..n :
        t[i].pos = Visit(b, v).pos /\ t[i].cell = Visit(b, v).cell
  BY <1>1, <1>2, <1>3
<1>7. \A i, j \in 1..L + 1 : i < j => t[i].pos[3] >= t[j].pos[3]
  <2> TAKE i, j \in 1..L + 1
  <2>1. CASE i \in 1..L /\ j \in 1..L
    BY <1>1, <1>4, <2>1
  <2>2. CASE i \in 1..L /\ j = L + 1
    BY <1>1, <1>5, <2>2
  <2>3. CASE i = L + 1
    BY <1>1, <2>3
  <2> QED BY <1>1, <2>1, <2>2, <2>3
<1>8. Pictured(b, n, t)
  BY <1>1, <1>6, <1>7 DEF Pictured
<1> QED BY <1>8 DEF t

\* Nothing is painted.
LEMMA PictureKept ==
  ASSUME PictureInv, visited \in [Drawers -> Nat], visited' \in [Drawers -> Nat],
         UNCHANGED <<box, painted>>,
         \A c \in Drawers :
           /\ visited'[c] >= visited[c]
           /\ queue'[c] # <<>> \/ sprites'[c] # <<>> => visited'[c] # 0
  PROVE  PictureInv'
<1> SUFFICES ASSUME NEW c \in Drawers PROVE Pictured(box'[c], visited'[c], painted'[c])
  BY DEF PictureInv, Pictured
<1> DEFINE n == visited[c] m == visited'[c]
<1>1. Pictured(box[c], n, painted[c]) /\ n \in Nat /\ m \in Nat /\ n <= m
  BY DEF PictureInv
<1> HIDE DEF n, m
<1>2. 1..n \subseteq 1..m
  BY <1>1
<1>3. Pictured(box[c], m, painted[c])
  BY <1>1, <1>2 DEF Pictured
<1> QED BY <1>3 DEF m

\* A sprite is painted, or left out.
LEMMA PicturePaints ==
  ASSUME DrawInv, PictureInv, NEW d \in Drawers, at[d] \in {"find", "read"},
         NEW got \in Nat, Paint(d, got), UNCHANGED <<box, visited, queue>>
  PROVE  PictureInv'
<1> USE Parts
<1> DEFINE h == Head(sprites[d])
           p == [pos |-> Here(d).pos, cell |-> Here(d).cell, asked |-> h, got |-> got]
<1>1. sprites[d] # <<>> /\ h \in Nat
  <2>1. sprites[d] # <<>> /\ h > 0
    BY DEF ReaderInv
  <2>2. sprites[d] \in Seq(Nat \cup {Beyond})
    BY DEF TypeOK
  <2>3. h \in Nat \cup {Beyond}
    BY <2>1, <2>2, Rest
  <2> QED BY <2>1, <2>3 DEF Beyond
<1>2. box[d] \in Box /\ visited[d] \in Nat \ {0} /\ painted[d] \in Seq(Painting)
  BY <1>1 DEF TypeOK, PictureInv
<1>3. /\ p.pos = Visit(box[d], visited[d]).pos
      /\ p.cell = Visit(box[d], visited[d]).cell
  BY DEF Here
<1>4. p \in Painting
  <2>1. Here(d).pos \in Position /\ Here(d).cell \in Int \X Int
    BY <1>2, VisitType DEF Here
  <2> QED BY <1>1, <2>1 DEF Painting
<1>5. \A c \in Drawers :
        /\ painted'[c] = IF c = d THEN Append(painted[d], p) ELSE painted[c]
        /\ c # d => sprites'[c] = sprites[c]
  BY DEF Paint, TypeOK
<1> HIDE DEF p
<1>6. Pictured(box[d], visited[d], painted[d])
  BY DEF PictureInv
<1>7. Pictured(box[d], visited[d], Append(painted[d], p))
  BY <1>2, <1>3, <1>4, <1>6, PaintsOnTop
<1>8. ASSUME NEW c \in Drawers
      PROVE  /\ queue[c] # <<>> \/ sprites'[c] # <<>> => visited[c] # 0
             /\ Pictured(box[c], visited[c], painted'[c])
  BY <1>2, <1>5, <1>7 DEF PictureInv
<1>9. box' = box /\ visited' = visited /\ queue' = queue
  OBVIOUS
<1> QED BY <1>8, <1>9 DEF PictureInv, Pictured

\* At the start nothing is painted.
LEMMA InitPictures == Init => PictureInv
BY DEF Init, PictureInv, Pictured

\* Every step keeps what is painted in order.
LEMMA StepPictures == DrawInv /\ DrawInv' /\ PictureInv /\ [Next]_vars => PictureInv'
<1> SUFFICES ASSUME DrawInv, DrawInv', PictureInv, [Next]_vars PROVE PictureInv'
  OBVIOUS
<1>1. /\ visited \in [Drawers -> Nat] /\ visited' \in [Drawers -> Nat]
      /\ queue \in [Drawers -> Seq(Thing)]
      /\ sprites \in [Drawers -> Seq(Nat \cup {Beyond})]
  BY DEF DrawInv, DrawingInv, TypeOK
<1>2. \A c \in Drawers : queue[c] # <<>> \/ sprites[c] # <<>> => visited[c] # 0
  BY DEF PictureInv
<1>3. ASSUME UNCHANGED <<box, painted, visited, queue, sprites>> PROVE PictureInv'
  BY <1>1, <1>2, <1>3, PictureKept
<1>4. CASE Load
  BY <1>3, <1>4 DEF Load, drawVars
<1>5. ASSUME NEW d \in Drawers, StartDrawing(d) PROVE PictureInv'
  BY <1>3, <1>5 DEF StartDrawing
<1>6. ASSUME NEW d \in Drawers, NextTile(d) PROVE PictureInv'
  <2>1. UNCHANGED <<box, painted, sprites>>
    BY <1>6 DEF NextTile
  <2>2. \/ UNCHANGED <<visited, queue>>
        \/ /\ visited' = [visited EXCEPT ![d] = @ + 1]
           /\ \A c \in Drawers : c # d => queue'[c] = queue[c]
    BY <1>1, <1>6 DEF NextTile
  <2>3. CASE UNCHANGED <<visited, queue>>
    BY <1>3, <2>1, <2>3
  <2>4. CASE /\ visited' = [visited EXCEPT ![d] = @ + 1]
             /\ \A c \in Drawers : c # d => queue'[c] = queue[c]
    <3>1. \A c \in Drawers : visited'[c] = IF c = d THEN visited[c] + 1 ELSE visited[c]
      BY <1>1, <2>4
    <3>2. \A c \in Drawers :
            /\ visited'[c] >= visited[c]
            /\ queue'[c] # <<>> \/ sprites'[c] # <<>> => visited'[c] # 0
      BY <1>1, <1>2, <2>1, <2>4, <3>1
    <3> QED BY <1>1, <2>1, <3>2, PictureKept
  <2> QED BY <2>2, <2>3, <2>4
<1>7. ASSUME NEW d \in Drawers, DrawThing(d) PROVE PictureInv'
  <2>1. UNCHANGED <<box, painted, visited>> /\ queue[d] # <<>>
    BY <1>7 DEF DrawThing
  <2>2. \A c \in Drawers : c # d => queue'[c] = queue[c] /\ sprites'[c] = sprites[c]
    BY <1>1, <1>7 DEF DrawThing
  <2>3. \A c \in Drawers :
          /\ visited'[c] >= visited[c]
          /\ queue'[c] # <<>> \/ sprites'[c] # <<>> => visited'[c] # 0
    BY <1>1, <1>2, <2>1, <2>2
  <2> QED BY <1>1, <2>1, <2>3, PictureKept
<1>8. ASSUME NEW d \in Drawers, NoSprite(d) PROVE PictureInv'
  <2>1. UNCHANGED <<box, painted, visited, queue>> /\ sprites[d] # <<>>
    BY <1>8 DEF NoSprite
  <2>2. \A c \in Drawers : c # d => sprites'[c] = sprites[c]
    BY <1>1, <1>8 DEF NoSprite
  <2>3. \A c \in Drawers :
          /\ visited'[c] >= visited[c]
          /\ queue'[c] # <<>> \/ sprites'[c] # <<>> => visited'[c] # 0
    BY <1>1, <1>2, <2>1, <2>2
  <2> QED BY <1>1, <2>1, <2>3, PictureKept
<1>9. ASSUME NEW d \in Drawers, LockSprites(d) PROVE PictureInv'
  BY <1>3, <1>9 DEF LockSprites
<1>10. ASSUME NEW d \in Drawers, FindSprite(d) PROVE PictureInv'
  <2>1. at[d] = "find" /\ UNCHANGED <<box, visited, queue>>
    BY <1>10 DEF FindSprite
  <2>2. Paint(d, 0) \/ UNCHANGED <<sprites, painted>>
    BY <1>10 DEF FindSprite
  <2> QED BY <1>3, <2>1, <2>2, PicturePaints
<1>11. ASSUME NEW d \in Drawers, ReadSprite(d) PROVE PictureInv'
  <2> DEFINE got == IF reader \in Unreadable THEN 0 ELSE reader
  <2>1. at[d] = "read" /\ UNCHANGED <<box, visited, queue>> /\ Paint(d, got)
    BY <1>11 DEF ReadSprite
  <2>2. got \in Nat
    BY DEF DrawInv, DrawingInv, TypeOK
  <2> HIDE DEF got
  <2> QED BY <2>1, <2>2, PicturePaints
<1>12. ASSUME NEW d \in Drawers, Finish(d) PROVE PictureInv'
  BY <1>3, <1>12 DEF Finish
<1>13. ASSUME NEW d \in Drawers, NoSpriteSet(d) PROVE PictureInv'
  BY <1>3, <1>13 DEF NoSpriteSet
<1>14. CASE UNCHANGED vars
  BY <1>3, <1>14 DEF vars, drawVars
<1> QED BY <1>4, <1>5, <1>6, <1>7, <1>8, <1>9, <1>10, <1>11, <1>12, <1>13, <1>14
     DEF Next, Draw

\* For every picture, also across the edges of the map, whatever lies on one of
\* its cells lies inside it and on one line of the map, and what is lower has
\* been painted first (compositor/compositor.go:44-51, floor.go:23-27).
THEOREM FloorsInOrder == Spec => []Perspective
<1>1. DrawInv /\ PictureInv => Perspective
  <2> SUFFICES ASSUME DrawInv, PictureInv, NEW d \in Drawers,
                      NEW i \in 1..Len(painted[d]), NEW j \in 1..Len(painted[d])
               PROVE  LET p == painted[d][i] q == painted[d][j]
                      IN  /\ p.cell \in (1..box[d].width) \X (1..box[d].height)
                          /\ p.cell = q.cell /\ i < j =>
                               /\ p.pos[3] >= q.pos[3]
                               /\ \A k \in {1, 2} :
                                    q.pos[k] = (p.pos[k] + p.pos[3] - q.pos[3]) % Word
    BY DEF Perspective
  <2> DEFINE p == painted[d][i] q == painted[d][j] b == box[d]
  <2>1. Pictured(b, visited[d], painted[d]) /\ b \in Box /\ visited[d] \in Nat
    BY Parts DEF PictureInv, TypeOK
  <2>2. PICK v \in 1..visited[d] : p.pos = Visit(b, v).pos /\ p.cell = Visit(b, v).cell
    BY <2>1 DEF Pictured
  <2>3. PICK w \in 1..visited[d] : q.pos = Visit(b, w).pos /\ q.cell = Visit(b, w).cell
    BY <2>1 DEF Pictured
  <2>4. i < j => p.pos[3] >= q.pos[3]
    BY <2>1 DEF Pictured
  <2> HIDE DEF p, q, b
  <2>5. v \in Nat /\ w \in Nat
    BY <2>1
  <2>6. p.cell \in (1..b.width) \X (1..b.height)
    BY <2>1, <2>2, <2>5, VisitType
  <2>7. ASSUME p.cell = q.cell, NEW k \in {1, 2}
        PROVE  q.pos[k] = (p.pos[k] + p.pos[3] - q.pos[3]) % Word
    <3>1. b \in Box /\ v \in Nat /\ w \in Nat /\ k \in {1, 2}
      BY <2>1, <2>5
    <3>2. Visit(b, v).cell = Visit(b, w).cell
      BY <2>2, <2>3, <2>7
    <3>3. Visit(b, w).pos[k]
            = (Visit(b, v).pos[k] + Visit(b, v).pos[3] - Visit(b, w).pos[3]) % Word
      BY ONLY <3>1, <3>2, OneLine, Zenon
    <3> QED BY ONLY <2>2, <2>3, <3>3, Zenon
  <2> QED BY <2>4, <2>6, <2>7 DEF p, q, b
<1>2. Spec => []PictureInv
  BY DrawInvariant, InitPictures, StepPictures, PTL DEF Spec
<1> QED BY <1>1, <1>2, DrawInvariant, PTL

-----------------------------------------------------------------------------
(* What stops drawing.                                                     *)

\* What drawing may stop for, near being what there is at the tile.
Panics(near) ==
  \/ \E t \in near : Stopper(t)
  \/ program = "tool" /\ HasDataset /\ ~ spriteSet
Spins(near) ==
  program = "tool" /\ ~ HasDataset /\ \E t \in near : t.kind = "creature"

\* What is left to draw is near; sprites come from a dataset, and one that is not
\* there from an entry whose sprites were counted wrongly; and whoever stops has a
\* reason.
Reasons(a, q, s, near) ==
  /\ a = "idle" => q = <<>> /\ s = <<>>
  /\ \A k \in 1..Len(q) : q[k] \in near
  /\ s # <<>> => HasDataset
  /\ \A k \in 1..Len(s) : s[k] = Beyond => \E t \in near : Stopper(t)
  /\ a = "panicked" => Panics(near)
  /\ a = "spinning" => Spins(near)

StopsInv == \A d \in Drawers : Reasons(at[d], queue[d], sprites[d], Around(d))

\* The same files stop drawing for the same reasons.
LEMMA SameReasons ==
  ASSUME UNCHANGED filesVars
  PROVE  \A a, q, s, near : Reasons(a, q, s, near)' = Reasons(a, q, s, near)
<1>1. /\ UNCHANGED <<items, byServer, datFile, header, entries>>
      /\ UNCHANGED <<program, things, spriteSet>>
  BY DEF filesVars, itemsVars, datVars
<1>2. /\ HasDataset' = HasDataset /\ NItems' = NItems /\ NOutfits' = NOutfits
      /\ \A id : Known(id)' = Known(id)
  BY <1>1 DEF HasDataset, NItems, NOutfits, Known
<1>3. \A id : ClientIDForServerID(id)' = ClientIDForServerID(id)
  BY <1>1, <1>2 DEF ClientIDForServerID, ItemByServerID
<1>4. \A id : DatItem(id)' = DatItem(id) /\ Outfit(id)' = Outfit(id)
  BY <1>1, <1>2 DEF DatItem, Outfit
<1>5. \A t : Drawable(t)' = Drawable(t)
  BY <1>2, <1>3 DEF Drawable
<1>6. \A id : ThingsItem(id)' = ThingsItem(id)
  BY <1>1, <1>2, <1>3 DEF ThingsItem
<1>7. \A t : EntryOf(t)' = EntryOf(t)
  BY <1>2, <1>4, <1>6 DEF EntryOf
<1>8. \A t : Stopper(t)' = Stopper(t)
  BY <1>2, <1>5, <1>7 DEF Stopper, HasEntry
<1>9. \A near : Panics(near)' = Panics(near) /\ Spins(near)' = Spins(near)
  BY <1>1, <1>2, <1>8 DEF Panics, Spins
<1> QED BY <1>2, <1>8, <1>9 DEF Reasons

\* As long as the files, the map and the tile stay the same, reasons do.
LEMMA ReasonsKept ==
  ASSUME UNCHANGED <<filesVars, world, box, visited>>,
         \A c \in Drawers : Reasons(at'[c], queue'[c], sprites'[c], Around(c))
  PROVE  StopsInv'
<1>1. \A c : Around(c)' = Around(c)
  BY DEF Around, Here, TileAt
<1> QED BY <1>1, SameReasons DEF StopsInv

\* What can be drawn has an entry, which only a dataset gives.
LEMMA DrawableFound ==
  ASSUME ItemsTypeOK, DatInv, NEW t \in Thing
  PROVE  /\ HasEntry(t) => HasDataset
         /\ Drawable(t) => HasEntry(t)
<1>1. /\ NItems \in Nat /\ NOutfits \in Nat /\ NEntries \in Nat
      /\ NItems + NOutfits <= NEntries
  BY Sizes, WidthsAssumption DEF DatInv, DatTypeOK
<1>2. FirstID \in Nat \ {0}
  BY WidthsAssumption
<1>3. HasDataset =>
        Len(entries) = NEntries /\ \A n \in 1..Len(entries) : entries[n].kind \in Kind
  <2>1. HasDataset => Len(entries) = NEntries /\ \A n \in 1..Len(entries) : entries[n] \in Entry
    BY DEF DatInv, DatTypeOK, HasDataset
  <2> QED BY <2>1 DEF Entry
<1>4. ASSUME t.kind = "item", Drawable(t) PROVE HasEntry(t)
  <2> DEFINE id == ClientIDForServerID(t.id)
  <2>1. /\ HasDataset
        /\ id \in FirstID..FirstID + NItems - 1 /\ ThingsItem(t.id).dat = id
    BY <1>4 DEF Drawable, ThingsItem
  <2> HIDE DEF id
  <2>2. id \in Nat /\ id # 0 /\ id - FirstID + 1 \in 1..Len(entries)
    BY <1>1, <1>2, <1>3, <2>1
  <2>3. DatItem(id) = entries[id - FirstID + 1]
    BY <1>1, <1>2, <2>1, <2>2 DEF DatItem
  <2>4. EntryOf(t) = DatItem(id)
    BY <1>4, <2>1, <2>2 DEF EntryOf
  <2> QED BY <1>3, <2>1, <2>2, <2>3, <2>4 DEF HasEntry
<1>5. ASSUME t.kind # "item", Drawable(t) PROVE HasEntry(t)
  <2>1. HasDataset /\ t.id \in 1..NOutfits
    BY <1>5 DEF Drawable
  <2>2. NItems + t.id \in 1..Len(entries)
    BY <1>1, <1>3, <2>1
  <2>3. Outfit(t.id) = entries[NItems + t.id]
    BY <1>1, <2>1 DEF Outfit
  <2>4. EntryOf(t) = Outfit(t.id)
    BY <1>5, <2>1 DEF EntryOf
  <2> QED BY <1>3, <2>1, <2>2, <2>3, <2>4 DEF HasEntry
<1>6. HasEntry(t) => HasDataset
  BY DEF HasEntry, EntryOf, NoEntry, Kind
<1> QED BY <1>4, <1>5, <1>6

\* What is left of a sequence was in it.
LEMMA RestWithin ==
  ASSUME NEW S, NEW s \in Seq(S), s # <<>>
  PROVE  /\ Head(s) = s[1] /\ 1 \in 1..Len(s)
         /\ \A k \in 1..Len(Tail(s)) : k + 1 \in 1..Len(s) /\ Tail(s)[k] = s[k + 1]
BY HeadTailProperties

\* Nobody draws while the files are read.
LEMMA LoadStops == ASSUME DrawInv, StopsInv, Load PROVE StopsInv'
<1>1. UNCHANGED <<at, queue, sprites>> /\ things \notin {"ready", "nil"}
  BY DEF Load, LoadItems, LoadDat, LoadSprites, drawVars
<1>2. \A c \in Drawers : at[c] = "idle"
  BY <1>1, Parts DEF FilesInv
<1>3. ASSUME NEW c \in Drawers PROVE Reasons(at[c], queue[c], sprites[c], Around(c))'
  <2>1. at'[c] = "idle" /\ queue'[c] = <<>> /\ sprites'[c] = <<>>
    BY <1>1, <1>2 DEF StopsInv, Reasons
  <2> QED BY <2>1 DEF Reasons
<1> QED BY <1>3 DEF StopsInv

\* All that is to be drawn of the next tile is around the one who draws.
LEMMA TileStops ==
  ASSUME DrawInv, StopsInv, NEW d \in Drawers, NextTile(d) PROVE StopsInv'
<1> USE Parts
<1> DEFINE v == Visit(box[d], visited[d] + 1)
           tile == TileAt(v.pos)
           new == IF Decorated(box[d], v) THEN Append(tile, Decoration) ELSE tile
           around == {tile[i] : i \in 1..Len(tile)}
                       \cup (IF Decorated(box[d], v) THEN {Decoration} ELSE {})
<1>1. /\ UNCHANGED <<filesVars, world, box, sprites>>
      /\ at[d] = "drawing" /\ sprites[d] = <<>>
  BY DEF NextTile
<1>2. \A k \in 1..Len(new) : new[k] \in around
  <2>1. tile \in Seq(Thing) /\ Decoration \in Thing
    BY TileType, DecorativeAssumption DEF TypeOK, Decoration, Thing
  <2>2. \A k \in 1..Len(tile) : tile[k] \in around
    OBVIOUS
  <2>3. Decorated(box[d], v) => Decoration \in around
    OBVIOUS
  <2> HIDE DEF tile, around
  <2>4. \A k \in 1..Len(Append(tile, Decoration)) :
          (k \in 1..Len(tile) /\ Append(tile, Decoration)[k] = tile[k])
            \/ Append(tile, Decoration)[k] = Decoration
    BY <2>1, AppendTypes
  <2> QED BY <2>2, <2>3, <2>4
<1>3. IF v.pos \in Peopled
      THEN at' = [at EXCEPT ![d] = "stuck"] /\ UNCHANGED <<visited, queue>>
      ELSE /\ visited' = [visited EXCEPT ![d] = @ + 1]
           /\ queue' = [queue EXCEPT ![d] = new]
           /\ UNCHANGED at
  BY Zenon DEF NextTile
<1>4. ASSUME NEW c \in Drawers PROVE Reasons(at[c], queue[c], sprites[c], Around(c))
  BY DEF StopsInv
<1>5. CASE v.pos \in Peopled
  <2>1. UNCHANGED <<visited, queue>> /\ at' = [at EXCEPT ![d] = "stuck"]
    BY <1>3, <1>5
  <2>2. ASSUME NEW c \in Drawers
        PROVE  Reasons(at'[c], queue'[c], sprites'[c], Around(c))
    <3>1. at'[c] \in {at[c], "stuck"} /\ queue'[c] = queue[c] /\ sprites'[c] = sprites[c]
      BY <1>1, <2>1 DEF TypeOK
    <3> QED BY <1>4, <3>1 DEF Reasons
  <2> QED BY <1>1, <2>1, <2>2, ReasonsKept
<1>6. CASE v.pos \notin Peopled
  <2>1. /\ visited' = [visited EXCEPT ![d] = @ + 1]
        /\ queue' = [queue EXCEPT ![d] = new] /\ UNCHANGED at
    BY <1>3, <1>6
  <2>2. Around(d)' = around
    <3>1. box' = box /\ world' = world /\ visited'[d] = visited[d] + 1
      BY <1>1, <2>1 DEF TypeOK
    <3>2. Here(d)' = v
      BY <3>1 DEF Here
    <3> HIDE DEF v
    <3> QED BY <3>1, <3>2 DEF Around, TileAt
  <2> HIDE DEF new, around, v
  <2>3. Reasons(at'[d], queue'[d], sprites'[d], Around(d)')
    <3>1. at'[d] = "drawing" /\ queue'[d] = new /\ sprites'[d] = <<>>
      BY <1>1, <2>1 DEF TypeOK
    <3> QED BY <1>2, <2>2, <3>1 DEF Reasons
  <2>4. ASSUME NEW c \in Drawers, c # d
        PROVE  Reasons(at'[c], queue'[c], sprites'[c], Around(c)')
    <3>1. at'[c] = at[c] /\ queue'[c] = queue[c] /\ sprites'[c] = sprites[c]
      BY <1>1, <2>1, <2>4 DEF TypeOK
    <3>2. box' = box /\ world' = world /\ visited'[c] = visited[c]
      BY <1>1, <2>1, <2>4 DEF TypeOK
    <3>3. Around(c)' = Around(c)
      BY <3>2 DEF Around, Here, TileAt
    <3> QED BY <1>4, <3>1, <3>3
  <2> QED BY <1>1, <2>3, <2>4, SameReasons DEF StopsInv
<1> QED BY <1>5, <1>6

\* A thing that is not found is not there to be drawn.
LEMMA ThingStops ==
  ASSUME DrawInv, StopsInv, NEW d \in Drawers, DrawThing(d) PROVE StopsInv'
<1> USE Parts
<1> DEFINE t == Head(queue[d])
           frame == FrameOf(t, Here(d))
<1>1. /\ UNCHANGED <<filesVars, world, box, visited>>
      /\ at[d] = "drawing" /\ queue[d] # <<>>
      /\ program = "server" => HasDataset
      /\ program \in {"server", "tool"}
  BY DEF DrawThing, FilesInv, TypeOK
<1>2. queue[d] \in Seq(Thing) /\ Reasons(at[d], queue[d], sprites[d], Around(d))
  BY DEF TypeOK, StopsInv
<1>3. t \in Thing /\ t \in Around(d)
  <2>1. t = queue[d][1] /\ 1 \in 1..Len(queue[d])
    BY <1>1, <1>2, RestWithin
  <2> QED BY <1>1, <1>2, <2>1, Rest DEF Reasons
<1>4. \A k \in 1..Len(Tail(queue[d])) : Tail(queue[d])[k] \in Around(d)
  BY <1>1, <1>2, RestWithin DEF Reasons
<1>5. HasEntry(t) => HasDataset
  BY <1>3, DrawableFound
<1>6. HasEntry(t) => \A k \in 1..Len(frame) : frame[k] = Beyond => Stopper(t)
  <2> SUFFICES ASSUME HasEntry(t), NEW k \in 1..Len(frame), frame[k] = Beyond
               PROVE  Stopper(t)
    OBVIOUS
  <2>1. box[d] \in Box /\ visited[d] \in Nat
    BY DEF TypeOK
  <2>2. frame \in Seq(Shown(EntryOf(t)))
    BY <1>3, <2>1, FrameType DEF Here
  <2>3. Beyond \in Shown(EntryOf(t))
    <3> HIDE DEF frame
    <3> QED BY <2>2, ElementOfSeq
  <2>4. ~ Counted(EntryOf(t).gfx)
    BY <2>3 DEF Shown, Beyond
  <2> QED BY <1>5, <2>4 DEF Stopper
<1>7. ~ HasEntry(t) /\ (~ HasDataset => t.kind = "item") => Panics(Around(d))
  <2>1. ASSUME ~ HasEntry(t), ~ HasDataset => t.kind = "item" PROVE Stopper(t)
    <3>1. ~ Drawable(t)
      BY <1>3, <2>1, DrawableFound
    <3> QED BY <2>1, <3>1 DEF Stopper
  <2> QED BY <1>3, <2>1 DEF Panics
<1>8. ~ HasDataset /\ t.kind = "creature" => Spins(Around(d))
  BY <1>1, <1>3 DEF Spins
<1> HIDE DEF frame
<1>9. \/ /\ HasEntry(t) /\ at' = at
         /\ queue' = [queue EXCEPT ![d] = Tail(@)]
         /\ sprites' = [sprites EXCEPT ![d] = frame]
      \/ /\ at' = at /\ sprites' = sprites
         /\ queue' = [queue EXCEPT ![d] = Tail(@)]
      \/ /\ Spins(Around(d)) /\ at' = [at EXCEPT ![d] = "spinning"]
         /\ queue' = queue /\ sprites' = sprites
      \/ /\ Panics(Around(d)) /\ at' = [at EXCEPT ![d] = "panicked"]
         /\ queue' = queue /\ sprites' = sprites
  BY <1>7, <1>8 DEF DrawThing, frame
<1> HIDE DEF t
<1>10. ASSUME NEW c \in Drawers PROVE Reasons(at'[c], queue'[c], sprites'[c], Around(c))
  <2>1. Reasons(at[c], queue[c], sprites[c], Around(c))
    BY DEF StopsInv
  <2>2. CASE c # d
    <3>1. at'[c] = at[c] /\ queue'[c] = queue[c] /\ sprites'[c] = sprites[c]
      BY <1>9, <2>2 DEF TypeOK
    <3> QED BY <2>1, <3>1
  <2>3. CASE c = d
    <3>1. \/ /\ HasEntry(t) /\ at'[d] = at[d] /\ queue'[d] = Tail(queue[d])
             /\ sprites'[d] = frame
          \/ /\ at'[d] = at[d] /\ queue'[d] = Tail(queue[d]) /\ sprites'[d] = sprites[d]
          \/ /\ Spins(Around(d)) /\ at'[d] = "spinning"
             /\ queue'[d] = queue[d] /\ sprites'[d] = sprites[d]
          \/ /\ Panics(Around(d)) /\ at'[d] = "panicked"
             /\ queue'[d] = queue[d] /\ sprites'[d] = sprites[d]
      BY <1>9 DEF TypeOK
    <3> QED BY <1>1, <1>2, <1>3, <1>4, <1>5, <1>6, <2>3, <3>1 DEF Reasons
  <2> QED BY <2>2, <2>3
<1> QED BY <1>1, <1>10, ReasonsKept

\* A sprite is left out, or is not there.
LEMMA NoSpriteStops ==
  ASSUME DrawInv, StopsInv, NEW d \in Drawers, NoSprite(d) PROVE StopsInv'
<1> USE Parts
<1> DEFINE h == Head(sprites[d])
<1>1. /\ UNCHANGED <<filesVars, world, box, visited>> /\ queue' = queue
      /\ sprites[d] # <<>> /\ h \in {0, Beyond} /\ at[d] = "drawing"
      /\ IF h = 0
         THEN sprites' = [sprites EXCEPT ![d] = Tail(@)] /\ at' = at
         ELSE at' = [at EXCEPT ![d] = "panicked"] /\ sprites' = sprites
  BY DEF NoSprite
<1>2. sprites[d] \in Seq(Nat \cup {Beyond}) /\ Reasons(at[d], queue[d], sprites[d], Around(d))
  BY DEF TypeOK, StopsInv
<1>3. /\ h = Beyond => \E t \in Around(d) : Stopper(t)
      /\ \A k \in 1..Len(Tail(sprites[d])) :
           Tail(sprites[d])[k] = Beyond => \E t \in Around(d) : Stopper(t)
  BY <1>1, <1>2, RestWithin DEF Reasons
<1> HIDE DEF h
<1>4. \/ at' = at /\ sprites' = [sprites EXCEPT ![d] = Tail(@)]
      \/ Panics(Around(d)) /\ at' = [at EXCEPT ![d] = "panicked"] /\ sprites' = sprites
  BY <1>1, <1>3 DEF Panics
<1>5. ASSUME NEW c \in Drawers PROVE Reasons(at'[c], queue'[c], sprites'[c], Around(c))
  <2>1. Reasons(at[c], queue[c], sprites[c], Around(c))
    BY DEF StopsInv
  <2>2. CASE c # d
    <3>1. at'[c] = at[c] /\ queue'[c] = queue[c] /\ sprites'[c] = sprites[c]
      BY <1>1, <1>4, <2>2 DEF TypeOK
    <3> QED BY <2>1, <3>1
  <2>3. CASE c = d
    <3>1. /\ queue'[d] = queue[d]
          /\ \/ at'[d] = at[d] /\ sprites'[d] = Tail(sprites[d])
             \/ Panics(Around(d)) /\ at'[d] = "panicked" /\ sprites'[d] = sprites[d]
      BY <1>1, <1>4 DEF TypeOK
    <3> QED BY <1>1, <1>2, <1>3, <2>3, <3>1 DEF Reasons
  <2> QED BY <2>2, <2>3
<1> QED BY <1>1, <1>5, ReasonsKept

\* There are no sprites at all, although there is something to paint.
LEMMA NoSpriteSetStops ==
  ASSUME DrawInv, StopsInv, NEW d \in Drawers, NoSpriteSet(d) PROVE StopsInv'
<1> USE Parts
<1>1. /\ UNCHANGED <<filesVars, world, box, visited>>
      /\ at[d] = "drawing" /\ sprites[d] # <<>> /\ ~ spriteSet
      /\ at' = [at EXCEPT ![d] = "panicked"] /\ UNCHANGED <<queue, sprites>>
  BY DEF NoSpriteSet
<1>2. Panics(Around(d))
  <2>1. HasDataset
    BY <1>1 DEF StopsInv, Reasons
  <2>2. program = "tool"
    BY <1>1 DEF FilesInv, TypeOK
  <2> QED BY <1>1, <2>1, <2>2 DEF Panics
<1>3. ASSUME NEW c \in Drawers PROVE Reasons(at'[c], queue'[c], sprites'[c], Around(c))
  <2>1. Reasons(at[c], queue[c], sprites[c], Around(c))
    BY DEF StopsInv
  <2>2. /\ queue'[c] = queue[c] /\ sprites'[c] = sprites[c]
        /\ at'[c] = at[c] \/ (c = d /\ at'[c] = "panicked")
    BY <1>1 DEF TypeOK
  <2> QED BY <1>1, <1>2, <2>1, <2>2 DEF Reasons
<1> QED BY <1>1, <1>3, ReasonsKept

\* Nobody stops while sprites are looked for, read and painted.
LEMMA PaintStops ==
  ASSUME DrawInv, StopsInv, NEW d \in Drawers,
         UNCHANGED <<filesVars, world, box, visited, queue>>, at[d] # "idle",
         \/ sprites' = sprites
         \/ sprites[d] # <<>> /\ sprites' = [sprites EXCEPT ![d] = Tail(@)],
         NEW a \in {"drawing", "find", "read", "done"}, at' = [at EXCEPT ![d] = a]
  PROVE  StopsInv'
<1> USE Parts
<1>1. sprites[d] \in Seq(Nat \cup {Beyond}) /\ Reasons(at[d], queue[d], sprites[d], Around(d))
  BY DEF TypeOK, StopsInv
<1>2. sprites[d] # <<>> =>
        \A k \in 1..Len(Tail(sprites[d])) :
          Tail(sprites[d])[k] = Beyond => \E t \in Around(d) : Stopper(t)
  BY <1>1, RestWithin DEF Reasons
<1>3. ASSUME NEW c \in Drawers PROVE Reasons(at'[c], queue'[c], sprites'[c], Around(c))
  <2>1. Reasons(at[c], queue[c], sprites[c], Around(c))
    BY DEF StopsInv
  <2>2. CASE c # d
    <3>1. at'[c] = at[c] /\ queue'[c] = queue[c] /\ sprites'[c] = sprites[c]
      BY <2>2 DEF TypeOK
    <3> QED BY <2>1, <3>1
  <2>3. CASE c = d
    <3>1. /\ queue'[d] = queue[d] /\ at'[d] = a
          /\ \/ sprites'[d] = sprites[d]
             \/ sprites[d] # <<>> /\ sprites'[d] = Tail(sprites[d])
      BY DEF TypeOK
    <3> QED BY <1>1, <1>2, <2>3, <3>1 DEF Reasons
  <2> QED BY <2>2, <2>3
<1> QED BY <1>3, ReasonsKept

\* At the start nobody has begun.
LEMMA InitStops == Init => StopsInv
BY DEF Init, StopsInv, Reasons

\* Every step leaves whoever stops a reason.
LEMMA StepStops == DrawInv /\ StopsInv /\ [Next]_vars => StopsInv'
<1> SUFFICES ASSUME DrawInv, StopsInv, [Next]_vars PROVE StopsInv'
  OBVIOUS
<1>1. CASE Load
  BY <1>1, LoadStops
<1>2. ASSUME NEW d \in Drawers, StartDrawing(d) PROVE StopsInv'
  <2>1. /\ UNCHANGED <<filesVars, world, box, visited, queue, sprites>>
        /\ at' = [at EXCEPT ![d] = "drawing"]
    BY <1>2 DEF StartDrawing
  <2>2. ASSUME NEW c \in Drawers
        PROVE  Reasons(at'[c], queue'[c], sprites'[c], Around(c))
    <3>1. Reasons(at[c], queue[c], sprites[c], Around(c))
      BY DEF StopsInv
    <3>2. at'[c] \in {at[c], "drawing"} /\ queue'[c] = queue[c] /\ sprites'[c] = sprites[c]
      BY <2>1, Parts DEF TypeOK
    <3> QED BY <3>1, <3>2 DEF Reasons
  <2> QED BY <2>1, <2>2, ReasonsKept
<1>3. ASSUME NEW d \in Drawers, LockSprites(d) PROVE StopsInv'
  BY <1>3, PaintStops DEF LockSprites
<1>4. ASSUME NEW d \in Drawers, FindSprite(d) PROVE StopsInv'
  <2>1. /\ UNCHANGED <<filesVars, world, box, visited, queue>> /\ at[d] = "find"
        /\ sprites[d] # <<>>
    BY <1>4, Parts DEF FindSprite, ReaderInv
  <2>2. \/ sprites' = [sprites EXCEPT ![d] = Tail(@)] /\ at' = [at EXCEPT ![d] = "drawing"]
        \/ sprites' = sprites /\ at' = [at EXCEPT ![d] = "read"]
    BY <1>4 DEF FindSprite, Paint
  <2> QED BY <2>1, <2>2, PaintStops
<1>5. ASSUME NEW d \in Drawers, ReadSprite(d) PROVE StopsInv'
  <2>1. /\ UNCHANGED <<filesVars, world, box, visited, queue>> /\ at[d] = "read"
        /\ sprites[d] # <<>>
    BY <1>5, Parts DEF ReadSprite, ReaderInv
  <2>2. sprites' = [sprites EXCEPT ![d] = Tail(@)] /\ at' = [at EXCEPT ![d] = "drawing"]
    BY <1>5 DEF ReadSprite, Paint
  <2> QED BY <2>1, <2>2, PaintStops
<1>6. ASSUME NEW d \in Drawers, Finish(d) PROVE StopsInv'
  BY <1>6, PaintStops DEF Finish
<1>7. CASE UNCHANGED vars
  <2>1. UNCHANGED <<filesVars, world, box, visited, at, queue, sprites>>
    BY <1>7 DEF vars, drawVars
  <2>2. \A c \in Drawers : Reasons(at'[c], queue'[c], sprites'[c], Around(c))
    BY <2>1 DEF StopsInv
  <2> QED BY <2>1, <2>2, ReasonsKept
<1> QED BY <1>1, <1>2, <1>3, <1>4, <1>5, <1>6, <1>7, TileStops, ThingStops,
           NoSpriteStops, NoSpriteSetStops DEF Next, Draw

\* For all files and maps, whatever was omitted or has failed, a request stops only
\* at the tile it has come to, for something that lies there, or is due there, and
\* is not in the files or has sprites that were counted wrongly; a tool's picture
\* also for want of sprites, or goes on forever at a creature for want of a dataset;
\* and neither happens to a server of pictures (compositor/tile.go:18-54,
\* floor.go:56, spr/spr.go:27, web/handlers.go:554, dat/dat.go:988-991).
THEOREM StopsForAReason == Spec => []StopsOnlyOnBadData
<1>1. StopsInv => StopsOnlyOnBadData
  BY DEF StopsInv, Reasons, Panics, Spins, StopsOnlyOnBadData
<1>2. Spec => []StopsInv
  BY DrawInvariant, InitStops, StepStops, PTL DEF Spec
<1> QED BY <1>1, <1>2, PTL
=============================================================================
