----------------------------- MODULE WorldProofs -----------------------------
(***************************************************************************)
(* Proofs about the creatures on the map: World, for every set of players, *)
(* every size of the map and every choice of stored tiles and spawn        *)
(* positions, and PlayerIDs, for every finite set of connections that is   *)
(* smaller than the kind's bit.                                            *)
(***************************************************************************)
EXTENDS World, PlayerIDs, FiniteSetTheorems, TLAPS

\* A step in any direction stays on the map: coordinates wrap.
LEMMA NeighbourInPos ==
  ASSUME NEW q \in Pos, NEW d \in Dirs
  PROVE  Neighbour(q, d) \in Pos
<1>1. /\ q = <<q[1], q[2]>>
      /\ q[1] \in 0..Width - 1
      /\ q[2] \in 0..Height - 1
  BY DEF Pos
<1>2. ASSUME NEW n \in Nat \ {0}, NEW k \in 0..n - 1
      PROVE  (k + 1) % n \in 0..n - 1 /\ (k + n - 1) % n \in 0..n - 1
  OBVIOUS
<1>3. CASE d = "north"
  BY <1>1, <1>2, <1>3, SizeAssumption DEF Neighbour, Pos
<1>4. CASE d = "south"
  BY <1>1, <1>2, <1>4, SizeAssumption DEF Neighbour, Pos
<1>5. CASE d = "west"
  BY <1>1, <1>2, <1>5, SizeAssumption DEF Neighbour, Pos
<1>6. CASE d = "east"
  BY <1>1, <1>2, <1>6, SizeAssumption DEF Neighbour, Pos
<1> QED BY <1>3, <1>4, <1>5, <1>6 DEF Dirs

\* Reading and building slices yields slices.
LEMMA SliceTypes ==
  ASSUME TypeOK, NEW p \in Player, NEW q \in Pos, NEW s \in Slice
  PROVE  /\ GetMapTile(q) \in Slice
         /\ With(s, p) \in Slice
         /\ Without(s, p) \in Slice
BY DEF TypeOK, GetMapTile, With, Without, Slice, Empty

\* Every variable of World keeps to its type; positions stay on the map.
THEOREM TypeCorrect == Spec => []TypeOK
<1>1. Init => TypeOK
  <2> SUFFICES ASSUME Init PROVE TypeOK
    OBVIOUS
  <2>1. Empty \in Slice
    BY DEF Empty, Slice
  <2>2. tile \in [Pos -> Slice] /\ buf \in [Player -> Slice]
    BY <2>1 DEF Init
  <2>3. pos \in [Player -> Pos] /\ target \in [Player -> Pos]
    BY MapAssumption DEF Init
  <2>4. /\ loaded \in [Player -> BOOLEAN]
        /\ raced \in BOOLEAN
    BY DEF Init
  <2>5. /\ creatures \subseteq Player
        /\ pc \in [Player -> {"out", "adding", "idle", "moving", "placing", "erasing", "gone"}]
        /\ moves \in [Player -> 0..MaxMoves]
    BY MovesAssumption DEF Init
  <2> QED BY <2>2, <2>3, <2>4, <2>5 DEF TypeOK
<1>2. TypeOK /\ [Next]_vars => TypeOK'
  <2> SUFFICES ASSUME TypeOK, [Next]_vars PROVE TypeOK'
    OBVIOUS
  <2>0. Empty \in Slice
    BY DEF Empty, Slice
  <2>1. ASSUME NEW p \in Player, Enter(p) PROVE TypeOK'
    BY <2>1 DEF Enter, TypeOK
  <2>2. ASSUME NEW p \in Player, NEW d \in Dirs, Walk(p, d) PROVE TypeOK'
    <3>1. Neighbour(pos[p], d) \in Pos
      BY NeighbourInPos DEF TypeOK
    <3> QED BY <2>2, <3>1, MovesAssumption DEF Walk, TypeOK
  <2>3. ASSUME NEW p \in Player, WalkFails(p) PROVE TypeOK'
    BY <2>3, MovesAssumption DEF WalkFails, TypeOK
  <2>4. ASSUME NEW p \in Player, Leave(p) PROVE TypeOK'
    BY <2>4 DEF Leave, TypeOK
  <2>5. ASSUME NEW p \in Player, LoadSlice(p) PROVE TypeOK'
    <3>1. GetMapTile(pos[p]) \in Slice
      BY <2>0, SliceTypes DEF TypeOK
    <3> QED BY <2>5, <3>1 DEF LoadSlice, TypeOK
  <2>6. ASSUME NEW p \in Player, NEW s \in Slice, Assign(p, s)
        PROVE  /\ tile' \in [Pos -> Slice]
               /\ loaded' \in [Player -> BOOLEAN]
               /\ buf' \in [Player -> Slice]
               /\ raced' \in BOOLEAN
    BY <2>0, <2>6 DEF Assign, TypeOK
  <2>7. ASSUME NEW p \in Player, Put(p) PROVE TypeOK'
    <3>1. With(buf[p], p) \in Slice
      BY SliceTypes DEF TypeOK
    <3> QED BY <2>6, <2>7, <3>1 DEF Put, TypeOK
  <2>8. ASSUME NEW p \in Player, Take(p) PROVE TypeOK'
    <3>1. Without(buf[p], p) \in Slice
      BY SliceTypes DEF TypeOK
    <3> QED BY <2>6, <2>8, <3>1 DEF Take, TypeOK
  <2>9. ASSUME NEW p \in Player, Erase(p) PROVE TypeOK'
    <3>1. Without(buf[p], p) \in Slice
      BY SliceTypes DEF TypeOK
    <3> QED BY <2>6, <2>9, <3>1 DEF Erase, TypeOK
  <2>10. CASE UNCHANGED vars
    BY <2>10 DEF vars, TypeOK
  <2> QED
    BY <2>1, <2>2, <2>3, <2>4, <2>5, <2>7, <2>8, <2>9, <2>10 DEF Next
<1>3. QED
  BY <1>1, <1>2, PTL DEF Spec

\* What an assignment that is no lost update does to the tiles: only p's entry
\* on the tile of p's position changes.
LEMMA AssignEffect ==
  ASSUME TypeOK, NEW p \in Player, NEW s \in Slice, Assign(p, s), ~raced',
         \A r \in Player \ {p} : s[r] = buf[p][r]
  PROVE  /\ ~raced
         /\ buf[p] = GetMapTile(pos[p])
         /\ \A r \in Player, q \in Pos :
              tile'[q][r] = IF r = p /\ q = pos[p] /\ q \in Stored THEN s[p] ELSE tile[q][r]
<1>1. ~raced /\ buf[p] = GetMapTile(pos[p])
  BY DEF Assign, TypeOK
<1>2. CASE pos[p] \in Stored
  BY <1>1, <1>2 DEF Assign, TypeOK, GetMapTile
<1>3. CASE pos[p] \notin Stored
  BY <1>1, <1>3 DEF Assign, TypeOK
<1> QED BY <1>1, <1>2, <1>3

\* Only a lost update can put creatures and tiles at odds.
THEOREM TilesAgreeAlways == Spec => []TilesAgree
<1>1. Init => TilesAgree
  BY DEF Init, TilesAgree, Standing, Empty
<1>2. TypeOK /\ TilesAgree /\ [Next]_vars => TilesAgree'
  <2> SUFFICES ASSUME TypeOK, TilesAgree, [Next]_vars, ~raced' PROVE TilesAgree'
    BY DEF TilesAgree
  <2>1. ASSUME NEW p \in Player,
               \/ Enter(p) \/ WalkFails(p) \/ Leave(p) \/ LoadSlice(p)
               \/ \E d \in Dirs : Walk(p, d)
        PROVE TilesAgree'
    <3>1. UNCHANGED <<pos, tile, raced>>
      BY <2>1 DEF Enter, WalkFails, Leave, LoadSlice, Walk
    <3>2. \A r \in Player : Standing(r)' <=> Standing(r)
      BY <2>1 DEF Enter, WalkFails, Leave, LoadSlice, Walk, Standing, TypeOK
    <3> QED BY <3>1, <3>2 DEF TilesAgree
  <2>2. ASSUME NEW p \in Player, Put(p) PROVE TilesAgree'
    <3>1. With(buf[p], p) \in Slice /\ Assign(p, With(buf[p], p))
      BY <2>2, SliceTypes DEF Put, TypeOK
    <3>2. /\ \A r \in Player \ {p} : With(buf[p], p)[r] = buf[p][r]
          /\ With(buf[p], p)[p] = buf[p][p] + 1
      BY DEF With, TypeOK, Slice
    <3>3. /\ ~raced
          /\ buf[p] = GetMapTile(pos[p])
          /\ \A r \in Player, q \in Pos :
               tile'[q][r] = IF r = p /\ q = pos[p] /\ q \in Stored
                               THEN With(buf[p], p)[p] ELSE tile[q][r]
      BY <3>1, <3>2, AssignEffect
    <3>4. pos[p] \in Stored => With(buf[p], p)[p] = 1
      BY <2>2, <3>2, <3>3 DEF Put, TilesAgree, Standing, GetMapTile, TypeOK
    <3> QED BY <2>2, <3>3, <3>4 DEF Put, TilesAgree, Standing, TypeOK
  <2>3. ASSUME NEW p \in Player, Take(p) \/ Erase(p) PROVE TilesAgree'
    <3>1. Without(buf[p], p) \in Slice /\ Assign(p, Without(buf[p], p))
      BY <2>3, SliceTypes DEF Take, Erase, TypeOK
    <3>2. /\ \A r \in Player \ {p} : Without(buf[p], p)[r] = buf[p][r]
          /\ Without(buf[p], p)[p] = 0
      BY DEF Without, TypeOK, Slice
    <3>3. /\ ~raced
          /\ \A r \in Player, q \in Pos :
               tile'[q][r] = IF r = p /\ q = pos[p] /\ q \in Stored
                               THEN 0 ELSE tile[q][r]
      BY <3>1, <3>2, AssignEffect
    <3>4. /\ \A r \in Player \ {p} : pos'[r] = pos[r] /\ (Standing(r)' <=> Standing(r))
          /\ ~Standing(p)'
      BY <2>3 DEF Take, Erase, Standing, TypeOK
    <3> QED BY <3>3, <3>4 DEF TilesAgree
  <2>4. CASE UNCHANGED vars
    BY <2>4 DEF vars, TilesAgree, Standing
  <2> QED
    BY <2>1, <2>2, <2>3, <2>4 DEF Next
<1>3. QED
  BY <1>1, <1>2, TypeCorrect, PTL DEF Spec

\* A creature in the middle of a walk was found on the tile it walks from, which
\* is therefore stored.
WalksFromStored == \A p \in Player : pc[p] = "moving" => pos[p] \in Stored

LEMMA WalksStep == TypeOK /\ WalksFromStored /\ [Next]_vars => WalksFromStored'
<1> SUFFICES ASSUME TypeOK, WalksFromStored, [Next]_vars PROVE WalksFromStored'
  OBVIOUS
<1>1. ASSUME NEW p \in Player, NEW d \in Dirs, Walk(p, d) PROVE WalksFromStored'
  <2>1. pos[p] \in Stored
    BY <1>1 DEF Walk, GetMapTile, Empty
  <2> QED BY <1>1, <2>1 DEF Walk, WalksFromStored, TypeOK
<1>2. ASSUME NEW p \in Player, Take(p) PROVE WalksFromStored'
  BY <1>2 DEF Take, WalksFromStored, TypeOK
<1>3. ASSUME NEW p \in Player,
             Enter(p) \/ WalkFails(p) \/ Leave(p) \/ LoadSlice(p) \/ Put(p) \/ Erase(p)
      PROVE  WalksFromStored'
  BY <1>3 DEF Enter, WalkFails, Leave, LoadSlice, Put, Erase, WalksFromStored, TypeOK
<1>4. CASE UNCHANGED vars
  BY <1>4 DEF vars, WalksFromStored
<1> QED BY <1>1, <1>2, <1>3, <1>4 DEF Next

\* Only a walk changes a position, of the creature that walks.
LEMMA WhoMoves ==
  ASSUME TypeOK, [Next]_vars, NEW p \in Player, pos'[p] # pos[p]
  PROVE  pc[p] = "moving"
<1>1. PICK r \in Player : Take(r)
  BY DEF Next, vars, Enter, WalkFails, Leave, Walk, LoadSlice, Put, Erase
<1> QED BY <1>1 DEF Take, TypeOK

\* Nobody gets away from a position whose tile is not stored, however the other
\* players walk and whatever updates are lost.
THEOREM StrandedForGood == Spec => StrandedStays
<1>1. Init => WalksFromStored
  BY DEF Init, WalksFromStored
<1>2. TypeOK /\ WalksFromStored /\ [Next]_vars
        => [\A p \in Player : pos[p] \notin Stored => pos'[p] = pos[p]]_vars
  BY WhoMoves DEF WalksFromStored
<1> QED BY <1>1, <1>2, WalksStep, TypeCorrect, PTL DEF Spec, StrandedStays

-----------------------------------------------------------------------------
(* Identifiers.                                                            *)

\* The kind's bit keeps values of the counter below it apart.
LEMMA TaggedApart ==
  ASSUME NEW m \in 0..KindBit - 1, NEW n \in 0..KindBit - 1
  PROVE  /\ Tagged(m) \in ID
         /\ Tagged(m) = Tagged(n) => m = n
<1>1. KindBit \in Nat
  BY KindAssumption
<1>2. m % KindBit = m /\ n % KindBit = n
  BY <1>1
<1> QED BY <1>1, <1>2 DEF Tagged, ID

\* The counter stays below the kind's bit.
LEMMA CountBelow ==
  ASSUME IDInv, ~overlapped
  PROVE  /\ IsFiniteSet(Counted)
         /\ max = Cardinality(Counted)
         /\ max \in 0..KindBit - 1
         /\ (\E c \in Conn : c \notin Counted) => max + 1 \in 0..KindBit - 1
<1>1. /\ IsFiniteSet(Conn) /\ Counted \subseteq Conn
  BY ConnAssumption DEF Counted
<1>2. /\ IsFiniteSet(Counted)
      /\ Cardinality(Counted) \in Nat
      /\ Cardinality(Conn) \in Nat
      /\ Cardinality(Counted) <= Cardinality(Conn)
      /\ Cardinality(Counted) = Cardinality(Conn) => Counted = Conn
  BY <1>1, FS_Subset, FS_CardinalityType
<1>3. max = Cardinality(Counted)
  BY DEF IDInv, CountInv
<1> QED BY <1>1, <1>2, <1>3, KindAssumption

LEMMA InitInv == IDInit => IDInv
<1> SUFFICES ASSUME IDInit PROVE IDInv
  OBVIOUS
<1>1. Counted = {}
  BY DEF IDInit, Counted, Named
<1>2. Cardinality(Counted) = 0
  BY <1>1, FS_EmptySet
<1> QED
  BY <1>2 DEF IDInit, IDInv, IDTypeOK, CountInv, SerialIDsUnique, IDsUnique, OwnEntries, Named, InCall

LEMMA LoadInv == ASSUME IDInv, NEW c \in Conn, Load(c) PROVE IDInv'
<1>1. IDTypeOK'
  BY DEF Load, IDInv, IDTypeOK
<1>2. /\ \A d \in Conn : Named(d)' <=> Named(d)
      /\ Counted' = Counted
      /\ ~overlapped' => ~overlapped /\ \A d \in Conn : ~InCall(d)
  BY DEF Load, IDInv, IDTypeOK, Named, Counted
<1>3. CountInv'
  BY <1>2 DEF Load, IDInv, IDTypeOK, CountInv, InCall, Named
<1>4. SerialIDsUnique' /\ OwnEntries'
  BY <1>2 DEF Load, IDInv, IDTypeOK, SerialIDsUnique, IDsUnique, OwnEntries
<1> QED BY <1>1, <1>3, <1>4 DEF IDInv

LEMMA StoreInv == ASSUME IDInv, NEW c \in Conn, Store(c) PROVE IDInv'
<1>1. IDTypeOK'
  BY DEF Store, IDInv, IDTypeOK
<1>2. \A d \in Conn : Named(d)' <=> Named(d)
  BY DEF Store, IDInv, IDTypeOK, Named
<1>3. ASSUME ~overlapped PROVE CountInv'
  <2>1. c \notin Counted /\ Counted' = Counted \cup {c}
    BY DEF Store, IDInv, IDTypeOK, Counted, Named
  <2>2. /\ IsFiniteSet(Counted) /\ max = Cardinality(Counted)
        /\ max \in 0..KindBit - 1 /\ max + 1 \in 0..KindBit - 1
    BY <1>3, <2>1, CountBelow
  <2>3. Cardinality(Counted') = max + 1
    BY <2>1, <2>2, FS_AddElement
  <2>4. max' = max + 1 /\ seen' = seen /\ seen[c] = max
    BY <1>3 DEF Store, IDInv, CountInv
  <2>5. ASSUME NEW d \in Conn, Named(d)
        PROVE  /\ \E n \in 1..max' : id'[d] = Tagged(n)
               /\ id'[d] # Tagged(max')
    <3>1. PICK n \in 1..max : id[d] = Tagged(n)
      BY <1>3, <2>5 DEF IDInv, CountInv
    <3>2. n \in 0..KindBit - 1 /\ n # max + 1 /\ n \in 1..max + 1
      BY <2>2, KindAssumption
    <3>3. Tagged(n) # Tagged(max + 1)
      BY <2>2, <3>2, TaggedApart
    <3> QED BY <2>4, <3>1, <3>2, <3>3 DEF Store
  <2>6. /\ \A d \in Conn : stage'[d] = "loaded" => seen'[d] = max'
        /\ \A d \in Conn : stage'[d] = "stored" => seen'[d] + 1 = max'
        /\ \A d, e \in Conn : InCall(d)' /\ InCall(e)' => d = e
    BY <1>3, <2>4 DEF Store, IDInv, IDTypeOK, CountInv, InCall
  <2> QED BY <1>2, <2>3, <2>4, <2>5, <2>6 DEF CountInv
<1>4. CountInv'
  BY <1>3 DEF CountInv, Store
<1>5. SerialIDsUnique' /\ OwnEntries'
  BY <1>2 DEF Store, IDInv, IDTypeOK, SerialIDsUnique, IDsUnique, OwnEntries
<1> QED BY <1>1, <1>4, <1>5 DEF IDInv

LEMMA ReturnInv == ASSUME IDInv, NEW c \in Conn, Return(c) PROVE IDInv'
<1>1. PICK n \in {max, seen[c] + 1} : id' = [id EXCEPT ![c] = Tagged(n)]
  BY DEF Return
<1>2. n \in Nat /\ Tagged(n) \in ID
  <2>1. n \in Nat
    BY <1>1 DEF IDInv, IDTypeOK
  <2>2. KindBit \in Nat /\ KindBit > 0
    BY KindAssumption, ConnAssumption, FS_CardinalityType
  <2>3. n % KindBit \in 0..KindBit - 1
    BY <2>1, <2>2
  <2> QED BY <2>1, <2>2, <2>3 DEF Tagged, ID
<1>3. IDTypeOK'
  BY <1>1, <1>2 DEF Return, IDInv, IDTypeOK
<1>4. /\ \A d \in Conn : Named(d)' <=> (Named(d) \/ d = c)
      /\ \A d \in Conn \ {c} : id'[d] = id[d] /\ stage'[d] = stage[d]
      /\ Counted' = Counted
      /\ id'[c] = Tagged(n) /\ stage[c] = "stored" /\ stage'[c] = "named"
  BY <1>1 DEF Return, IDInv, IDTypeOK, Named, Counted
<1>5. ASSUME ~overlapped PROVE n = max /\ max \in 1..KindBit - 1
  <2>1. n = max /\ max \in 0..KindBit - 1 /\ seen[c] + 1 = max /\ seen[c] \in Nat
    BY <1>1, <1>5, CountBelow DEF Return, IDInv, IDTypeOK, CountInv
  <2> QED BY <2>1, KindAssumption
<1>6. ASSUME ~overlapped, NEW d \in Conn, Named(d), id[d] = Tagged(n) PROVE FALSE
  BY <1>4, <1>5, <1>6 DEF IDInv, CountInv
<1>7. CountInv'
  <2> SUFFICES ASSUME ~overlapped PROVE CountInv'
    BY DEF CountInv, Return
  <2>1. \A d \in Conn : Named(d)' => \E k \in 1..max : id'[d] = Tagged(k)
    BY <1>4, <1>5 DEF IDInv, CountInv
  <2>2. \A d, e \in Conn : stage'[d] = "stored" /\ Named(e)' => id'[e] # Tagged(max)
    BY <1>4 DEF IDInv, CountInv, InCall
  <2> QED BY <1>4, <2>1, <2>2 DEF Return, IDInv, IDTypeOK, CountInv, InCall
<1>8. SerialIDsUnique'
  BY <1>4, <1>6 DEF Return, IDInv, SerialIDsUnique, IDsUnique
<1>9. OwnEntries'
  BY <1>4 DEF Return, IDInv, OwnEntries
<1> QED BY <1>3, <1>7, <1>8, <1>9 DEF IDInv

\* Once a connection is named, its steps leave the counter and the names alone.
LEMMA NamedStep ==
  ASSUME IDInv, NEW c \in Conn, Named(c), NEW p \in {"added", "playing", "gone"},
         stage' = [stage EXCEPT ![c] = p], UNCHANGED <<max, seen, id, overlapped>>
  PROVE  IDTypeOK' /\ CountInv' /\ SerialIDsUnique'
<1>1. IDTypeOK'
  BY DEF IDInv, IDTypeOK
<1>2. /\ \A d \in Conn : Named(d)' <=> Named(d)
      /\ \A d \in Conn : stage'[d] = "loaded" <=> stage[d] = "loaded"
      /\ \A d \in Conn : stage'[d] = "stored" <=> stage[d] = "stored"
      /\ Counted' = Counted
  BY DEF IDInv, IDTypeOK, Named, Counted
<1>3. CountInv'
  BY <1>2 DEF IDInv, CountInv, InCall
<1>4. SerialIDsUnique'
  BY <1>2 DEF IDInv, SerialIDsUnique, IDsUnique
<1> QED BY <1>1, <1>3, <1>4

LEMMA FailInv == ASSUME IDInv, NEW c \in Conn, Fail(c) PROVE IDInv'
<1>1. Named(c) /\ stage' = [stage EXCEPT ![c] = "gone"]
  BY DEF Fail, Named
<1>2. IDTypeOK' /\ CountInv' /\ SerialIDsUnique'
  BY <1>1, NamedStep DEF Fail
<1>3. OwnEntries'
  BY DEF Fail, IDInv, IDTypeOK, OwnEntries
<1> QED BY <1>2, <1>3 DEF IDInv

LEMMA AddCreatureInv == ASSUME IDInv, NEW c \in Conn, AddCreature(c) PROVE IDInv'
<1>1. Named(c) /\ stage' = [stage EXCEPT ![c] = "added"] /\ stage[c] = "named"
  BY DEF AddCreature, Named
<1>2. IDTypeOK' /\ CountInv' /\ SerialIDsUnique'
  BY <1>1, NamedStep DEF AddCreature
<1>3. creaturesByID' = SetAt(creaturesByID, id[c], c) /\ UNCHANGED <<id, connections, overlapped>>
  BY DEF AddCreature
<1>4. OwnEntries'
  <2> SUFFICES ASSUME ~overlapped, NEW d \in Conn
               PROVE  /\ stage'[d] \in {"added", "playing"} =>
                           id[d] \in DOMAIN creaturesByID' /\ creaturesByID'[id[d]] = d
                      /\ stage'[d] = "playing" =>
                           id[d] \in DOMAIN connections /\ connections[id[d]] = d
    BY <1>3 DEF OwnEntries
  <2>1. CASE d = c
    BY <1>1, <1>3, <2>1 DEF IDInv, IDTypeOK, SetAt
  <2>2. CASE d # c
    <3>1. stage'[d] = stage[d]
      BY <1>1, <2>2 DEF IDInv, IDTypeOK
    <3>2. Named(d) => id[d] # id[c]
      BY <1>1, <2>2 DEF IDInv, SerialIDsUnique, IDsUnique
    <3> QED BY <1>3, <3>1, <3>2 DEF IDInv, OwnEntries, SetAt, Named
  <2> QED BY <2>1, <2>2
<1> QED BY <1>2, <1>4 DEF IDInv

LEMMA RegisterInv == ASSUME IDInv, NEW c \in Conn, Register(c) PROVE IDInv'
<1>1. Named(c) /\ stage' = [stage EXCEPT ![c] = "playing"] /\ stage[c] = "added"
  BY DEF Register, Named
<1>2. IDTypeOK' /\ CountInv' /\ SerialIDsUnique'
  BY <1>1, NamedStep DEF Register
<1>3. connections' = SetAt(connections, id[c], c) /\ UNCHANGED <<id, creaturesByID, overlapped>>
  BY DEF Register
<1>4. OwnEntries'
  <2> SUFFICES ASSUME ~overlapped, NEW d \in Conn
               PROVE  /\ stage'[d] \in {"added", "playing"} =>
                           id[d] \in DOMAIN creaturesByID /\ creaturesByID[id[d]] = d
                      /\ stage'[d] = "playing" =>
                           id[d] \in DOMAIN connections' /\ connections'[id[d]] = d
    BY <1>3 DEF OwnEntries
  <2>1. CASE d = c
    BY <1>1, <1>3, <2>1 DEF IDInv, IDTypeOK, OwnEntries, SetAt
  <2>2. CASE d # c
    <3>1. stage'[d] = stage[d]
      BY <1>1, <2>2 DEF IDInv, IDTypeOK
    <3>2. Named(d) => id[d] # id[c]
      BY <1>1, <2>2 DEF IDInv, SerialIDsUnique, IDsUnique
    <3> QED BY <1>3, <3>1, <3>2 DEF IDInv, OwnEntries, SetAt, Named
  <2> QED BY <2>1, <2>2
<1> QED BY <1>2, <1>4 DEF IDInv

LEMMA RemoveInv == ASSUME IDInv, NEW c \in Conn, RemoveCreatureByID(c) PROVE IDInv'
<1>1. Named(c) /\ stage' = [stage EXCEPT ![c] = "gone"]
  BY DEF RemoveCreatureByID, Named
<1>2. IDTypeOK' /\ CountInv' /\ SerialIDsUnique'
  BY <1>1, NamedStep DEF RemoveCreatureByID
<1>3. creaturesByID' = Drop(creaturesByID, id[c]) /\ UNCHANGED <<id, connections, overlapped>>
  BY DEF RemoveCreatureByID
<1>4. OwnEntries'
  <2> SUFFICES ASSUME ~overlapped, NEW d \in Conn
               PROVE  /\ stage'[d] \in {"added", "playing"} =>
                           id[d] \in DOMAIN creaturesByID' /\ creaturesByID'[id[d]] = d
                      /\ stage'[d] = "playing" =>
                           id[d] \in DOMAIN connections /\ connections[id[d]] = d
    BY <1>3 DEF OwnEntries
  <2>1. CASE d = c
    BY <1>1, <2>1 DEF IDInv, IDTypeOK
  <2>2. CASE d # c
    <3>1. stage'[d] = stage[d]
      BY <1>1, <2>2 DEF IDInv, IDTypeOK
    <3>2. Named(d) => id[d] # id[c]
      BY <1>1, <2>2 DEF IDInv, SerialIDsUnique, IDsUnique
    <3> QED BY <1>3, <3>1, <3>2 DEF IDInv, OwnEntries, Drop, Named
  <2> QED BY <2>1, <2>2
<1> QED BY <1>2, <1>4 DEF IDInv

LEMMA Invariant == IDSpec => []IDInv
<1>1. IDInv /\ [IDNext]_idVars => IDInv'
  <2> SUFFICES ASSUME IDInv, [IDNext]_idVars PROVE IDInv'
    OBVIOUS
  <2>1. CASE IDNext
    BY <2>1, LoadInv, StoreInv, ReturnInv, FailInv, AddCreatureInv, RegisterInv, RemoveInv
    DEF IDNext
  <2>2. CASE UNCHANGED idVars
    BY <2>2 DEF idVars, IDInv, IDTypeOK, CountInv, Counted, InCall, Named,
                SerialIDsUnique, IDsUnique, OwnEntries
  <2> QED BY <2>1, <2>2
<1> QED BY InitInv, <1>1, PTL DEF IDSpec

\* NewCreatureID (gameworld/gameworld.go:102) gives no two connections the same
\* identifier as long as no two of its calls overlap, whatever else the
\* goroutines of the connections do meanwhile.
THEOREM SerialIDs == IDSpec => []SerialIDsUnique
<1>1. IDInv => SerialIDsUnique
  BY DEF IDInv
<1> QED BY <1>1, Invariant, PTL

\* Then what AddCreature and serveGame put in the two maps under a player's
\* identifier is still there for as long as the player plays, whoever else is
\* removed or registered.
THEOREM OwnEntriesAlways == IDSpec => []OwnEntries
<1>1. IDInv => OwnEntries
  BY DEF IDInv
<1> QED BY <1>1, Invariant, PTL
=============================================================================
