------------------------- MODULE MapDescriptionProofs -------------------------
(***************************************************************************)
(* Proofs about MapDescription, for boxes of every size and at every place *)
(* of a world of every size: the tiles are put in order (AssembledAlways), *)
(* nobody waits for ever unless a floor wraps (NeverBlocks), no tile is    *)
(* missing when the message is written, and the message can be understood  *)
(* (ReadableAlways).                                                       *)
(*                                                                         *)
(* The loops that write the message are recursive functions.  What they    *)
(* compute is proved by induction over sets of numbers (UpTo): a message   *)
(* is related to the tiles by the places that its tokens stand for         *)
(* (Reads), and two ways to read one message have the same places.         *)
(***************************************************************************)
EXTENDS MapDescription, SequenceTheorems, FiniteSetTheorems, TLAPS

\* How many floors are described.
Count == (End + Step - Start) * Step

\* The rank of floor f in the order the floors are described in.
Rank(f) == (f - Start) * Step

LEMMA Sizes ==
  /\ Area \in Nat \ {0}
  /\ Start \in Nat /\ End \in Nat /\ Step \in {1, -1}
  /\ Count \in Nat \ {0}
  /\ Total \in Nat \ {0}
  /\ Total = Count * Area
  /\ \A f \in Floors : f \in Int /\ Rank(f) \in 0..Count - 1
  /\ Rank(Start) = 0
  /\ Rank(End + Step) = Count
  /\ \A f \in Floors : Rank(f + Step) = Rank(f) + 1 /\ f + Step \in Floors \cup {End + Step}
  /\ Start \in Floors
<1>1. Area \in Nat \ {0}
  <2>1. Width \in Nat \ {0} /\ Height \in Nat \ {0}
    BY BoxAssumption
  <2>2. \A a, b \in Nat \ {0} : a * b \in Nat \ {0}
    OBVIOUS
  <2> QED BY <2>1, <2>2 DEF Area
<1>2. /\ Start \in Nat /\ End \in Nat
      /\ IF Underground THEN Step = 1 /\ Start <= End ELSE Step = -1 /\ End <= Start
  BY FloorAssumption DEF Start, End, Step, Underground
<1>3. /\ Count \in Nat \ {0}
      /\ \A f \in Floors : f \in Int /\ Rank(f) \in 0..Count - 1
      /\ Rank(Start) = 0
      /\ Rank(End + Step) = Count
      /\ \A f \in Floors : Rank(f + Step) = Rank(f) + 1 /\ f + Step \in Floors \cup {End + Step}
      /\ Start \in Floors
  <2>1. CASE Underground
    BY <1>2, <2>1 DEF Count, Rank, Floors
  <2>2. CASE ~Underground
    BY <1>2, <2>2 DEF Count, Rank, Floors
  <2> QED BY <2>1, <2>2
<1>4. Total = Count * Area
  BY DEF Total, Count
<1>5. Total \in Nat \ {0}
  <2>1. \A a, b \in Nat \ {0} : a * b \in Nat \ {0}
    OBVIOUS
  <2> QED BY <1>1, <1>3, <1>4, <2>1
<1> QED BY <1>1, <1>2, <1>3, <1>4, <1>5

\* The index of a tile is below the total.
LEMMA IndexBelow ==
  ASSUME NEW r \in 0..Count - 1, NEW k \in 0..Area - 1
  PROVE  /\ r * Area + k \in 0..Total - 1
         /\ r * Area \in 0..Total
         /\ r * Area + Area = (r + 1) * Area
         /\ r * Area + Area \in 0..Total
<1>1. Area \in Nat \ {0} /\ Count \in Nat \ {0} /\ Total = Count * Area
  BY Sizes
<1>2. \A n, a \in Nat, q \in Nat : q + 1 <= n => q * a + a = (q + 1) * a /\ (q + 1) * a <= n * a
  <2>1. \A m, q, a \in Nat : q + 1 <= m => (m - (q + 1)) * a \in Nat
    OBVIOUS
  <2>2. \A m, q, a \in Int : (m - (q + 1)) * a = m * a - (q + 1) * a
    OBVIOUS
  <2> QED BY <2>1, <2>2
<1> QED BY <1>1, <1>2

\* Dividing an index gives back the rank and the number of the tile.
LEMMA Divide ==
  ASSUME NEW a \in Nat \ {0}, NEW r \in Nat, NEW k \in 0..a - 1
  PROVE  (r * a + k) \div a = r /\ (r * a + k) % a = k
<1> DEFINE n == r * a + k
           q == n \div a
           m == n % a
<1>1. n \in Nat
  <2>1. r * a \in Nat
    OBVIOUS
  <2> QED BY <2>1
<1>2. q \in Int /\ m \in 0..a - 1 /\ n = a * q + m
  BY <1>1
<1>3. ~(q <= r - 1)
  <2> SUFFICES ASSUME q <= r - 1 PROVE FALSE
    OBVIOUS
  <2>1. a * q <= a * (r - 1)
    BY <1>2
  <2>2. a * (r - 1) = r * a - a
    OBVIOUS
  <2> HIDE DEF q, m
  <2> QED BY <1>2, <2>1, <2>2
<1>4. ~(q >= r + 1)
  <2> SUFFICES ASSUME q >= r + 1 PROVE FALSE
    OBVIOUS
  <2>1. a * q >= a * (r + 1)
    BY <1>2
  <2>2. a * (r + 1) = r * a + a
    OBVIOUS
  <2> HIDE DEF q, m
  <2> QED BY <1>2, <2>1, <2>2
<1>5. q = r
  BY <1>2, <1>3, <1>4
<1>6. m = k
  <2>1. a * r = r * a
    OBVIOUS
  <2> HIDE DEF q, m
  <2> QED BY <1>2, <1>5, <2>1
<1> QED BY <1>5, <1>6

\* What a description received or on its way says is what its index stands for.
Right(d) ==
  /\ d \in AnyDesc
  /\ d.idx = Rank(d.floor) * Area + d.k

\* The loop's running index and every goroutine's copy of it.
IndexInv ==
  /\ descIdx = Rank(floor) * Area
  /\ phase # "start" => floor = End + Step
  /\ \A f \in Floors :
       worker[f].state # "off" => /\ worker[f].base = Rank(f) * Area
                                  /\ worker[f].sent \in 0..Tiles(f)

AssemblyInv ==
  /\ \A i \in DOMAIN ch : Right(ch[i])
  /\ \A i \in 0..Total - 1 : all[i] # Absent => Right(all[i]) /\ all[i].idx = i

Inv == TypeOK /\ IndexInv /\ AssemblyInv

\* A floor's goroutine describes every tile of the floor, or none.
LEMMA TilesInArea == \A f \in Floors : Tiles(f) \in 0..Area
<1>1. Area \in Nat \ {0} /\ Width \in Nat /\ Height \in Nat
  BY Sizes, BoxAssumption
<1>2. \A x : Rounds(x, Width) \in {0, Width} /\ Rounds(x, Height) \in {0, Height}
  BY DEF Rounds
<1>3. \A n \in Nat : n * 0 = 0 /\ 0 * n = 0
  OBVIOUS
<1>4. \A f \in Floors : Tiles(f) \in {0, Area}
  BY <1>1, <1>2, <1>3 DEF Tiles, Area
<1> QED BY <1>1, <1>4

LEMMA InitInv == Init => Inv
<1> SUFFICES ASSUME Init PROVE Inv
  OBVIOUS
<1>1. TypeOK
  <2>1. /\ 0 \in 0..Total /\ 0 \in 0..Area /\ Start \in Floors
    BY Sizes
  <2>2. NotStarted \in [state : {"off", "run", "done", "failed"}, base : 0..Total, sent : 0..Area]
    BY <2>1 DEF NotStarted
  <2> QED BY <2>1, <2>2 DEF Init, TypeOK
<1>2. IndexInv
  BY Sizes DEF Init, IndexInv, NotStarted
<1>3. AssemblyInv
  BY DEF Init, AssemblyInv
<1> QED BY <1>1, <1>2, <1>3 DEF Inv

LEMMA StartWorkerInv == Inv /\ StartWorker => Inv'
<1> SUFFICES ASSUME Inv, StartWorker PROVE Inv'
  OBVIOUS
<1> USE DEF Inv
<1>1. /\ Rank(floor) \in 0..Count - 1
      /\ Rank(floor + Step) = Rank(floor) + 1
      /\ floor + Step \in Floors \cup {End + Step}
  BY Sizes DEF StartWorker
<1>2. /\ descIdx \in 0..Total
      /\ descIdx + Area = (Rank(floor) + 1) * Area
      /\ descIdx + Area \in 0..Total
  <2>1. 0 \in 0..Area - 1
    BY Sizes
  <2> QED BY <1>1, <2>1, IndexBelow DEF IndexInv
<1>3. TypeOK'
  <2>1. 0 \in 0..Area
    BY Sizes
  <2> QED BY <1>1, <1>2, <2>1 DEF StartWorker, TypeOK
<1>4. IndexInv'
  <2>1. descIdx' = Rank(floor') * Area
    BY <1>1, <1>2 DEF StartWorker
  <2>2. Tiles(floor) \in Nat /\ phase' = "start"
    BY TilesInArea DEF StartWorker
  <2>3. \A f \in Floors :
          worker'[f].state # "off" => /\ worker'[f].base = Rank(f) * Area
                                      /\ worker'[f].sent \in 0..Tiles(f)
    BY <2>2 DEF StartWorker, IndexInv, TypeOK
  <2> QED BY <2>1, <2>2, <2>3 DEF IndexInv
<1>5. AssemblyInv'
  BY DEF StartWorker, AssemblyInv
<1> QED BY <1>3, <1>4, <1>5

LEMMA SendTileInv == ASSUME Inv, NEW f \in Floors, SendTile(f) PROVE Inv'
<1> USE DEF Inv
<1> DEFINE d == Desc(worker[f].base + worker[f].sent, f, worker[f].sent)
<1>1. /\ worker[f].sent \in 0..Area - 1
      /\ worker[f].sent + 1 \in 0..Tiles(f)
      /\ worker[f].base = Rank(f) * Area
  <2>1. Area \in Nat /\ Tiles(f) \in 0..Area
    BY TilesInArea, Sizes
  <2>2. /\ worker[f].state = "run" /\ worker[f].sent < Tiles(f)
        /\ worker[f].base = Rank(f) * Area
        /\ worker[f].sent \in 0..Tiles(f)
    BY DEF SendTile, HasNext, IndexInv
  <2> QED BY <2>1, <2>2
<1>2. Right(d)
  <2>1. Rank(f) \in 0..Count - 1
    BY Sizes
  <2>2. Rank(f) * Area + worker[f].sent \in 0..Total - 1
    BY <1>1, <2>1, IndexBelow
  <2> QED BY <1>1, <2>2 DEF Right, Desc, AnyDesc
<1>3. d \in AnyDesc
  BY <1>2 DEF Right
<1> HIDE DEF d
<1>4. ch' = Append(ch, d)
  BY DEF SendTile, d
<1>5. TypeOK'
  <2>1. worker[f].sent + 1 \in 0..Area
    BY <1>1, Sizes
  <2>2. worker' \in [Floors -> [state : {"off", "run", "done", "failed"},
                                base : 0..Total, sent : 0..Area]]
    BY <2>1 DEF SendTile, TypeOK
  <2>3. ch' \in Seq(AnyDesc)
    BY <1>3, <1>4 DEF TypeOK
  <2> QED BY <2>2, <2>3 DEF SendTile, TypeOK
<1>6. IndexInv'
  BY <1>1 DEF SendTile, IndexInv, TypeOK
<1>7. AssemblyInv'
  <2>1. \A i \in DOMAIN ch' : Right(ch'[i])
    BY <1>2, <1>3, <1>4 DEF AssemblyInv, TypeOK
  <2> QED BY <2>1 DEF SendTile, AssemblyInv
<1> QED BY <1>5, <1>6, <1>7

LEMMA CollectInv == Inv /\ Collect => Inv'
<1> SUFFICES ASSUME Inv, Collect PROVE Inv'
  OBVIOUS
<1> USE DEF Inv
<1>1. /\ ch \in Seq(AnyDesc) /\ ch # <<>>
      /\ Right(Head(ch))
      /\ Head(ch).idx \in 0..Total - 1
      /\ Tail(ch) \in Seq(AnyDesc)
      /\ \A i \in DOMAIN Tail(ch) : Right(Tail(ch)[i])
  <2>1. ch \in Seq(AnyDesc) /\ ch # <<>> /\ \A i \in DOMAIN ch : Right(ch[i])
    BY DEF Collect, AssemblyInv, TypeOK
  <2>2. Head(ch) = ch[1] /\ 1 \in DOMAIN ch
    BY <2>1
  <2>3. \A i \in DOMAIN Tail(ch) : Tail(ch)[i] = ch[i + 1] /\ i + 1 \in DOMAIN ch
    BY <2>1
  <2> QED BY <2>1, <2>2, <2>3 DEF Right, AnyDesc
<1>2. Total \in Nat
  BY Sizes
<1>3. /\ all' = [all EXCEPT ![Head(ch).idx] = Head(ch)]
      /\ received' = received + 1 /\ received < Total /\ ch' = Tail(ch)
      /\ UNCHANGED <<filled, phase, descIdx, floor, worker, out>>
  BY <1>1, <1>2 DEF Collect
<1>4. TypeOK'
  BY <1>1, <1>2, <1>3 DEF TypeOK, Right
<1>5. IndexInv'
  BY <1>3 DEF IndexInv
<1>6. AssemblyInv'
  BY <1>1, <1>3 DEF AssemblyInv, TypeOK
<1> QED BY <1>4, <1>5, <1>6

LEMMA InvStep == Inv /\ [Next]_vars => Inv'
<1> SUFFICES ASSUME Inv, [Next]_vars PROVE Inv'
  OBVIOUS
<1>1. CASE StartWorker
  BY <1>1, StartWorkerInv
<1>2. CASE AllStarted
  BY <1>2, Sizes DEF AllStarted, Inv, TypeOK, IndexInv, AssemblyInv
<1>3. CASE Wait
  BY <1>3 DEF Wait, Inv, TypeOK, IndexInv, AssemblyInv
<1>4. CASE Collect
  BY <1>4, CollectInv
<1>5. CASE Write
  BY <1>5 DEF Write, Inv, TypeOK, IndexInv, AssemblyInv
<1>6. ASSUME NEW f \in Floors, SendTile(f) PROVE Inv'
  BY <1>6, SendTileInv
<1>7. ASSUME NEW f \in Floors, TileFails(f) \/ FloorDone(f) PROVE Inv'
  <2>1. /\ UNCHANGED <<filled, phase, descIdx, floor, ch, all, received>>
        /\ worker[f].state = "run"
        /\ \E s \in {"failed", "done"} : worker' = [worker EXCEPT ![f].state = s]
    BY <1>7 DEF TileFails, FloorDone, HasNext
  <2>2. worker' \in [Floors -> [state : {"off", "run", "done", "failed"},
                                base : 0..Total, sent : 0..Area]]
    BY <2>1 DEF Inv, TypeOK
  <2>3. \A g \in Floors : /\ worker'[g].base = worker[g].base
                          /\ worker'[g].sent = worker[g].sent
                          /\ worker'[g].state # "off" => worker[g].state # "off"
    BY <2>1 DEF Inv, TypeOK
  <2> QED BY <2>1, <2>2, <2>3 DEF Inv, TypeOK, IndexInv, AssemblyInv
<1>8. CASE UNCHANGED vars
  BY <1>8 DEF vars, Inv, TypeOK, IndexInv, AssemblyInv
<1> QED
  BY <1>1, <1>2, <1>3, <1>4, <1>5, <1>6, <1>7, <1>8 DEF Next, Main, Worker

\* Every variable of MapDescription keeps to its type: no index is ever outside
\* the slice it is used with.
THEOREM TypeCorrect == Spec => []TypeOK
<1>1. Inv => TypeOK
  BY DEF Inv
<1> QED BY <1>1, InitInv, InvStep, PTL DEF Spec

\* The tiles are put together in the order of floors and columns, however the
\* goroutines that described them were interleaved.
THEOREM AssembledAlways == Spec => []Assembled
<1>1. Inv => Assembled
  <2> SUFFICES ASSUME Inv, NEW i \in 0..Total - 1, all[i] # Absent
               PROVE  all[i] = Desc(i, Start + (i \div Area) * Step, i % Area)
    BY DEF Assembled
  <2>1. /\ all[i] \in AnyDesc /\ all[i].floor \in Floors
        /\ all[i].idx = i
        /\ i = Rank(all[i].floor) * Area + all[i].k
        /\ all[i].k \in 0..Area - 1
    BY DEF Inv, AssemblyInv, Right, AnyDesc
  <2>2. Rank(all[i].floor) \in Nat /\ Area \in Nat \ {0} /\ all[i].floor \in Int
    <3>1. \A f \in Floors : f \in Int /\ Rank(f) \in Nat
      BY Sizes
    <3> QED BY <2>1, <3>1, Sizes
  <2>3. i \div Area = Rank(all[i].floor) /\ i % Area = all[i].k
    <3> DEFINE r == Rank(all[i].floor)
               k == all[i].k
    <3> HIDE DEF r, k
    <3>1. (r * Area + k) \div Area = r /\ (r * Area + k) % Area = k
      BY <2>1, <2>2, Divide DEF r, k
    <3>2. i = r * Area + k
      BY <2>1 DEF r, k
    <3> QED BY <3>1, <3>2 DEF r, k
  <2>4. Start + Rank(all[i].floor) * Step = all[i].floor
    <3>1. Step \in {1, -1} /\ Start \in Nat
      BY Sizes
    <3>2. CASE Step = 1
      BY <2>2, <3>1, <3>2 DEF Rank
    <3>3. CASE Step = -1
      BY <2>2, <3>1, <3>3 DEF Rank
    <3> QED BY <3>1, <3>2, <3>3
  <2> QED BY <2>1, <2>3, <2>4 DEF AnyDesc, Desc
<1> QED BY <1>1, InitInv, InvStep, PTL DEF Spec

\* The sizes never disagree: the panic of gameworld/map.go:147 is unreachable.
THEOREM TotalIsRight == Spec => [](phase \in {"wait", "collect", "sent"} => descIdx = Total)
<1>1. Inv => (phase \in {"wait", "collect", "sent"} => descIdx = Total)
  BY Sizes DEF Inv, IndexInv
<1> QED BY <1>1, InitInv, InvStep, PTL DEF Spec

-----------------------------------------------------------------------------
(* Every tile is sent once, so that as many as there are make all of them. *)

\* A description that w's goroutines have sent.
Sent(w, d) == w[d.floor].state # "off" /\ d.k < w[d.floor].sent

\* A floor whose turn has not come has no goroutine.
NotYet(w, next) == \A f \in Floors : Rank(next) <= Rank(f) => w[f].state = "off"

\* What is described is described once: on its way, or received.
OnceInv ==
  /\ \A i \in DOMAIN ch : Sent(worker, ch[i])
  /\ \A i \in 0..Total - 1 : all[i] # Absent => Sent(worker, all[i])
  /\ \A i, j \in DOMAIN ch : i # j => ch[i].idx # ch[j].idx
  /\ \A i \in DOMAIN ch : all[ch[i].idx] = Absent
  /\ NotYet(worker, floor)

Received(a) == {i \in 0..Total - 1 : a[i] # Absent}

\* The descriptions received are counted, and the message is made from all.
CountInv ==
  /\ received = Cardinality(Received(all))
  /\ phase # "panic"
  /\ phase = "sent" => /\ \A i \in 0..Total - 1 : all[i] # Absent
                       /\ out = Encode(Contents(filled))

CompleteInv == Inv /\ OnceInv /\ CountInv

\* Floors of the same rank are the same.
LEMMA RankInjective == \A f, g \in Floors : Rank(f) = Rank(g) => f = g
<1>1. Start \in Nat /\ Step \in {1, -1} /\ \A f \in Floors : f \in Int
  BY Sizes
<1>2. CASE Step = 1
  BY <1>1, <1>2 DEF Rank
<1>3. CASE Step = -1
  BY <1>1, <1>3 DEF Rank
<1> QED
  BY <1>1, <1>2, <1>3

\* Descriptions with the same index are of the same tile.
LEMMA SameTile ==
  ASSUME NEW d, Right(d), NEW e, Right(e), d.idx = e.idx
  PROVE  d.floor = e.floor /\ d.k = e.k
<1> DEFINE r == Rank(d.floor)
           q == Rank(e.floor)
           k == d.k
           m == e.k
<1>1. /\ d.floor \in Floors /\ e.floor \in Floors /\ k \in 0..Area - 1 /\ m \in 0..Area - 1
      /\ r * Area + k = q * Area + m
  BY DEF Right, AnyDesc
<1>2. r \in Nat /\ q \in Nat /\ Area \in Nat \ {0}
  <2>1. \A f \in Floors : Rank(f) \in Nat
    BY Sizes
  <2> QED
    BY <1>1, <2>1, Sizes
<1>3. r = q => d.floor = e.floor
  BY <1>1, RankInjective
<1> HIDE DEF r, q, k, m
<1>4. (r * Area + k) \div Area = r /\ (r * Area + k) % Area = k
  BY <1>1, <1>2, Divide
<1>5. (q * Area + m) \div Area = q /\ (q * Area + m) % Area = m
  BY <1>1, <1>2, Divide
<1>6. r = q /\ k = m
  BY ONLY <1>1, <1>4, <1>5
<1> QED
  BY <1>3, <1>6 DEF k, m

\* A description of no tile is none.
LEMMA DescIsThere == \A d \in AnyDesc : d # Absent
<1>1. Total \in Nat /\ \A d \in AnyDesc : d.idx \in 0..Total - 1
  BY Sizes DEF AnyDesc
<1>2. Absent.idx = -1
  BY DEF Absent
<1> QED
  BY <1>1, <1>2

LEMMA InitComplete == Init => OnceInv /\ CountInv
<1> SUFFICES ASSUME Init PROVE OnceInv /\ CountInv
  OBVIOUS
<1>1. Received(all) = {}
  BY DEF Init, Received
<1>2. Cardinality({}) = 0
  BY FS_EmptySet
<1>3. received = Cardinality(Received(all)) /\ phase = "start"
  BY <1>1, <1>2 DEF Init
<1>4. OnceInv
  BY DEF Init, OnceInv, NotYet, NotStarted
<1> QED
  BY <1>3, <1>4 DEF CountInv

LEMMA SendTileOnce == ASSUME Inv, OnceInv, NEW f \in Floors, SendTile(f) PROVE OnceInv'
<1> DEFINE d == Desc(worker[f].base + worker[f].sent, f, worker[f].sent)
<1>1. /\ worker[f].state # "off" /\ worker[f].sent \in Nat
      /\ worker' = [worker EXCEPT ![f].sent = @ + 1]
      /\ worker \in [Floors -> [state : {"off", "run", "done", "failed"},
                                base : 0..Total, sent : 0..Area]]
  BY DEF SendTile, HasNext, Inv, TypeOK
<1>2. /\ worker'[f].state # "off" /\ worker'[f].sent = worker[f].sent + 1
      /\ \A g \in Floors : /\ worker'[g].state = worker[g].state
                           /\ g # f => worker'[g].sent = worker[g].sent
  BY <1>1
<1>3. Inv'
  BY SendTileInv
<1>4. d.floor = f /\ d.k = worker[f].sent
  BY DEF Desc
<1> HIDE DEF d
<1>5. ch' = Append(ch, d) /\ ch \in Seq(AnyDesc) /\ UNCHANGED all
  BY DEF SendTile, d, Inv, TypeOK
<1>6. /\ Len(ch) \in Nat /\ DOMAIN ch = 1..Len(ch) /\ DOMAIN ch' = 1..Len(ch) + 1
      /\ ch'[Len(ch) + 1] = d
      /\ \A i \in DOMAIN ch : ch'[i] = ch[i] /\ i # Len(ch) + 1
      /\ \A i \in DOMAIN ch' : i \in DOMAIN ch \/ i = Len(ch) + 1
  <2>1. /\ Len(ch) \in Nat /\ DOMAIN ch = 1..Len(ch)
        /\ \A i \in 1..Len(ch) : i # Len(ch) + 1
        /\ \A i \in 1..Len(ch) + 1 : i \in 1..Len(ch) \/ i = Len(ch) + 1
    BY <1>5
  <2>2. /\ DOMAIN Append(ch, d) = 1..Len(ch) + 1
        /\ Append(ch, d)[Len(ch) + 1] = d
        /\ \A i \in 1..Len(ch) : Append(ch, d)[i] = ch[i]
    BY <1>5
  <2> QED
    BY <1>5, <2>1, <2>2
<1>7. /\ \A i \in DOMAIN ch' : Right(ch'[i])
      /\ \A i \in 0..Total - 1 : all[i] # Absent => Right(all[i]) /\ all[i].idx = i
  BY <1>3, <1>5 DEF Inv, AssemblyInv
<1>8. Right(d)
  BY <1>6, <1>7
<1>9. \A e : Right(e) /\ Sent(worker, e) => e.idx # d.idx
  <2> SUFFICES ASSUME NEW e, Right(e), Sent(worker, e), e.idx = d.idx PROVE FALSE
    OBVIOUS
  <2>1. e.floor = d.floor /\ e.k = d.k
    BY <1>8, SameTile
  <2> QED
    BY <1>1, <1>4, <2>1 DEF Sent
<1>10. \A e : Right(e) /\ Sent(worker, e) => e.floor \in Floors /\ e.k \in Int /\ Sent(worker', e)
  <2> SUFFICES ASSUME NEW e, Right(e), Sent(worker, e) PROVE e.floor \in Floors /\ e.k \in Int /\ Sent(worker', e)
    OBVIOUS
  <2>1. e.floor \in Floors /\ e.k \in Int /\ e.k < worker[e.floor].sent /\ worker[e.floor].state # "off"
    BY DEF Right, AnyDesc, Sent
  <2>2. e.k < worker'[e.floor].sent /\ worker'[e.floor].state # "off"
    <3>1. CASE e.floor = f
      BY <1>1, <1>2, <2>1, <3>1
    <3>2. CASE e.floor # f
      BY <1>2, <2>1, <3>2
    <3> QED
      BY <3>1, <3>2
  <2> QED
    BY <2>1, <2>2 DEF Sent
<1>11. ASSUME NEW i \in DOMAIN ch'
      PROVE  /\ Sent(worker', ch'[i]) /\ all'[ch'[i].idx] = Absent
  <2>1. CASE i \in DOMAIN ch
    <3>1. Right(ch'[i]) /\ Sent(worker, ch'[i]) /\ all[ch'[i].idx] = Absent
      BY <1>6, <1>7, <2>1 DEF OnceInv
    <3> QED
      BY <1>5, <1>10, <3>1
  <2>2. CASE i = Len(ch) + 1
    <3>1. Sent(worker', d)
      BY <1>1, <1>2, <1>4 DEF Sent
    <3>2. all[d.idx] = Absent
      <4>1. d.idx \in 0..Total - 1
        BY <1>8 DEF Right, AnyDesc
      <4>2. all[d.idx] # Absent => Right(all[d.idx]) /\ all[d.idx].idx = d.idx /\ Sent(worker, all[d.idx])
        BY <1>7, <4>1 DEF OnceInv
      <4> QED
        BY <1>9, <4>2
    <3> QED
      BY <1>5, <1>6, <2>2, <3>1, <3>2
  <2> QED
    BY <1>6, <2>1, <2>2
<1>12. \A i \in DOMAIN ch : ch[i].idx # d.idx
  BY <1>6, <1>7, <1>9 DEF OnceInv
<1>13. \A i, j \in DOMAIN ch' : i # j => ch'[i].idx # ch'[j].idx
  BY <1>6, <1>12 DEF OnceInv
<1>14. \A i \in 0..Total - 1 : all'[i] # Absent => Sent(worker', all'[i])
  BY <1>5, <1>7, <1>10 DEF OnceInv
<1>15. NotYet(worker', floor')
  BY <1>2 DEF SendTile, OnceInv, NotYet
<1> QED
  BY <1>11, <1>13, <1>14, <1>15 DEF OnceInv

LEMMA CollectComplete == CompleteInv /\ Collect => OnceInv' /\ CountInv'
<1> SUFFICES ASSUME CompleteInv, Collect PROVE OnceInv' /\ CountInv'
  OBVIOUS
<1> USE DEF CompleteInv
<1> DEFINE x == Head(ch).idx
<1>1. /\ ch \in Seq(AnyDesc) /\ ch # <<>> /\ Right(ch[1]) /\ Head(ch) = ch[1]
      /\ Len(ch) \in Nat \ {0} /\ DOMAIN ch = 1..Len(ch)
  <2>1. ch \in Seq(AnyDesc) /\ ch # <<>>
    BY DEF Collect, Inv, TypeOK
  <2>2. Head(ch) = ch[1] /\ Len(ch) \in Nat \ {0} /\ DOMAIN ch = 1..Len(ch) /\ 1 \in DOMAIN ch
    BY <2>1
  <2> QED
    BY <2>1, <2>2 DEF Inv, AssemblyInv
<1>2. /\ ch[1] \in AnyDesc /\ x \in 0..Total - 1 /\ x = ch[1].idx /\ Total \in Nat
  BY <1>1, Sizes DEF Right, AnyDesc
<1>3. /\ all' = [all EXCEPT ![x] = ch[1]]
      /\ received' = received + 1 /\ ch' = Tail(ch) /\ phase = "collect"
      /\ UNCHANGED <<filled, phase, descIdx, floor, worker, out>>
  BY <1>1, <1>2 DEF Collect
<1> HIDE DEF x
<1>4. /\ DOMAIN ch' = 1..Len(ch) - 1
      /\ \A i \in DOMAIN ch' : ch'[i] = ch[i + 1] /\ i + 1 \in DOMAIN ch /\ i + 1 # 1
  <2>1. DOMAIN Tail(ch) = 1..Len(ch) - 1 /\ \A i \in 1..Len(ch) - 1 : Tail(ch)[i] = ch[i + 1]
    BY <1>1
  <2> QED
    BY <1>1, <1>3, <2>1
<1>5. /\ all \in [0..Total - 1 -> AnyDesc \cup {Absent}]
      /\ all'[x] = ch[1] /\ ch[1] # Absent /\ all[x] = Absent
      /\ \A i \in 0..Total - 1 : i # x => all'[i] = all[i]
  <2>1. all \in [0..Total - 1 -> AnyDesc \cup {Absent}]
    BY DEF Inv, TypeOK
  <2>2. all[x] = Absent
    BY <1>1, <1>2 DEF OnceInv
  <2> QED
    BY <1>2, <1>3, <2>1, <2>2, DescIsThere
<1>6. \A i \in DOMAIN ch' : Sent(worker', ch'[i]) /\ all'[ch'[i].idx] = Absent
  <2> SUFFICES ASSUME NEW i \in DOMAIN ch'
               PROVE  Sent(worker', ch'[i]) /\ all'[ch'[i].idx] = Absent
    OBVIOUS
  <2>1. /\ i + 1 \in DOMAIN ch /\ ch'[i] = ch[i + 1] /\ Sent(worker, ch[i + 1])
        /\ all[ch[i + 1].idx] = Absent /\ ch[i + 1].idx # x
    BY <1>1, <1>2, <1>4 DEF OnceInv
  <2>2. ch[i + 1].idx \in 0..Total - 1
    BY <2>1 DEF Inv, AssemblyInv, Right, AnyDesc
  <2> QED
    BY <1>3, <1>5, <2>1, <2>2
<1>7. \A i, j \in DOMAIN ch' : i # j => ch'[i].idx # ch'[j].idx
  <2>1. \A i, j \in DOMAIN ch' : i # j => i + 1 # j + 1
    BY <1>1, <1>4
  <2> QED
    BY <1>4, <2>1 DEF OnceInv
<1>8. \A i \in 0..Total - 1 : all'[i] # Absent => Sent(worker', all'[i])
  <2>1. Sent(worker, ch[1])
    BY <1>1 DEF OnceInv
  <2> QED
    BY <1>3, <1>5, <2>1 DEF OnceInv
<1>9. received' = Cardinality(Received(all'))
  <2>1. Received(all') = Received(all) \cup {x} /\ x \notin Received(all)
    BY <1>2, <1>5 DEF Received
  <2>2. IsFiniteSet(Received(all))
    <3>1. IsFiniteSet(0..Total - 1)
      BY <1>2, FS_Interval
    <3>2. Received(all) \in SUBSET (0..Total - 1)
      BY DEF Received
    <3> QED
      BY <3>1, <3>2, FS_Subset
  <2>3. Cardinality(Received(all) \cup {x}) = Cardinality(Received(all)) + 1
    BY <2>1, <2>2, FS_AddElement
  <2> QED
    BY <1>3, <2>1, <2>3 DEF CountInv
<1> QED
  BY <1>3, <1>6, <1>7, <1>8, <1>9 DEF OnceInv, CountInv

\* When as many descriptions were received as there are tiles, none is missing.
LEMMA AllReceived == CompleteInv /\ received = Total => \A i \in 0..Total - 1 : all[i] # Absent
<1> SUFFICES ASSUME CompleteInv, received = Total PROVE \A i \in 0..Total - 1 : all[i] # Absent
  OBVIOUS
<1>1. Total \in Nat \ {0}
  BY Sizes
<1>2. IsFiniteSet(0..Total - 1) /\ Cardinality(0..Total - 1) = Total
  BY <1>1, FS_Interval
<1>3. Received(all) \in SUBSET (0..Total - 1)
  BY DEF Received
<1>4. Received(all) = 0..Total - 1
  BY <1>2, <1>3, FS_Subset DEF CompleteInv, CountInv
<1> QED
  BY <1>4 DEF Received

LEMMA WriteComplete == CompleteInv /\ Write => OnceInv' /\ CountInv'
<1> SUFFICES ASSUME CompleteInv, Write PROVE OnceInv' /\ CountInv'
  OBVIOUS
<1>1. /\ UNCHANGED <<filled, descIdx, floor, worker, ch, all, received>>
      /\ \A i \in 0..Total - 1 : all[i] # Absent
  BY AllReceived DEF Write
<1>2. DOMAIN all = 0..Total - 1
  BY DEF CompleteInv, Inv, TypeOK
<1>3. out' = Encode(Contents(filled)) /\ phase' = "sent"
  BY <1>1, <1>2 DEF Write
<1>4. Contents(filled)' = Contents(filled)
  BY <1>1 DEF Contents
<1>5. OnceInv'
  BY <1>1 DEF CompleteInv, OnceInv
<1>6. CountInv'
  <2>1. Received(all') = Received(all)
    BY <1>1
  <2>2. Encode(Contents(filled)') = out'
    BY <1>3, <1>4
  <2> QED
    BY <1>1, <1>3, <2>1, <2>2 DEF CompleteInv, CountInv
<1> QED
  BY <1>5, <1>6

LEMMA CompleteStep == CompleteInv /\ [Next]_vars => CompleteInv'
<1> SUFFICES ASSUME CompleteInv, [Next]_vars PROVE OnceInv' /\ CountInv'
  BY InvStep DEF CompleteInv
<1> USE DEF CompleteInv
<1>1. CASE StartWorker
  <2>1. /\ UNCHANGED <<filled, phase, ch, all, received, out>> /\ phase = "start"
        /\ floor \in Floors
        /\ \A f \in Floors : f # floor => worker'[f] = worker[f]
    BY <1>1 DEF StartWorker, Inv, TypeOK
  <2>2. floor' = floor + Step /\ Rank(floor') = Rank(floor) + 1 /\ Rank(floor) \in Int
    <3>1. \A f \in Floors : Rank(f) \in Int
      BY Sizes
    <3> QED
      BY <1>1, <2>1, <3>1, Sizes DEF StartWorker
  <2>3. worker[floor].state = "off"
    BY <2>1, <2>2 DEF OnceInv, NotYet
  <2>4. \A d : Right(d) /\ Sent(worker, d) => Sent(worker', d)
    <3>1. \A d : Right(d) => d.floor \in Floors
      BY DEF Right, AnyDesc
    <3> QED
      BY <2>1, <2>3, <3>1 DEF Sent
  <2>5. NotYet(worker', floor')
    <3>1. \A f \in Floors : Rank(f) \in Int
      BY Sizes
    <3>2. \A f \in Floors : Rank(floor') <= Rank(f) => f # floor /\ Rank(floor) <= Rank(f)
      BY <2>2, <3>1
    <3> QED
      BY <2>1, <3>2 DEF OnceInv, NotYet
  <2>6. OnceInv'
    BY <2>1, <2>4, <2>5 DEF OnceInv, Inv, AssemblyInv
  <2> QED
    BY <2>1, <2>6 DEF CountInv
<1>2. CASE AllStarted
  BY <1>2 DEF AllStarted, OnceInv, CountInv
<1>3. CASE Wait
  <2>1. phase' # "panic" /\ phase' # "sent"
    BY <1>3, Sizes DEF Wait, Inv, IndexInv
  <2> QED
    BY <1>3, <2>1 DEF Wait, OnceInv, CountInv
<1>4. CASE Collect
  BY <1>4, CollectComplete
<1>5. CASE Write
  BY <1>5, WriteComplete
<1>6. ASSUME NEW f \in Floors, SendTile(f) PROVE OnceInv' /\ CountInv'
  <2>1. OnceInv'
    BY <1>6, SendTileOnce
  <2>2. CountInv'
    BY <1>6 DEF SendTile, HasNext, CountInv, Contents
  <2> QED
    BY <2>1, <2>2
<1>7. ASSUME NEW f \in Floors, TileFails(f) \/ FloorDone(f) PROVE OnceInv' /\ CountInv'
  <2>1. /\ UNCHANGED <<filled, phase, descIdx, floor, ch, all, received, out>>
        /\ worker[f].state = "run"
        /\ \E s \in {"failed", "done"} : worker' = [worker EXCEPT ![f].state = s]
    BY <1>7 DEF TileFails, FloorDone, HasNext
  <2>2. \A g \in Floors : /\ worker'[g].sent = worker[g].sent
                          /\ worker[g].state # "off" => worker'[g].state # "off"
                          /\ worker[g].state = "off" => worker'[g].state = "off"
    BY <2>1 DEF Inv, TypeOK
  <2>3. \A d : Right(d) /\ Sent(worker, d) => Sent(worker', d)
    <3>1. \A d : Right(d) => d.floor \in Floors
      BY DEF Right, AnyDesc
    <3> QED
      BY <2>2, <3>1 DEF Sent
  <2>4. NotYet(worker', floor')
    BY <2>1, <2>2 DEF OnceInv, NotYet
  <2>7. /\ \A i \in DOMAIN ch : Right(ch[i]) /\ Sent(worker, ch[i])
        /\ \A i \in 0..Total - 1 : all[i] # Absent => Right(all[i]) /\ Sent(worker, all[i])
    BY DEF OnceInv, Inv, AssemblyInv
  <2>8. ch' = ch /\ all' = all /\ floor' = floor
    BY <2>1
  <2>5. OnceInv'
    <3>1. \A i \in DOMAIN ch : Sent(worker', ch[i])
      BY <2>3, <2>7
    <3>2. \A i \in 0..Total - 1 : all[i] # Absent => Sent(worker', all[i])
      BY <2>3, <2>7
    <3> QED
      BY <2>4, <2>8, <3>1, <3>2 DEF OnceInv
  <2>6. CountInv'
    BY <2>1 DEF CountInv, Contents
  <2> QED
    BY <2>5, <2>6
<1>8. CASE UNCHANGED vars
  BY <1>8 DEF vars, OnceInv, CountInv, Contents
<1> QED
  BY <1>1, <1>2, <1>3, <1>4, <1>5, <1>6, <1>7, <1>8 DEF Next, Main, Worker

-----------------------------------------------------------------------------
(* Nobody waits for the channel.                                           *)

\* A description is on its way in c, or received in a.
Settled(a, c, i) == a[i] # Absent \/ \E j \in DOMAIN c : c[j].idx = i

\* No description is lost, and the collector begins when all floors are done.
LossInv ==
  /\ \A f \in Floors : \A k \in 0..worker[f].sent - 1 : Settled(all, ch, Rank(f) * Area + k)
  /\ \A f \in Floors : worker[f].state = "done" => worker[f].sent = Tiles(f)
  /\ \A f \in Floors : Rank(f) < Rank(floor) => worker[f].state # "off"
  /\ phase = "collect" => \A f \in Floors : worker[f].state = "done"

\* Goroutines have room for what they send, and the collector, unless a floor
\* ends at an edge, gets what it waits for.
NobodyBlocked ==
  /\ \A f \in Floors : HasNext(f) => Len(ch) < Total
  /\ WithinBounds /\ phase = "collect" /\ received < Total => ch # <<>>

LEMMA InitLoss == Init => LossInv
<1> SUFFICES ASSUME Init PROVE LossInv
  OBVIOUS
<1>1. \A f \in Floors : worker[f] = NotStarted /\ NotStarted.sent = 0 /\ NotStarted.state = "off"
  BY DEF Init, NotStarted
<1>2. \A f \in Floors : ~ (Rank(f) < Rank(floor))
  <2>1. \A f \in Floors : Rank(f) \in Nat
    BY Sizes
  <2> QED
    BY <2>1, Sizes DEF Init
<1>3. phase = "start"
  BY DEF Init
<1> QED
  BY <1>1, <1>2, <1>3 DEF LossInv

LEMMA SendTileLoss == ASSUME Inv, LossInv, NEW f \in Floors, SendTile(f) PROVE LossInv'
<1> DEFINE d == Desc(worker[f].base + worker[f].sent, f, worker[f].sent)
<1>1. /\ worker[f].state = "run" /\ worker[f].sent \in Nat
      /\ worker[f].base = Rank(f) * Area
      /\ worker' = [worker EXCEPT ![f].sent = @ + 1]
      /\ worker \in [Floors -> [state : {"off", "run", "done", "failed"},
                                base : 0..Total, sent : 0..Area]]
      /\ UNCHANGED <<phase, floor, all>>
  BY DEF SendTile, HasNext, Inv, TypeOK, IndexInv
<1>2. /\ worker'[f].sent = worker[f].sent + 1 /\ worker'[f].state = "run"
      /\ \A g \in Floors : /\ worker'[g].state = worker[g].state
                           /\ g # f => worker'[g].sent = worker[g].sent
  BY <1>1
<1>3. d.idx = Rank(f) * Area + worker[f].sent
  BY <1>1 DEF Desc
<1> HIDE DEF d
<1>4. ch' = Append(ch, d) /\ ch \in Seq(AnyDesc)
  BY DEF SendTile, d, Inv, TypeOK
<1>5. /\ \A j \in DOMAIN ch : j \in DOMAIN ch' /\ ch'[j] = ch[j]
      /\ \E j \in DOMAIN ch' : ch'[j] = d
  <2>1. /\ Len(ch) \in Nat /\ DOMAIN ch = 1..Len(ch)
        /\ DOMAIN Append(ch, d) = 1..Len(ch) + 1
        /\ Append(ch, d)[Len(ch) + 1] = d
        /\ \A j \in 1..Len(ch) : Append(ch, d)[j] = ch[j]
    BY <1>4
  <2>2. Len(ch) + 1 \in 1..Len(ch) + 1 /\ \A j \in 1..Len(ch) : j \in 1..Len(ch) + 1
    BY <2>1
  <2> QED
    BY <1>4, <2>1, <2>2
<1>6. \A i : Settled(all, ch, i) => Settled(all, ch', i)
  BY <1>5 DEF Settled
<1>7. Settled(all, ch', Rank(f) * Area + worker[f].sent)
  BY <1>3, <1>5 DEF Settled
<1>8. ASSUME NEW g \in Floors, NEW k \in 0..worker'[g].sent - 1
      PROVE  Settled(all, ch', Rank(g) * Area + k)
  <2>1. CASE g = f
    <3>1. k \in 0..worker[f].sent - 1 \/ k = worker[f].sent
      BY <1>1, <1>2, <2>1
    <3> QED
      BY <1>6, <1>7, <2>1, <3>1 DEF LossInv
  <2>2. CASE g # f
    BY <1>2, <1>6, <2>2 DEF LossInv
  <2> QED
    BY <2>1, <2>2
<1>9. \A g \in Floors : worker'[g].state = "done" => g # f
  BY <1>2
<1>10. \A g \in Floors : worker'[g].state = "done" => worker'[g].sent = Tiles(g)
  BY <1>2, <1>9 DEF LossInv
<1>11. phase # "collect"
  BY <1>1 DEF LossInv
<1> QED
  BY <1>1, <1>2, <1>8, <1>10, <1>11 DEF LossInv

LEMMA LossStep == CompleteInv /\ LossInv /\ [Next]_vars => LossInv'
<1> SUFFICES ASSUME CompleteInv, LossInv, [Next]_vars PROVE LossInv'
  OBVIOUS
<1> USE DEF CompleteInv
<1>1. CASE StartWorker
  <2>1. /\ UNCHANGED <<ch, all, phase>> /\ phase = "start"
        /\ floor \in Floors /\ floor' = floor + Step
        /\ \A f \in Floors : f # floor => worker'[f] = worker[f]
        /\ worker'[floor].state = "run" /\ worker'[floor].sent = 0
    BY <1>1 DEF StartWorker, Inv, TypeOK
  <2>2. /\ \A f \in Floors : Rank(f) \in Int
        /\ Rank(floor') = Rank(floor) + 1
    BY <2>1, Sizes
  <2>3. \A f \in Floors : Rank(f) < Rank(floor') => f = floor \/ Rank(f) < Rank(floor)
    <3>1. \A f \in Floors : Rank(f) = Rank(floor) => f = floor
      BY <2>1, RankInjective
    <3> QED
      BY <2>1, <2>2, <3>1
  <2>4. \A f \in Floors : Rank(f) < Rank(floor') => worker'[f].state # "off"
    BY <2>1, <2>3 DEF LossInv
  <2>5. \A f \in Floors : worker'[f].state = "done" => f # floor
    BY <2>1
  <2>6. \A f \in Floors : worker'[f].state = "done" => worker'[f].sent = Tiles(f)
    BY <2>1, <2>5 DEF LossInv
  <2>7. ASSUME NEW f \in Floors, NEW k \in 0..worker'[f].sent - 1
        PROVE  Settled(all, ch, Rank(f) * Area + k)
    <3>1. f # floor
      BY <2>1
    <3> QED
      BY <2>1, <3>1 DEF LossInv
  <2> QED
    BY <2>1, <2>4, <2>6, <2>7 DEF LossInv
<1>2. CASE AllStarted
  BY <1>2 DEF AllStarted, LossInv
<1>3. CASE Wait
  <2>1. /\ UNCHANGED <<floor, worker, ch, all>> /\ phase = "wait"
        /\ \A f \in Floors : worker[f].state # "run"
        /\ phase' = "collect" => \A f \in Floors : worker[f].state # "failed"
    BY <1>3 DEF Wait
  <2>2. floor = End + Step
    BY <2>1 DEF Inv, IndexInv
  <2>3. \A f \in Floors : Rank(f) < Rank(floor)
    <3>1. Rank(floor) = Count /\ Count \in Nat /\ \A f \in Floors : Rank(f) \in 0..Count - 1
      BY <2>2, Sizes
    <3> QED
      BY <3>1
  <2>4. \A f \in Floors : worker[f].state \in {"off", "run", "done", "failed"}
    BY DEF Inv, TypeOK
  <2>5. phase' = "collect" => \A f \in Floors : worker[f].state = "done"
    BY <2>1, <2>3, <2>4 DEF LossInv
  <2> QED
    BY <2>1, <2>5 DEF LossInv
<1>4. CASE Collect
  <2> DEFINE x == Head(ch).idx
  <2>1. /\ ch \in Seq(AnyDesc) /\ ch # <<>> /\ Right(ch[1]) /\ Head(ch) = ch[1]
        /\ Len(ch) \in Nat \ {0} /\ DOMAIN ch = 1..Len(ch)
    <3>1. ch \in Seq(AnyDesc) /\ ch # <<>>
      BY <1>4 DEF Collect, Inv, TypeOK
    <3>2. Head(ch) = ch[1] /\ Len(ch) \in Nat \ {0} /\ DOMAIN ch = 1..Len(ch) /\ 1 \in DOMAIN ch
      BY <3>1
    <3> QED
      BY <3>1, <3>2 DEF Inv, AssemblyInv
  <2>2. ch[1] \in AnyDesc /\ x \in 0..Total - 1 /\ x = ch[1].idx /\ Total \in Nat
    BY <2>1, Sizes DEF Right, AnyDesc
  <2>3. /\ all' = [all EXCEPT ![x] = ch[1]] /\ ch' = Tail(ch)
        /\ UNCHANGED <<phase, floor, worker>>
    BY <1>4, <2>1, <2>2 DEF Collect
  <2> HIDE DEF x
  <2>4. /\ all'[x] = ch[1] /\ ch[1] # Absent
        /\ \A i : i # x => all'[i] = all[i]
    BY <2>2, <2>3, DescIsThere DEF Inv, TypeOK
  <2>5. \A j \in DOMAIN ch : j # 1 => j - 1 \in DOMAIN ch' /\ ch'[j - 1] = ch[j]
    <3>1. DOMAIN Tail(ch) = 1..Len(ch) - 1 /\ \A i \in 1..Len(ch) - 1 : Tail(ch)[i] = ch[i + 1]
      BY <2>1
    <3>2. \A j \in 1..Len(ch) : j # 1 => j - 1 \in 1..Len(ch) - 1 /\ j - 1 + 1 = j
      BY <2>1
    <3> QED
      BY <2>1, <2>3, <3>1, <3>2
  <2>6. ASSUME NEW i, Settled(all, ch, i) PROVE Settled(all', ch', i)
    <3>1. CASE i = x
      BY <2>4, <3>1 DEF Settled
    <3>2. CASE i # x
      <4>1. CASE all[i] # Absent
        BY <2>4, <3>2, <4>1 DEF Settled
      <4>2. CASE \E j \in DOMAIN ch : ch[j].idx = i
        <5>1. PICK j \in DOMAIN ch : ch[j].idx = i
          BY <4>2
        <5>2. j # 1
          BY <2>2, <3>2, <5>1
        <5> QED
          BY <2>5, <5>1, <5>2 DEF Settled
      <4> QED
        BY <2>6, <4>1, <4>2 DEF Settled
    <3> QED
      BY <3>1, <3>2
  <2> QED
    BY <2>3, <2>6 DEF LossInv
<1>5. CASE Write
  <2>1. UNCHANGED <<floor, worker, ch, all>> /\ phase' # "collect"
    BY <1>5 DEF Write
  <2> QED
    BY <2>1 DEF LossInv
<1>6. ASSUME NEW f \in Floors, SendTile(f) PROVE LossInv'
  BY <1>6, SendTileLoss
<1>7. ASSUME NEW f \in Floors, TileFails(f) \/ FloorDone(f) PROVE LossInv'
  <2>1. /\ UNCHANGED <<phase, floor, ch, all>>
        /\ worker[f].state = "run"
        /\ \E s \in {"failed", "done"} : /\ worker' = [worker EXCEPT ![f].state = s]
                                         /\ s = "done" => worker[f].sent = Tiles(f)
    BY <1>7 DEF TileFails, FloorDone, HasNext
  <2>2. \A g \in Floors : /\ worker'[g].sent = worker[g].sent
                          /\ worker[g].state # "off" => worker'[g].state # "off"
                          /\ worker'[g].state = "done" =>
                               worker[g].state = "done" \/ worker[g].sent = Tiles(g)
    BY <2>1 DEF Inv, TypeOK
  <2>3. phase # "collect"
    BY <2>1 DEF LossInv
  <2> QED
    BY <2>1, <2>2, <2>3 DEF LossInv
<1>8. CASE UNCHANGED vars
  BY <1>8 DEF vars, LossInv
<1> QED
  BY <1>1, <1>2, <1>3, <1>4, <1>5, <1>6, <1>7, <1>8 DEF Next, Main, Worker

\* The channel has room for the description that comes next: its index is in the array, as
\* are those on the channel, and no two of them are the same.
LEMMA RoomForMore == ASSUME CompleteInv, NEW f \in Floors, HasNext(f) PROVE Len(ch) < Total
<1> USE DEF CompleteInv
<1> DEFINE d == Desc(Rank(f) * Area + worker[f].sent, f, worker[f].sent)
<1>1. /\ worker[f].state = "run" /\ worker[f].sent \in 0..Area - 1
  <2>1. Tiles(f) \in 0..Area /\ Area \in Nat
    BY TilesInArea, Sizes
  <2>2. worker[f].state = "run" /\ worker[f].sent \in 0..Tiles(f) /\ worker[f].sent < Tiles(f)
    BY DEF HasNext, Inv, IndexInv
  <2> QED
    BY <2>1, <2>2
<1>2. Right(d) /\ d.floor = f /\ d.k = worker[f].sent
  <2>1. Rank(f) \in 0..Count - 1
    BY Sizes
  <2>2. Rank(f) * Area + worker[f].sent \in 0..Total - 1
    BY <1>1, <2>1, IndexBelow
  <2> QED
    BY <1>1, <2>2 DEF Right, AnyDesc, Desc
<1> HIDE DEF d
<1>3. ch \in Seq(AnyDesc) /\ Len(ch) \in Nat /\ DOMAIN ch = 1..Len(ch)
  BY DEF Inv, TypeOK
<1>4. \A i \in 1..Len(ch) : Right(ch[i]) /\ Sent(worker, ch[i]) /\ ch[i].idx \in 0..Total - 1
  BY <1>3 DEF Inv, AssemblyInv, OnceInv, Right, AnyDesc
<1>5. \A i \in 1..Len(ch) : ch[i].idx # d.idx
  <2> SUFFICES ASSUME NEW i \in 1..Len(ch), ch[i].idx = d.idx PROVE FALSE
    OBVIOUS
  <2>1. ch[i].floor = f /\ ch[i].k = worker[f].sent
    BY <1>2, <1>4, SameTile
  <2>2. worker[f].sent < worker[f].sent
    BY <1>4, <2>1 DEF Sent
  <2> QED
    BY <1>1, <2>2
<1>6. d.idx \in 0..Total - 1 /\ Total \in Nat
  BY <1>2, Sizes DEF Right, AnyDesc
<1> SUFFICES ASSUME ~ (Len(ch) < Total) PROVE FALSE
  OBVIOUS
<1> DEFINE L == Len(ch)
           g == [i \in 1..L + 1 |-> IF i = L + 1 THEN d.idx ELSE ch[i].idx]
<1>7. L \in Nat /\ Total <= L
  BY <1>3, <1>6
<1>8. \A i \in 1..L + 1 : i # L + 1 => i \in 1..L
  BY <1>7
<1>9. g \in [1..L + 1 -> 0..Total - 1]
  BY <1>4, <1>6, <1>8
<1>10. \A i, j \in 1..L + 1 : i # j => g[i] # g[j]
  <2> SUFFICES ASSUME NEW i \in 1..L + 1, NEW j \in 1..L + 1, i # j PROVE g[i] # g[j]
    OBVIOUS
  <2>1. CASE i = L + 1
    BY <1>5, <1>8, <2>1
  <2>2. CASE j = L + 1
    BY <1>5, <1>8, <2>2
  <2>3. CASE i # L + 1 /\ j # L + 1
    BY <1>3, <1>8, <2>3 DEF OnceInv
  <2> QED
    BY <2>1, <2>2, <2>3
<1> HIDE DEF g, L
<1>11. /\ IsFiniteSet(1..L + 1) /\ Cardinality(1..L + 1) = L + 1
       /\ IsFiniteSet(0..Total - 1) /\ Cardinality(0..Total - 1) = Total
  <2>1. IsFiniteSet(1..L + 1) /\ Cardinality(1..L + 1) = L + 1
    BY <1>7, FS_Interval
  <2>2. IsFiniteSet(0..Total - 1) /\ Cardinality(0..Total - 1) = Total
    BY <1>6, FS_Interval
  <2> QED
    BY <2>1, <2>2
<1>12. Cardinality(0..Total - 1) < Cardinality(1..L + 1)
  BY <1>6, <1>7, <1>11
<1>13. \E i, j \in 1..L + 1 : i # j /\ g[i] = g[j]
  BY ONLY <1>9, <1>11, <1>12, FS_PigeonHole
<1> QED
  BY <1>10, <1>13

\* Every index below the total is that of a tile of a floor.
LEMMA TileOfIndex ==
  ASSUME NEW i \in 0..Total - 1
  PROVE  \E f \in Floors : \E k \in 0..Area - 1 : i = Rank(f) * Area + k
<1>1. Area \in Nat \ {0} /\ Count \in Nat \ {0} /\ Total = Count * Area /\ i \in Nat /\ i < Total
  BY Sizes
<1>2. PICK q \in Nat : q = i \div Area
  BY <1>1
<1>3. PICK k \in 0..Area - 1 : k = i % Area
  BY <1>1
<1>4. i = Area * q + k
  BY <1>1, <1>2, <1>3
<1>5. q < Count
  <2> SUFFICES ASSUME ~ (q < Count) PROVE FALSE
    OBVIOUS
  <2>1. \A a, b, n \in Nat : ~ (b < n) => n * a <= a * b
    <3>1. \A a, b, n \in Nat : ~ (b < n) => b - n \in Nat
      OBVIOUS
    <3>2. \A a, c \in Nat : a * c \in Nat
      OBVIOUS
    <3>3. \A a, b, n \in Nat : a * (b - n) = a * b - n * a
      OBVIOUS
    <3>4. \A a, b \in Nat : a * b \in Nat /\ b * a \in Nat
      OBVIOUS
    <3> SUFFICES ASSUME NEW a \in Nat, NEW b \in Nat, NEW n \in Nat, ~ (b < n) PROVE n * a <= a * b
      OBVIOUS
    <3>5. a * (b - n) \in Nat
      BY <3>1, <3>2
    <3>6. PICK u \in Nat : u = n * a
      BY <3>4
    <3>7. PICK v \in Nat : v = a * b
      BY <3>4
    <3>8. v - u \in Nat
      BY <3>3, <3>5, <3>6, <3>7
    <3>9. u <= v
      BY <3>8
    <3> QED
      BY <3>6, <3>7, <3>9
  <2>2. Count * Area <= Area * q
    BY <1>1, <2>1
  <2> QED
    BY <1>1, <1>4, <2>2
<1>6. \E f \in Floors : Rank(f) = q
  <2>1. /\ Start \in Nat /\ End \in Nat
        /\ IF Underground THEN Step = 1 /\ Start <= End ELSE Step = -1 /\ End <= Start
    BY FloorAssumption DEF Start, End, Step, Underground
  <2>2. CASE Underground
    <3>1. Start + q \in Floors /\ Rank(Start + q) = q
      BY <1>5, <2>1, <2>2 DEF Count, Rank, Floors
    <3> QED
      BY <3>1
  <2>3. CASE ~ Underground
    <3>1. Start - q \in Floors /\ Rank(Start - q) = q
      BY <1>5, <2>1, <2>3 DEF Count, Rank, Floors
    <3> QED
      BY <3>1
  <2> QED
    BY <2>2, <2>3
<1>7. Area * q = q * Area
  BY <1>1
<1> QED
  BY <1>3, <1>4, <1>6, <1>7

\* No goroutine that describes a floor ever waits for room on tilesCh, for
\* boxes of every size and wherever they lie; and unless a floor ends where
\* coordinates wrap, the collector never waits for a description that will not
\* come (gameworld/map.go:118, 159, 241).
THEOREM NeverBlocks == Spec => []NobodyBlocked
<1>1. Init => CompleteInv /\ LossInv
  BY InitInv, InitComplete, InitLoss DEF CompleteInv
<1>2. CompleteInv /\ LossInv => NobodyBlocked
  <2> SUFFICES ASSUME CompleteInv, LossInv PROVE NobodyBlocked
    OBVIOUS
  <2>1. ASSUME WithinBounds, phase = "collect", received < Total, ch = <<>> PROVE FALSE
    <3>1. Total \in Nat \ {0} /\ Area \in Nat
      BY Sizes
    <3>2. \A f \in Floors : worker[f].sent = Area
      BY <2>1 DEF LossInv, WithinBounds
    <3>3. \A i \in 0..Total - 1 : all[i] # Absent
      <4> SUFFICES ASSUME NEW i \in 0..Total - 1 PROVE all[i] # Absent
        OBVIOUS
      <4>1. PICK f \in Floors : \E k \in 0..Area - 1 : i = Rank(f) * Area + k
        BY TileOfIndex
      <4>2. PICK k \in 0..Area - 1 : i = Rank(f) * Area + k
        BY <4>1
      <4>3. k \in 0..worker[f].sent - 1
        BY <3>2
      <4>4. Settled(all, ch, i)
        BY <4>2, <4>3 DEF LossInv
      <4>5. DOMAIN ch = {}
        BY <2>1
      <4> QED
        BY <4>4, <4>5 DEF Settled
    <3>4. Received(all) = 0..Total - 1
      BY <3>3 DEF Received
    <3>5. Cardinality(0..Total - 1) = Total
      BY <3>1, FS_Interval
    <3>6. received = Total
      BY <3>4, <3>5 DEF CompleteInv, CountInv
    <3> QED
      BY <2>1, <3>1, <3>6
  <2> QED
    BY <2>1, RoomForMore DEF NobodyBlocked
<1>3. (CompleteInv /\ LossInv) /\ [Next]_vars => (CompleteInv /\ LossInv)'
  BY CompleteStep, LossStep
<1> QED
  BY <1>1, <1>2, <1>3, PTL DEF Spec

-----------------------------------------------------------------------------
(* Induction without a schema: over sets of numbers.                       *)

\* Among numbers up to L one is the least.
LEMMA Least ==
  ASSUME NEW L \in Nat, NEW S, S \subseteq 0..L, S # {}
  PROVE  \E x \in S : \A y \in S : ~ (y < x)
<1> DEFINE Below == {0..x : x \in S}
           R == StrictSubsetOrdering(Nat)
<1>1. \A x \in 0..L : 0..x \in FiniteSubsetsOf(Nat)
  <2>1. \A x \in 0..L : IsFiniteSet(0..x)
    BY FS_Interval
  <2>2. \A x \in 0..L : 0..x \subseteq Nat
    OBVIOUS
  <2> QED
    BY <2>1, <2>2 DEF FiniteSubsetsOf
<1>2. Below \subseteq FiniteSubsetsOf(Nat) /\ Below # {}
  BY <1>1
<1>3. \A x, y \in 0..L : y < x => <<0..y, 0..x>> \in R
  <2>1. \A x, y \in 0..L : y < x => x \in 0..x /\ x \notin 0..y /\ 0..y \subseteq 0..x
    OBVIOUS
  <2>2. \A x \in 0..L : 0..x \in SUBSET Nat
    OBVIOUS
  <2> QED
    BY <2>1, <2>2 DEF StrictSubsetOrdering
<1>4. IsWellFoundedOn(R, FiniteSubsetsOf(Nat))
  BY FS_StrictSubsetOrderingWellFounded
<1> HIDE DEF R
<1>5. PICK u \in Below : \A z \in Below : ~ (<<z, u>> \in R)
  BY ONLY <1>2, <1>4, WFMin
<1>6. PICK x \in S : u = 0..x
  BY <1>5
<1>7. \A y \in S : ~ (<<0..y, 0..x>> \in R)
  BY <1>5, <1>6
<1>8. \A y \in S : y \in 0..L /\ x \in 0..L
  BY <1>6
<1> QED
  BY ONLY <1>3, <1>6, <1>7, <1>8, Zenon

\* Induction up to L: a set that has a number when it has all smaller ones has
\* them all.
LEMMA UpTo ==
  ASSUME NEW L \in Nat, NEW S,
         \A n \in 0..L : (\A m \in 0..n - 1 : m \in S) => n \in S
  PROVE  \A n \in 0..L : n \in S
<1> SUFFICES ASSUME (0..L) \ S # {} PROVE FALSE
  OBVIOUS
<1>1. PICK x \in (0..L) \ S : \A y \in (0..L) \ S : ~ (y < x)
  BY Least
<1>2. \A m \in 0..x - 1 : m \in 0..L /\ m < x
  BY <1>1
<1> QED
  BY <1>1, <1>2

-----------------------------------------------------------------------------
(* Skip counts.                                                            *)

Token == {Tile} \cup {Skip(x) : x \in 0..Base - 1}

\* Tiles and skip counts are told apart.
LEMMA TokensDiffer ==
  /\ \A x \in 0..Base - 1 : Skip(x) # Tile /\ Skip(x) \in Token
  /\ \A x, y \in 0..Base - 1 : Skip(x) = Skip(y) => x = y
  /\ Tile \in Token
<1>1. \A x : Skip(x) # Tile
  <2>1. \A x : DOMAIN Skip(x) = {"skip"}
    BY DEF Skip
  <2>2. DOMAIN Tile = {"tile"}
    BY DEF Tile
  <2>3. "tile" # "skip"
    OBVIOUS
  <2> QED
    BY <2>1, <2>2, <2>3
<1>2. \A x, y : Skip(x) = Skip(y) => x = y
  <2>1. \A x : Skip(x).skip = x
    BY DEF Skip
  <2> QED
    BY <2>1
<1> QED
  BY <1>1, <1>2 DEF Token

CodeValue(g, n) ==
  IF n < Base THEN <<Skip(n)>>
  ELSE IF n = Base THEN <<Skip(Base - 1)>>
  ELSE <<Skip(Base - 1)>> \o g[n - Base]

\* The recursive function exists.
LEMMA SkipCodeIs == \A n \in 0..Total : SkipCode[n] = CodeValue(SkipCode, n)
<1> DEFINE S == {n \in 0..Total : \E g : g = [m \in 0..n |-> CodeValue(g, m)]}
<1>1. Base \in Nat \ {0, 1} /\ Total \in Nat
  BY BaseAssumption, Sizes
<1>2. ASSUME NEW n \in 0..Total, \A m \in 0..n - 1 : m \in S
      PROVE  n \in S
  <2>1. PICK f : \A m \in 0..n - 1 : f[m] = CodeValue(f, m)
    <3>1. CASE n = 0
      BY <3>1
    <3>2. CASE n # 0
      <4>1. n - 1 \in 0..n - 1 /\ n - 1 \in S
        BY <1>1, <1>2, <3>2
      <4> QED
        BY <4>1
    <3> QED
      BY <3>1, <3>2
  <2> DEFINE g == [m \in 0..n |-> IF m = n THEN CodeValue(f, n) ELSE f[m]]
  <2>2. \A m \in 0..n : m # n => m \in 0..n - 1
    OBVIOUS
  <2>3. \A m \in 0..n : CodeValue(g, m) = CodeValue(f, m)
    <3>1. \A m \in 0..n : ~(m < Base) => m - Base \in 0..n /\ m - Base # n
      BY <1>1
    <3>2. \A m \in 0..n : ~(m < Base) => g[m - Base] = f[m - Base]
      BY <3>1
    <3> HIDE DEF g
    <3> QED
      BY <3>2 DEF CodeValue
  <2>4. \A m \in 0..n : g[m] = CodeValue(g, m)
    BY <2>1, <2>2, <2>3
  <2>5. g = [m \in 0..n |-> CodeValue(g, m)]
    <3>1. g = [m \in 0..n |-> g[m]]
      OBVIOUS
    <3> HIDE DEF g
    <3> QED
      BY <2>4, <3>1
  <2> HIDE DEF g
  <2> QED
    BY <2>5
<1> HIDE DEF S
<1>3. Total \in S
  <2>1. \A n \in 0..Total : n \in S
    BY <1>1, <1>2, UpTo
  <2> QED
    BY <1>1, <2>1
<1>4. \E g : g = [m \in 0..Total |-> CodeValue(g, m)]
  BY <1>3 DEF S
<1>5. SkipCode = [m \in 0..Total |-> CodeValue(SkipCode, m)]
  BY <1>4 DEF SkipCode, CodeValue
<1> QED
  BY <1>5

\* The skip counts in c skip n tiles: all but the last stand for Base, and so may the last
\* if nothing is left.
SkipsTo(c, n, w) ==
  /\ w[1] = 0 /\ w[Len(c) + 1] = n /\ \A j \in 1..Len(c) + 1 : w[j] <= n
  /\ \A j \in 1..Len(c) - 1 : c[j] = Skip(Base - 1) /\ w[j + 1] = w[j] + Base
  /\ \E x \in 0..Base - 1 :
       /\ c[Len(c)] = Skip(x)
       /\ \/ n = w[Len(c)] + x
          \/ n = w[Len(c)] + Base /\ x = Base - 1 /\ \E q \in Nat \ {0} : n = q * Base

Skips(c, n) ==
  /\ c \in Seq(Token) /\ c # <<>>
  /\ \E w \in [1..Len(c) + 1 -> Nat] : SkipsTo(c, n, w)

\* One more count before the others.
LEMMA OneMoreSkip ==
  ASSUME NEW c, NEW n \in Nat, n # 0, Skips(c, n)
  PROVE  Skips(<<Skip(Base - 1)>> \o c, n + Base)
<1>1. Base \in Nat \ {0, 1} /\ Base - 1 \in 0..Base - 1
  BY BaseAssumption
<1>2. PICK w \in [1..Len(c) + 1 -> Nat] : SkipsTo(c, n, w)
  BY DEF Skips
<1> DEFINE s == Skip(Base - 1)
           d == <<s>> \o c
           L == Len(c)
           v == [j \in 1..L + 2 |-> IF j = 1 THEN 0 ELSE w[j - 1] + Base]
<1>3. s \in Token
  BY <1>1, TokensDiffer
<1> HIDE DEF s
<1>4. L \in Nat \ {0} /\ c \in Seq(Token)
  BY DEF Skips
<1>5. /\ d \in Seq(Token) /\ Len(d) = L + 1 /\ d[1] = s /\ d # <<>>
      /\ \A j \in 1..L : d[j + 1] = c[j]
  <2>1. <<s>> \in Seq(Token) /\ Len(<<s>>) = 1 /\ <<s>>[1] = s
    BY <1>3
  <2>2. /\ d \in Seq(Token) /\ Len(d) = 1 + L
        /\ \A j \in 1..1 + L : d[j] = IF j <= 1 THEN <<s>>[j] ELSE c[j - 1]
    BY <1>4, <2>1, ConcatProperties
  <2> HIDE DEF d
  <2>3. 1 \in 1..1 + L /\ \A j \in 1..L : j + 1 \in 1..1 + L /\ ~(j + 1 <= 1) /\ j + 1 - 1 = j
    BY <1>4
  <2>4. d # <<>>
    BY <1>4, <2>2
  <2> QED
    BY <1>4, <2>1, <2>2, <2>3, <2>4
<1>6. v \in [1..L + 2 -> Nat]
  <2>1. \A j \in 1..L + 2 : j # 1 => j - 1 \in 1..L + 1
    BY <1>4
  <2> QED
    BY <1>1, <1>2, <2>1
<1>7. v[1] = 0 /\ \A j \in 1..L + 1 : v[j + 1] = w[j] + Base
  BY <1>4
<1> HIDE DEF v, d, L
<1>8. \A j \in 1..L : d[j] = s /\ v[j + 1] = v[j] + Base
  <2> SUFFICES ASSUME NEW j \in 1..L PROVE d[j] = s /\ v[j + 1] = v[j] + Base
    OBVIOUS
  <2>1. CASE j = 1
    BY <1>1, <1>2, <1>4, <1>5, <1>7, <2>1 DEF SkipsTo
  <2>2. CASE j # 1
    <3>1. j - 1 \in 1..L - 1 /\ j - 1 + 1 = j /\ j - 1 \in 1..L /\ j - 1 \in 1..L + 1 /\ j \in 1..L + 1
      BY <1>4, <2>2
    <3>2. c[j - 1] = s /\ w[j - 1 + 1] = w[j - 1] + Base
      BY <1>2, <3>1 DEF SkipsTo, s, L
    <3>3. d[j - 1 + 1] = c[j - 1] /\ v[j - 1 + 1] = w[j - 1] + Base /\ v[j + 1] = w[j] + Base
      BY <1>5, <1>7, <3>1
    <3> QED
      BY <3>1, <3>2, <3>3
  <2> QED
    BY <2>1, <2>2
<1>9. w[L] \in Nat /\ L \in 1..L + 1 /\ L \in 1..L /\ L + 1 \in 1..L + 1
  BY <1>2, <1>4 DEF L
<1>10. PICK z \in Nat : z = w[L]
  BY <1>9
<1>11. v[L + 1] = z + Base /\ v[L + 2] = n + Base /\ d[L + 1] = c[L]
  <2>1. v[L + 2] = w[L + 1] + Base
    <3>1. L + 1 + 1 = L + 2
      BY <1>4
    <3> QED
      BY <1>7, <1>9, <3>1
  <2> QED
    BY <1>2, <1>5, <1>7, <1>9, <1>10, <2>1 DEF SkipsTo, L
<1>12. PICK x \in 0..Base - 1 :
       /\ c[L] = Skip(x)
       /\ \/ n = z + x
          \/ n = z + Base /\ x = Base - 1 /\ \E q \in Nat \ {0} : n = q * Base
  BY <1>2, <1>10 DEF SkipsTo, L
<1>13. (\E q \in Nat \ {0} : n = q * Base) => \E q \in Nat \ {0} : n + Base = q * Base
  <2> SUFFICES ASSUME NEW q \in Nat \ {0}, n = q * Base PROVE \E p \in Nat \ {0} : n + Base = p * Base
    OBVIOUS
  <2>1. \A a, b \in Nat : a * b + b = (a + 1) * b
    OBVIOUS
  <2>2. n + Base = (q + 1) * Base /\ q + 1 \in Nat \ {0}
    BY <1>1, <2>1
  <2> QED
    BY <2>2
<1>14. \/ n + Base = v[L + 1] + x
       \/ n + Base = v[L + 1] + Base /\ x = Base - 1 /\ \E q \in Nat \ {0} : n + Base = q * Base
  <2>1. CASE n = z + x
    BY <1>1, <1>11, <2>1
  <2>2. CASE n = z + Base /\ x = Base - 1 /\ \E q \in Nat \ {0} : n = q * Base
    BY <1>1, <1>11, <1>13, <2>2
  <2> QED
    BY <1>12, <2>1, <2>2
<1>16. \A j \in 1..L + 2 : v[j] <= n + Base
  <2> SUFFICES ASSUME NEW j \in 1..L + 2 PROVE v[j] <= n + Base
    OBVIOUS
  <2>1. CASE j = 1
    BY <1>1, <1>7, <2>1
  <2>2. CASE j # 1
    <3>1. j - 1 \in 1..L + 1 /\ j - 1 + 1 = j
      BY <1>4, <2>2
    <3>2. w[j - 1] \in Nat /\ w[j - 1] <= n /\ v[j] = w[j - 1] + Base
      <4>1. v[j - 1 + 1] = w[j - 1] + Base
        BY <1>7, <3>1
      <4> QED
        BY <1>2, <3>1, <4>1 DEF SkipsTo, L
    <3> QED
      BY <1>1, <3>2
  <2> QED
    BY <2>1, <2>2
<1>15. SkipsTo(d, n + Base, v)
  <2>1. Len(d) = L + 1 /\ Len(d) + 1 = L + 2 /\ Len(d) - 1 = L
    BY <1>4, <1>5
  <2>2. d[Len(d)] = Skip(x)
    BY <1>11, <1>12, <2>1
  <2> QED
    BY <1>7, <1>8, <1>11, <1>14, <1>16, <2>1, <2>2 DEF SkipsTo, s
<1> QED
  <2>1. Len(d) + 1 = L + 2
    BY <1>4, <1>5
  <2> QED
    BY <1>5, <1>6, <1>15, <2>1 DEF Skips, d, s

\* One count.
LEMMA OneSkip ==
  ASSUME NEW n \in Nat, NEW x \in 0..Base - 1,
         n = x \/ (n = Base /\ x = Base - 1)
  PROVE  Skips(<<Skip(x)>>, n)
<1>0. Base \in Nat \ {0, 1}
  BY BaseAssumption
<1> DEFINE w == [j \in 1..2 |-> IF j = 1 THEN 0 ELSE n]
           c == <<Skip(x)>>
<1>1. c \in Seq(Token) /\ Len(c) = 1 /\ c[1] = Skip(x) /\ c # <<>>
  <2>1. Skip(x) \in Token
    BY TokensDiffer
  <2> QED
    BY <2>1
<1>2. w \in [1..2 -> Nat] /\ w[1] = 0 /\ w[2] = n
  OBVIOUS
<1> HIDE DEF w, c
<1>3. n = Base => \E q \in Nat \ {0} : n = q * Base
  <2>1. Base = 1 * Base
    BY <1>0
  <2> QED
    BY <2>1
<1>4. SkipsTo(c, n, w)
  <2>1. Len(c) - 1 = 0 /\ Len(c) + 1 = 2 /\ \A j \in 1..0 : FALSE
    BY <1>1
  <2>3. \A j \in 1..2 : w[j] <= n
    BY <1>2
  <2>2. \/ n = 0 + x
        \/ n = 0 + Base /\ x = Base - 1 /\ \E q \in Nat \ {0} : n = q * Base
    BY <1>0, <1>3
  <2> QED
    BY <1>1, <1>2, <2>1, <2>2, <2>3 DEF SkipsTo
<1> QED
  BY <1>1, <1>2, <1>4 DEF Skips, c
\* Every skip count is written so.
LEMMA SkipCodeSkips == \A n \in 0..Total : Skips(SkipCode[n], n)
<1> DEFINE S == {n \in 0..Total : Skips(SkipCode[n], n)}
<1>1. Base \in Nat \ {0, 1} /\ Base - 1 \in 0..Base - 1 /\ Total \in Nat
  BY BaseAssumption, Sizes
<1>3. ASSUME NEW n \in 0..Total, \A m \in 0..n - 1 : m \in S
      PROVE  n \in S
  <2>1. SkipCode[n] = CodeValue(SkipCode, n)
    BY SkipCodeIs
  <2>2. CASE n < Base
    <3>1. n \in 0..Base - 1
      BY <1>1, <2>2
    <3>2. SkipCode[n] = <<Skip(n)>>
      BY <2>1, <2>2 DEF CodeValue
    <3>3. Skips(<<Skip(n)>>, n)
      BY <3>1, OneSkip
    <3> QED
      BY ONLY <3>2, <3>3, n \in 0..Total
  <2>3. CASE n = Base
    <3>1. ~(n < Base)
      BY <1>1, <2>3
    <3>2. SkipCode[n] = <<Skip(Base - 1)>>
      BY <1>1, <2>1, <2>3, <3>1 DEF CodeValue
    <3>3. Skips(<<Skip(Base - 1)>>, n)
      BY <1>1, <2>3, OneSkip
    <3> QED
      BY ONLY <3>2, <3>3, n \in 0..Total
  <2>4. CASE n > Base
    <3>1. n - Base \in Nat /\ n - Base # 0 /\ n - Base \in 0..n - 1 /\ n - Base + Base = n
      BY <1>1, <2>4
    <3>2. Skips(SkipCode[n - Base], n - Base)
      BY <1>3, <3>1
    <3>3. Skips(<<Skip(Base - 1)>> \o SkipCode[n - Base], n)
      BY <3>1, <3>2, OneMoreSkip
    <3>4. SkipCode[n] = <<Skip(Base - 1)>> \o SkipCode[n - Base]
      BY <1>1, <2>1, <2>4 DEF CodeValue
    <3> QED
      BY <3>3, <3>4
  <2> QED
    BY <1>1, <2>2, <2>3, <2>4
<1> HIDE DEF S
<1>4. \A n \in 0..Total : n \in S
  BY <1>1, <1>3, UpTo
<1> QED
  BY <1>4 DEF S

-----------------------------------------------------------------------------
(* What a message says of the tiles.                                       *)

\* The j-th token of c stands for the tiles from the one after p to q.
StandsFor(t, c, j, p, q) ==
  \/ c[j] = Tile /\ q = p + 1 /\ t[q]
  \/ \E x \in 0..Base - 1 :
       /\ c[j] = Skip(x)
       /\ \A i \in p + 1..q : ~ t[i]
       /\ IF j < Len(c) /\ c[j + 1] # Tile THEN q = p + Base
          ELSE q = p + x \/ (q = p + x + 1 /\ RunOfBase(t))

\* The tokens of c stand for the first n tiles, one after the other.
Reads(t, c, pos, n) ==
  /\ pos \in [1..Len(c) + 1 -> Nat]
  /\ pos[1] = 0 /\ pos[Len(c) + 1] = n
  /\ \A j \in 1..Len(c) : StandsFor(t, c, j, pos[j], pos[j + 1])

Readings(t, c, n) == c \in Seq(Token) /\ \E pos : Reads(t, c, pos, n)

\* Tokens written after others.
LEMMA Joined ==
  ASSUME NEW c \in Seq(Token), NEW s \in Seq(Token)
  PROVE  /\ c \o s \in Seq(Token) /\ Len(c \o s) = Len(c) + Len(s)
         /\ \A j \in 1..Len(c) : (c \o s)[j] = c[j]
         /\ \A j \in 1..Len(s) : (c \o s)[Len(c) + j] = s[j]
<1> DEFINE d == c \o s
<1>1. PICK L \in Nat : L = Len(c)
  OBVIOUS
<1>2. PICK K \in Nat : K = Len(s)
  OBVIOUS
<1>3. /\ d \in Seq(Token) /\ Len(d) = L + K
      /\ \A j \in 1..L + K : d[j] = IF j <= L THEN c[j] ELSE s[j - L]
  BY <1>1, <1>2, ConcatProperties
<1> HIDE DEF d
<1>4. /\ \A j \in 1..L : j \in 1..L + K /\ j <= L
      /\ \A j \in 1..K : L + j \in 1..L + K /\ ~(L + j <= L) /\ L + j - L = j
  OBVIOUS
<1>5. \A j \in 1..L : d[j] = c[j]
  BY ONLY <1>3, <1>4
<1>6. \A j \in 1..K : d[L + j] = s[j]
  BY ONLY <1>3, <1>4
<1> QED
  BY <1>1, <1>2, <1>3, <1>5, <1>6 DEF d

\* A tile is written.
LEMMA AddTile ==
  ASSUME NEW t \in [1..Total -> BOOLEAN], NEW n \in Nat, n + 1 \in 1..Total,
         t[n + 1], NEW c, Readings(t, c, n)
  PROVE  /\ Readings(t, c \o <<Tile>>, n + 1)
         /\ (c \o <<Tile>>)[Len(c \o <<Tile>>)] = Tile /\ c \o <<Tile>> # <<>>
<1>1. PICK pos : Reads(t, c, pos, n)
  BY DEF Readings
<1> DEFINE L == Len(c)
           d == c \o <<Tile>>
           e == [j \in 1..L + 2 |-> IF j = L + 2 THEN n + 1 ELSE pos[j]]
<1>2. c \in Seq(Token) /\ L \in Nat /\ Tile \in Token
  BY TokensDiffer DEF Readings
<1>3. /\ d \in Seq(Token) /\ Len(d) = L + 1 /\ d[L + 1] = Tile
      /\ \A j \in 1..L : d[j] = c[j]
  <2>1. <<Tile>> \in Seq(Token) /\ Len(<<Tile>>) = 1 /\ <<Tile>>[1] = Tile
    BY <1>2
  <2>2. 1 \in 1..1
    OBVIOUS
  <2> QED
    BY <1>2, <2>1, <2>2, Joined
<1> HIDE DEF d
<1>4. /\ pos \in [1..L + 1 -> Nat] /\ pos[1] = 0 /\ pos[L + 1] = n
      /\ \A j \in 1..L : StandsFor(t, c, j, pos[j], pos[j + 1])
  BY <1>1 DEF Reads
<1> HIDE DEF L
<1>5. /\ e \in [1..L + 2 -> Nat] /\ e[L + 2] = n + 1
      /\ \A j \in 1..L + 1 : e[j] = pos[j]
  <2>1. \A j \in 1..L + 2 : j # L + 2 => j \in 1..L + 1
    BY <1>2
  <2>2. \A j \in 1..L + 1 : j # L + 2 /\ j \in 1..L + 2
    BY <1>2
  <2> QED
    BY <1>2, <1>4, <2>1, <2>2
<1> HIDE DEF e
<1>6. ASSUME NEW j \in 1..L PROVE StandsFor(t, d, j, e[j], e[j + 1])
  <2>1. j \in 1..L + 1 /\ j + 1 \in 1..L + 1 /\ (j < L => j + 1 \in 1..L)
    BY <1>2
  <2>2. e[j] = pos[j] /\ e[j + 1] = pos[j + 1] /\ d[j] = c[j]
    BY <1>3, <1>5, <2>1
  <2>3. (j < Len(d) /\ d[j + 1] # Tile) <=> (j < L /\ c[j + 1] # Tile)
    <3>1. CASE j < L
      BY <1>2, <1>3, <2>1, <3>1
    <3>2. CASE ~(j < L)
      <4>1. j = L
        BY <1>2, <3>2
      <4> QED
        BY <1>3, <3>2, <4>1
    <3> QED
      BY <3>1, <3>2
  <2>4. StandsFor(t, c, j, pos[j], pos[j + 1])
    BY <1>4
  <2> QED
    BY <2>2, <2>3, <2>4 DEF StandsFor, L
<1>7. StandsFor(t, d, L + 1, e[L + 1], e[L + 2])
  <2>1. e[L + 1] = n /\ e[L + 2] = n + 1
    BY <1>2, <1>4, <1>5
  <2> QED
    BY <1>3, <2>1 DEF StandsFor
<1>8. Reads(t, d, e, n + 1)
  <2>1. Len(d) + 1 = L + 2 /\ L + 1 + 1 = L + 2 /\ \A j \in 1..Len(d) : j \in 1..L \/ j = L + 1
    BY <1>2, <1>3
  <2>2. e[1] = 0
    BY <1>2, <1>4, <1>5
  <2>3. \A j \in 1..Len(d) : StandsFor(t, d, j, e[j], e[j + 1])
    BY <1>6, <1>7, <2>1
  <2> QED
    BY <1>5, <2>1, <2>2, <2>3 DEF Reads
<1>9. d # <<>>
  BY <1>2, <1>3
<1> QED
  BY <1>3, <1>8, <1>9 DEF Readings, d

\* All the tiles between two others are skipped.
LEMMA AddSkips ==
  ASSUME NEW t \in [1..Total -> BOOLEAN], NEW n \in Nat, NEW m \in Nat, n + m <= Total,
         n # 0 => t[n], n + m < Total => t[n + m + 1],
         \A i \in n + 1..n + m : ~ t[i],
         NEW c, Readings(t, c, n), c # <<>> => c[Len(c)] = Tile,
         NEW s, Skips(s, m)
  PROVE  Readings(t, c \o s, n + m)
<1>1. PICK pos : Reads(t, c, pos, n)
  BY DEF Readings
<1>2. PICK w \in [1..Len(s) + 1 -> Nat] : SkipsTo(s, m, w)
  BY DEF Skips
<1> DEFINE L == Len(c)
           K == Len(s)
           d == c \o s
           e == [j \in 1..L + K + 1 |-> IF j <= L THEN pos[j] ELSE n + w[j - L]]
<1>3. c \in Seq(Token) /\ L \in Nat /\ s \in Seq(Token) /\ K \in Nat \ {0}
  BY DEF Readings, Skips
<1>4. /\ d \in Seq(Token) /\ Len(d) = L + K
      /\ \A j \in 1..L : d[j] = c[j]
      /\ \A j \in 1..K : d[L + j] = s[j]
  BY <1>3, Joined
<1> HIDE DEF d
<1>5. /\ pos \in [1..L + 1 -> Nat] /\ pos[1] = 0 /\ pos[L + 1] = n
      /\ \A j \in 1..L : StandsFor(t, c, j, pos[j], pos[j + 1])
  BY <1>1 DEF Reads
<1>6. /\ w \in [1..K + 1 -> Nat] /\ w[1] = 0 /\ w[K + 1] = m /\ \A j \in 1..K + 1 : w[j] <= m
      /\ \A j \in 1..K - 1 : s[j] = Skip(Base - 1) /\ w[j + 1] = w[j] + Base
  BY <1>2 DEF SkipsTo
<1>7. PICK x \in 0..Base - 1 :
        /\ s[K] = Skip(x)
        /\ \/ m = w[K] + x
           \/ m = w[K] + Base /\ x = Base - 1 /\ \E q \in Nat \ {0} : m = q * Base
  BY <1>2 DEF SkipsTo
<1>8. L # 0 => c[L] = Tile
  BY <1>3
<1> HIDE DEF L, K
<1>9. Base \in Nat \ {0, 1} /\ Base - 1 \in 0..Base - 1 /\ Total \in Nat \ {0}
  BY BaseAssumption, Sizes
<1>10. /\ e \in [1..L + K + 1 -> Nat]
       /\ \A j \in 1..L + 1 : e[j] = pos[j]
       /\ \A j \in 1..K + 1 : e[L + j] = n + w[j]
  <2>0. \A j \in 1..K + 1 : n + w[j] \in Nat
    <3> SUFFICES ASSUME NEW j \in 1..K + 1 PROVE n + w[j] \in Nat
      OBVIOUS
    <3>1. w[j] \in Nat
      BY ONLY <1>6, j \in 1..K + 1
    <3> QED
      BY ONLY <3>1, n \in Nat
  <2>1. \A j \in 1..L + K + 1 : /\ j <= L => j \in 1..L + 1
                                /\ ~(j <= L) => j - L \in 1..K + 1
    BY <1>3
  <2>2. e \in [1..L + K + 1 -> Nat]
    BY ONLY <1>5, <2>0, <2>1
  <2>3. \A j \in 1..K + 1 : e[L + j] = n + w[j]
    <3>1. \A j \in 1..K + 1 : L + j \in 1..L + K + 1 /\ ~(L + j <= L) /\ L + j - L = j
      BY <1>3
    <3> QED
      BY ONLY <1>3, <3>1
  <2>4. \A j \in 1..L + 1 : e[j] = pos[j]
    <3> SUFFICES ASSUME NEW j \in 1..L + 1 PROVE e[j] = pos[j]
      OBVIOUS
    <3>1. CASE j = L + 1
      <4>1. 1 \in 1..K + 1
        BY <1>3
      <4>2. e[L + 1] = n + 0
        BY ONLY <1>6, <2>3, <4>1
      <4>3. n + 0 = n
        OBVIOUS
      <4> QED
        BY ONLY <1>5, <3>1, <4>2, <4>3
    <3>2. CASE j # L + 1
      <4>1. j \in 1..L + K + 1 /\ j <= L
        BY <1>3, <3>2
      <4> QED
        BY <4>1
    <3> QED
      BY <3>1, <3>2
  <2> QED
    BY <2>2, <2>3, <2>4
<1> HIDE DEF e
<1>11. ASSUME NEW j \in 1..L PROVE StandsFor(t, d, j, e[j], e[j + 1])
  <2>1. j \in 1..L + 1 /\ j + 1 \in 1..L + 1 /\ (j < L => j + 1 \in 1..L)
    BY <1>3
  <2>2. e[j] = pos[j] /\ e[j + 1] = pos[j + 1] /\ d[j] = c[j]
    BY <1>4, <1>10, <2>1
  <2>4. StandsFor(t, c, j, pos[j], pos[j + 1])
    BY <1>5
  <2>5. CASE j < L
    <3>1. (j < Len(d) /\ d[j + 1] # Tile) <=> (j < L /\ c[j + 1] # Tile)
      <4>1. j < L + K /\ d[j + 1] = c[j + 1]
        BY <1>3, <1>4, <2>1, <2>5
      <4> QED
        BY <1>4, <2>5, <4>1
    <3> QED
      BY <2>2, <2>4, <3>1 DEF StandsFor, L
  <2>6. CASE ~(j < L)
    <3>1. j = L /\ c[j] = Tile
      BY <1>3, <1>8, <2>6
    <3>2. pos[j + 1] = pos[j] + 1 /\ t[pos[j + 1]]
      BY <2>4, <3>1, TokensDiffer DEF StandsFor
    <3> QED
      BY <2>2, <3>1, <3>2 DEF StandsFor
  <2> QED
    BY <2>5, <2>6
<1>12. ASSUME NEW j \in 1..K PROVE StandsFor(t, d, L + j, e[L + j], e[L + j + 1])
  <2>1. j \in 1..K + 1 /\ j + 1 \in 1..K + 1 /\ L + (j + 1) = L + j + 1
    BY <1>3
  <2>2. PICK y \in Nat : y = w[j]
    BY <1>6, <2>1
  <2>3. PICK z \in Nat : z = w[j + 1]
    BY <1>6, <2>1
  <2>4. y <= m /\ z <= m /\ e[L + j] = n + y /\ e[L + j + 1] = n + z /\ d[L + j] = s[j]
    BY <1>4, <1>6, <1>10, <2>1, <2>2, <2>3
  <2>5. \A i \in n + y + 1..n + z : ~ t[i]
    <3>1. \A i \in n + y + 1..n + z : i \in n + 1..n + m
      BY <2>4
    <3> QED
      BY <3>1
  <2>6. CASE j # K
    <3>1. j \in 1..K - 1 /\ j + 1 \in 1..K /\ L + j < L + K
      BY <1>3, <2>6
    <3>2. s[j] = Skip(Base - 1) /\ z = y + Base
      BY <1>6, <2>2, <2>3, <3>1
    <3>3. s[j + 1] # Tile
      <4>1. CASE j + 1 = K
        BY <1>7, <4>1, TokensDiffer
      <4>2. CASE j + 1 # K
        <5>1. j + 1 \in 1..K - 1
          BY <1>3, <3>1, <4>2
        <5> QED
          BY <1>6, <1>9, <5>1, TokensDiffer
      <4> QED
        BY <4>1, <4>2
    <3>4. L + j < Len(d) /\ d[L + j + 1] # Tile
      <4>1. d[L + (j + 1)] = s[j + 1]
        BY <1>4, <3>1
      <4> QED
        BY <1>4, <2>1, <3>1, <3>3, <4>1
    <3>5. n + z = (n + y) + Base
      BY <1>9, <3>2
    <3> QED
      BY <1>9, <2>4, <2>5, <3>2, <3>4, <3>5 DEF StandsFor
  <2>7. CASE j = K
    <3>1. ~(L + j < Len(d)) /\ z = m /\ d[L + j] = Skip(x)
      BY <1>3, <1>4, <1>6, <1>7, <2>3, <2>4, <2>7
    <3>2. n + z = n + y + x \/ (n + z = n + y + x + 1 /\ RunOfBase(t))
      <4>1. CASE m = w[K] + x
        BY <1>9, <2>2, <2>7, <3>1, <4>1
      <4>2. CASE m = w[K] + Base /\ x = Base - 1 /\ \E q \in Nat \ {0} : m = q * Base
        <5>1. n + z = n + y + x + 1
          <6>1. m = y + Base /\ x = Base - 1 /\ z = m
            BY <2>2, <2>7, <3>1, <4>2
          <6> QED
            BY <1>9, <6>1
        <5>2. PICK q \in Nat \ {0} : m = q * Base
          BY <4>2
        <5>3. m % Base = 0
          <6>1. 0 \in 0..Base - 1 /\ Base \in Nat \ {0} /\ q \in Nat /\ m = q * Base + 0
            BY <1>9, <5>2
          <6>2. (q * Base + 0) % Base = 0
            BY ONLY <6>1, Divide
          <6> QED
            BY <6>1, <6>2
        <5>4. m # 0
          BY <1>9, <2>2, <2>7, <4>2
        <5>5. /\ n + 1 \in 1..Total /\ n + m \in 1..Total /\ n + 1 <= n + m
              /\ (n + m) - (n + 1) + 1 = m /\ (n + 1) - 1 = n
          BY <1>9, <5>4
        <5>6. RunOfBase(t)
          <6>1. ((n + m) - (n + 1) + 1) % Base = 0
            BY <5>3, <5>5
          <6>2. n + 1 > 1 => t[(n + 1) - 1]
            BY <5>5
          <6> HIDE DEF d, e
          <6> QED
            BY <5>5, <6>1, <6>2 DEF RunOfBase
        <5> QED
          BY <5>1, <5>6
      <4> QED
        BY <1>7, <4>1, <4>2
    <3> QED
      BY <2>4, <2>5, <3>1, <3>2 DEF StandsFor
  <2> QED
    BY <2>6, <2>7
<1>13. Reads(t, d, e, n + m)
  <2>1. \A j \in 1..L + K : j \in 1..L \/ (j - L \in 1..K /\ L + (j - L) = j)
    BY <1>3
  <2>2. e[1] = 0 /\ e[L + K + 1] = n + m
    <3>1. 1 \in 1..L + 1 /\ K + 1 \in 1..K + 1 /\ L + (K + 1) = L + K + 1
      BY <1>3
    <3>2. e[L + (K + 1)] = n + m
      BY ONLY <1>6, <1>10, <3>1
    <3>3. e[1] = 0
      BY ONLY <1>5, <1>10, <3>1
    <3> QED
      BY ONLY <3>1, <3>2, <3>3
  <2>3. \A j \in 1..L + K : StandsFor(t, d, j, e[j], e[j + 1])
    BY <1>11, <1>12, <2>1
  <2> QED
    BY <1>4, <1>10, <2>2, <2>3 DEF Reads
<1> QED
  BY <1>4, <1>13 DEF Readings, d

-----------------------------------------------------------------------------
(* The loop.                                                               *)

LoopValue(t, g, i) ==
  IF i = 0 THEN [out |-> <<>>, skip |-> 0]
  ELSE LET s == g[i - 1]
       IN  IF t[i]
           THEN [out |-> s.out \o Gap(s.skip, i) \o <<Tile>>, skip |-> 0]
           ELSE [s EXCEPT !.skip = @ + 1]

\* The recursive function exists.
LEMMA LoopIs ==
  ASSUME NEW t
  PROVE  \E g : /\ \A i \in 0..Total : g[i] = LoopValue(t, g, i)
                /\ Encode(t) = g[Total].out \o SkipCode[g[Total].skip]
<1> DEFINE S == {n \in 0..Total : \E g : g = [i \in 0..n |-> LoopValue(t, g, i)]}
<1>1. Total \in Nat
  BY Sizes
<1>2. ASSUME NEW n \in 0..Total, \A i \in 0..n - 1 : i \in S
      PROVE  n \in S
  <2>1. PICK f : \A i \in 0..n - 1 : f[i] = LoopValue(t, f, i)
    <3>1. CASE n = 0
      BY <3>1
    <3>2. CASE n # 0
      <4>1. n - 1 \in 0..n - 1 /\ n - 1 \in S
        BY <1>1, <1>2, <3>2
      <4> QED
        BY <4>1
    <3> QED
      BY <3>1, <3>2
  <2> DEFINE g == [i \in 0..n |-> IF i = n THEN LoopValue(t, f, n) ELSE f[i]]
  <2>2. \A i \in 0..n : i # n => i \in 0..n - 1
    OBVIOUS
  <2>3. \A i \in 0..n : LoopValue(t, g, i) = LoopValue(t, f, i)
    <3>1. \A i \in 0..n : i # 0 => i - 1 \in 0..n /\ i - 1 # n
      OBVIOUS
    <3>2. \A i \in 0..n : i # 0 => g[i - 1] = f[i - 1]
      BY <3>1
    <3> HIDE DEF g
    <3> QED
      BY <3>2 DEF LoopValue
  <2>4. \A i \in 0..n : g[i] = LoopValue(t, g, i)
    BY <2>1, <2>2, <2>3
  <2>5. g = [i \in 0..n |-> LoopValue(t, g, i)]
    <3>1. g = [i \in 0..n |-> g[i]]
      OBVIOUS
    <3> HIDE DEF g
    <3> QED
      BY <2>4, <3>1
  <2> HIDE DEF g
  <2> QED
    BY <2>5
<1> HIDE DEF S
<1>3. Total \in S
  <2>1. \A n \in 0..Total : n \in S
    BY <1>1, <1>2, UpTo
  <2> QED
    BY <1>1, <2>1
<1> DEFINE h == CHOOSE g : g = [i \in 0..Total |-> LoopValue(t, g, i)]
<1>4. h = [i \in 0..Total |-> LoopValue(t, h, i)]
  BY <1>3 DEF S
<1>5. Encode(t) = h[Total].out \o SkipCode[h[Total].skip]
  BY DEF Encode, LoopValue
<1> HIDE DEF h
<1>6. \A i \in 0..Total : h[i] = LoopValue(t, h, i)
  BY <1>4
<1> QED
  BY <1>5, <1>6

\* What the loop has written after i rounds, and what it has left to skip.
Wrote(t, s, i) ==
  /\ s \in [out : Seq(Token), skip : Nat]
  /\ \E n \in 0..i :
       /\ s.skip = i - n
       /\ Readings(t, s.out, n)
       /\ s.out # <<>> => s.out[Len(s.out)] = Tile
       /\ n # 0 => t[n]
       /\ \A k \in n + 1..i : ~ t[k]

LEMMA LoopWrites ==
  ASSUME NEW t \in [1..Total -> BOOLEAN], NEW g,
         \A i \in 0..Total : g[i] = LoopValue(t, g, i)
  PROVE  \A i \in 0..Total : Wrote(t, g[i], i)
<1> DEFINE S == {i \in 0..Total : Wrote(t, g[i], i)}
<1>1. Total \in Nat
  BY Sizes
<1>2. Wrote(t, g[0], 0)
  <2>1. g[0] = [out |-> <<>>, skip |-> 0]
    <3>1. 0 \in 0..Total
      BY <1>1
    <3>2. g[0] = LoopValue(t, g, 0)
      BY <3>1
    <3> QED
      BY <3>2 DEF LoopValue
  <2>2. g[0].out = <<>> /\ g[0].skip = 0 - 0
    BY <2>1
  <2>3. Readings(t, <<>>, 0)
    <3>1. <<>> \in Seq(Token) /\ Len(<<>>) = 0
      OBVIOUS
    <3>2. Reads(t, <<>>, [j \in 1..1 |-> 0], 0)
      BY <3>1 DEF Reads
    <3> QED
      BY <3>1, <3>2 DEF Readings
  <2>4. g[0] \in [out : Seq(Token), skip : Nat]
    <3>1. <<>> \in Seq(Token)
      OBVIOUS
    <3> QED
      BY <2>1, <3>1
  <2>5. 0 \in 0..0 /\ \A k \in 0 + 1..0 : ~ t[k]
    OBVIOUS
  <2> QED
    BY ONLY <2>2, <2>3, <2>4, <2>5 DEF Wrote
<1>3. ASSUME NEW i \in 1..Total, Wrote(t, g[i - 1], i - 1)
      PROVE  Wrote(t, g[i], i)
  <2>1. PICK n \in 0..i - 1 :
          /\ g[i - 1].skip = i - 1 - n
          /\ Readings(t, g[i - 1].out, n)
          /\ g[i - 1].out # <<>> => g[i - 1].out[Len(g[i - 1].out)] = Tile
          /\ n # 0 => t[n]
          /\ \A k \in n + 1..i - 1 : ~ t[k]
    BY <1>3 DEF Wrote
  <2>2. /\ i \in Nat /\ i # 0 /\ n \in Nat /\ n <= i - 1 /\ i \in 0..Total /\ i <= Total
        /\ i - 1 \in Nat /\ n \in 0..i
    BY <1>1
  <2>3. PICK s \in [out : Seq(Token), skip : Nat] : s = g[i - 1]
    BY <1>3 DEF Wrote
  <2>4. CASE ~ t[i]
    <3>1. g[i] = [s EXCEPT !.skip = @ + 1]
      BY <2>2, <2>3, <2>4 DEF LoopValue
    <3>2. g[i].out = s.out /\ g[i].skip = s.skip + 1 /\ g[i] \in [out : Seq(Token), skip : Nat]
      BY <3>1
    <3>3. g[i].skip = i - n
      BY <2>1, <2>2, <2>3, <3>2
    <3>4. \A k \in n + 1..i : ~ t[k]
      <4>1. \A k \in n + 1..i : k = i \/ k \in n + 1..i - 1
        BY <2>2
      <4> QED
        BY <2>1, <2>4, <4>1
    <3> QED
      BY <2>1, <2>2, <2>3, <3>2, <3>3, <3>4 DEF Wrote
  <2>5. CASE t[i]
    <3>1. g[i] = [out |-> s.out \o Gap(s.skip, i) \o <<Tile>>, skip |-> 0]
      BY <2>2, <2>3, <2>5 DEF LoopValue
    <3>3. Readings(t, s.out \o Gap(s.skip, i), i - 1)
      <4>1. CASE i = 1
        <5>1. Gap(s.skip, i) = <<>> /\ n = i - 1
          BY <2>2, <4>1 DEF Gap
        <5>2. s.out \in Seq(Token)
          BY <2>1, <2>3 DEF Readings
        <5>3. s.out \o <<>> = s.out
          BY <5>2
        <5> QED
          BY <2>1, <2>3, <5>1, <5>3
      <4>2. CASE i # 1
        <5>1. PICK m \in Nat : m = i - 1 - n
          BY <2>2
        <5>2. m \in 0..Total /\ n + m = i - 1 /\ n + m + 1 = i /\ n + m <= Total
          BY <1>1, <2>2, <5>1
        <5>3. s.skip = m
          BY <2>1, <2>3, <5>1
        <5>4. Gap(s.skip, i) = SkipCode[m] /\ Skips(SkipCode[m], m)
          <6>1. i > 1 /\ m >= 0
            BY <2>2, <4>2
          <6> QED
            BY <5>2, <5>3, <6>1, SkipCodeSkips DEF Gap
        <5>5. /\ \A k \in n + 1..n + m : ~ t[k]
              /\ n + m < Total => t[n + m + 1]
          BY <2>1, <2>5, <5>2
        <5>6. Readings(t, s.out \o SkipCode[m], n + m)
          BY ONLY <2>1, <2>2, <2>3, <5>2, <5>4, <5>5, AddSkips, t \in [1..Total -> BOOLEAN]
        <5> QED
          BY <5>2, <5>4, <5>6
      <4> QED
        BY <4>1, <4>2
    <3>4. PICK c : c = s.out \o Gap(s.skip, i)
      OBVIOUS
    <3>5. PICK m \in Nat : m = i - 1
      BY <2>2
    <3>6. m + 1 = i /\ m + 1 \in 1..Total
      BY <2>2, <3>5
    <3>7. /\ Readings(t, c \o <<Tile>>, i)
          /\ (c \o <<Tile>>)[Len(c \o <<Tile>>)] = Tile
      <4>1. Readings(t, c, m) /\ t[m + 1]
        BY <2>5, <3>3, <3>4, <3>5, <3>6
      <4> QED
        BY ONLY <3>6, <4>1, AddTile, t \in [1..Total -> BOOLEAN], m \in Nat
    <3>8. i \in 0..i /\ 0 = i - i /\ \A k \in i + 1..i : ~ t[k]
      BY <2>2
    <3>9. PICK d : d = c \o <<Tile>>
      OBVIOUS
    <3>10. d \in Seq(Token)
      BY <3>7, <3>9 DEF Readings
    <3>11. g[i] = [out |-> d, skip |-> 0]
      BY <3>1, <3>4, <3>9
    <3>12. g[i].out = d /\ g[i].skip = 0 /\ g[i] \in [out : Seq(Token), skip : Nat]
      BY <3>10, <3>11
    <3> QED
      BY ONLY <2>5, <3>7, <3>8, <3>9, <3>12 DEF Wrote
  <2> QED
    BY <2>4, <2>5
<1>4. ASSUME NEW n \in 0..Total, \A m \in 0..n - 1 : m \in S
      PROVE  n \in S
  <2>1. CASE n = 0
    BY <1>2, <2>1
  <2>2. CASE n # 0
    <3>1. n - 1 \in 0..n - 1 /\ n \in 1..Total
      BY <1>1, <2>2
    <3> QED
      BY <1>3, <1>4, <3>1
  <2> QED
    BY <2>1, <2>2
<1> HIDE DEF S
<1>5. \A n \in 0..Total : n \in S
  BY <1>1, <1>4, UpTo
<1> QED
  BY <1>5 DEF S

\* The message stands for all the tiles.
LEMMA EncodeReads ==
  ASSUME NEW t \in [1..Total -> BOOLEAN]
  PROVE  Readings(t, Encode(t), Total)
<1>1. PICK g : /\ \A i \in 0..Total : g[i] = LoopValue(t, g, i)
               /\ Encode(t) = g[Total].out \o SkipCode[g[Total].skip]
  BY LoopIs
<1>2. Total \in Nat /\ Total \in 0..Total
  BY Sizes
<1>3. Wrote(t, g[Total], Total)
  BY <1>1, <1>2, LoopWrites
<1>4. PICK n \in 0..Total :
        /\ g[Total].skip = Total - n
        /\ Readings(t, g[Total].out, n)
        /\ g[Total].out # <<>> => g[Total].out[Len(g[Total].out)] = Tile
        /\ n # 0 => t[n]
        /\ \A k \in n + 1..Total : ~ t[k]
  BY <1>3 DEF Wrote
<1>5. PICK m \in Nat : m = Total - n
  BY <1>2
<1>6. m \in 0..Total /\ n \in Nat /\ n + m = Total /\ n + m <= Total /\ ~(n + m < Total)
  BY <1>2, <1>5
<1>7. Skips(SkipCode[m], m)
  BY <1>6, SkipCodeSkips
<1>8. PICK c : c = g[Total].out
  OBVIOUS
<1>9. /\ Readings(t, c, n) /\ (c # <<>> => c[Len(c)] = Tile) /\ (n # 0 => t[n])
      /\ \A k \in n + 1..n + m : ~ t[k]
  BY <1>4, <1>6, <1>8
<1>10. Readings(t, c \o SkipCode[m], n + m)
  BY ONLY <1>6, <1>7, <1>9, AddSkips, t \in [1..Total -> BOOLEAN], m \in Nat
<1> QED
  BY <1>1, <1>4, <1>5, <1>6, <1>8, <1>10

-----------------------------------------------------------------------------
(* The message is understood.                                              *)

\* In a message that is read in two ways, of which the first has no runs of
\* Base, no token stands for more in the first than in the second.
LEMMA StandsForMore ==
  ASSUME NEW a, ~ RunOfBase(a), NEW b, NEW c, NEW j,
         NEW p \in Nat, NEW p1 \in Nat, StandsFor(a, c, j, p, p1),
         NEW q \in Nat, NEW q1 \in Nat, StandsFor(b, c, j, q, q1)
  PROVE  p1 - p <= q1 - q
<1>1. Base \in Nat
  BY BaseAssumption
<1>2. CASE c[j] = Tile
  <2>1. p1 = p + 1 /\ q1 = q + 1
    BY <1>2, TokensDiffer DEF StandsFor
  <2> QED
    BY <2>1
<1>3. CASE c[j] # Tile
  <2> DEFINE more == j < Len(c) /\ c[j + 1] # Tile
  <2>1. PICK x \in 0..Base - 1 :
          /\ c[j] = Skip(x)
          /\ IF more THEN p1 = p + Base ELSE p1 = p + x
    BY <1>3 DEF StandsFor
  <2>2. PICK y \in 0..Base - 1 :
          /\ c[j] = Skip(y)
          /\ IF more THEN q1 = q + Base ELSE q1 = q + y \/ q1 = q + y + 1
    BY <1>3 DEF StandsFor
  <2>3. x = y
    BY <2>1, <2>2, TokensDiffer
  <2> HIDE DEF more
  <2> QED
    BY <1>1, <2>1, <2>2, <2>3
<1> QED
  BY <1>2, <1>3

\* Both read the same tokens at the same places, as all the tiles are read.
LEMMA SamePlaces ==
  ASSUME NEW a, ~ RunOfBase(a), NEW b, NEW c \in Seq(Token), NEW n \in Nat,
         NEW p, Reads(a, c, p, n), NEW q, Reads(b, c, q, n)
  PROVE  \A j \in 1..Len(c) + 1 : p[j] = q[j]
<1>1. PICK L \in Nat : L = Len(c)
  OBVIOUS
<1>2. /\ p \in [1..L + 1 -> Nat] /\ p[1] = 0 /\ p[L + 1] = n
      /\ q \in [1..L + 1 -> Nat] /\ q[1] = 0 /\ q[L + 1] = n
      /\ \A j \in 1..L : StandsFor(a, c, j, p[j], p[j + 1]) /\ StandsFor(b, c, j, q[j], q[j + 1])
  BY <1>1 DEF Reads
<1>3. ASSUME NEW j \in 1..L PROVE p[j + 1] - p[j] <= q[j + 1] - q[j]
  <2>1. j \in 1..L + 1 /\ j + 1 \in 1..L + 1
    OBVIOUS
  <2>2. p[j] \in Nat /\ p[j + 1] \in Nat /\ q[j] \in Nat /\ q[j + 1] \in Nat
    BY <1>2, <2>1
  <2> QED
    BY <1>2, <2>2, StandsForMore
<1> DEFINE S == {j \in 0..L : p[j + 1] <= q[j + 1]}
           T == {j \in 0..L : q[L + 1 - j] <= p[L + 1 - j]}
<1>4. ASSUME NEW j \in 0..L, \A m \in 0..j - 1 : m \in S PROVE j \in S
  <2>1. CASE j = 0
    BY <1>2, <2>1
  <2>2. CASE j # 0
    <3>1. j - 1 \in 0..j - 1 /\ j \in 1..L /\ j - 1 + 1 = j /\ j \in 1..L + 1 /\ j + 1 \in 1..L + 1
      BY <2>2
    <3>2. p[j] <= q[j]
      BY <1>4, <3>1
    <3>3. p[j + 1] - p[j] <= q[j + 1] - q[j]
      BY <1>3, <3>1
    <3>4. p[j] \in Nat /\ p[j + 1] \in Nat /\ q[j] \in Nat /\ q[j + 1] \in Nat
      BY <1>2, <3>1
    <3>5. p[j + 1] <= q[j + 1]
      BY ONLY <3>2, <3>3, <3>4
    <3> QED
      BY <3>5
  <2> QED
    BY <2>1, <2>2
<1>5. ASSUME NEW j \in 0..L, \A m \in 0..j - 1 : m \in T PROVE j \in T
  <2>1. CASE j = 0
    BY <1>2, <2>1
  <2>2. CASE j # 0
    <3>1. PICK k \in 1..L : k = L + 1 - j
      BY <2>2
    <3>2. j - 1 \in 0..j - 1 /\ L + 1 - (j - 1) = k + 1 /\ k \in 1..L + 1 /\ k + 1 \in 1..L + 1
      BY <2>2, <3>1
    <3>3. q[k + 1] <= p[k + 1]
      BY <1>5, <3>2
    <3>4. p[k + 1] - p[k] <= q[k + 1] - q[k]
      BY <1>3, <3>1
    <3>5. p[k] \in Nat /\ p[k + 1] \in Nat /\ q[k] \in Nat /\ q[k + 1] \in Nat
      BY <1>2, <3>2
    <3>6. q[k] <= p[k]
      BY ONLY <3>3, <3>4, <3>5
    <3> QED
      BY <3>1, <3>6
  <2> QED
    BY <2>1, <2>2
<1>6. \A j \in 0..L : j \in S
  <2> HIDE DEF S
  <2> QED
    BY <1>4, UpTo
<1>7. \A j \in 0..L : j \in T
  <2> HIDE DEF T
  <2> QED
    BY <1>5, UpTo
<1> SUFFICES ASSUME NEW j \in 1..L + 1 PROVE p[j] = q[j]
  BY <1>1
<1>8. j - 1 \in 0..L /\ j - 1 + 1 = j /\ L + 1 - j \in 0..L /\ L + 1 - (L + 1 - j) = j
  OBVIOUS
<1>9. p[j] <= q[j] /\ q[j] <= p[j]
  BY <1>6, <1>7, <1>8
<1>10. p[j] \in Nat /\ q[j] \in Nat
  BY <1>2
<1> QED
  BY ONLY <1>9, <1>10

\* The message c, read at the places p, has the i-th tile.
HasTile(c, p, i) == \E j \in 1..Len(c) : c[j] = Tile /\ p[j + 1] = i

\* Tiles are not empty where the message has one.
LEMMA TilesRead ==
  ASSUME NEW t \in [1..Total -> BOOLEAN], NEW c \in Seq(Token),
         NEW p, Reads(t, c, p, Total), NEW i \in 1..Total
  PROVE  (t[i] => HasTile(c, p, i)) /\ (HasTile(c, p, i) => t[i])
<1>1. PICK L \in Nat : L = Len(c)
  OBVIOUS
<1>2. /\ p \in [1..L + 1 -> Nat] /\ p[1] = 0 /\ p[L + 1] = Total
      /\ \A j \in 1..L : StandsFor(t, c, j, p[j], p[j + 1])
  BY <1>1 DEF Reads
<1>3. ASSUME NEW j \in 1..L, c[j] = Tile, p[j + 1] = i PROVE t[i]
  BY <1>2, <1>3, TokensDiffer DEF StandsFor
<1>4. ASSUME t[i] PROVE \E j \in 1..L : c[j] = Tile /\ p[j + 1] = i
  <2> DEFINE S == {j \in 0..L : i <= p[j + 1]}
  <2>1. Total \in Nat /\ i \in Nat /\ i <= Total /\ 1 <= i
    BY Sizes
  <2>2. L \in S
    BY <1>2, <2>1
  <2>3. PICK j \in S : \A m \in S : ~ (m < j)
    BY <2>2, Least
  <2>4. j # 0
    <3>1. 0 \notin S
      BY <1>2, <2>1
    <3> QED
      BY <3>1
  <2>5. j \in 1..L /\ j \in 1..L + 1 /\ j + 1 \in 1..L + 1 /\ j - 1 \in 0..L /\ j - 1 < j /\ j - 1 + 1 = j
    BY <2>4
  <2>6. PICK x \in Nat : x = p[j]
    BY <1>2, <2>5
  <2>7. PICK y \in Nat : y = p[j + 1]
    BY <1>2, <2>5
  <2>8. x < i /\ i <= y
    <3>1. j - 1 \notin S
      BY <2>3, <2>5
    <3>2. ~ (i <= p[j])
      BY <2>5, <3>1
    <3> QED
      BY <2>1, <2>6, <2>7, <3>2
  <2>9. i \in x + 1..y
    BY <2>1, <2>8
  <2>10. StandsFor(t, c, j, x, y)
    BY <1>2, <2>5, <2>6, <2>7
  <2> HIDE DEF S
  <2>11. c[j] = Tile /\ y = x + 1
    BY <1>4, <2>9, <2>10 DEF StandsFor
  <2>12. p[j + 1] = i
    BY <2>1, <2>7, <2>8, <2>11
  <2> QED
    BY <2>5, <2>11, <2>12
<1> QED
  BY <1>1, <1>3, <1>4 DEF HasTile

\* Messages tell tiles apart, unless both have a run of Base.
LEMMA EncodeTells ==
  ASSUME NEW a \in [1..Total -> BOOLEAN], NEW b \in [1..Total -> BOOLEAN],
         Encode(a) = Encode(b), ~ RunOfBase(a)
  PROVE  a = b
<1>1. PICK c : c = Encode(a)
  OBVIOUS
<1>2. Readings(a, c, Total) /\ Readings(b, c, Total)
  BY <1>1, EncodeReads
<1>3. PICK p : Reads(a, c, p, Total)
  BY <1>2 DEF Readings
<1>4. PICK q : Reads(b, c, q, Total)
  BY <1>2 DEF Readings
<1>5. c \in Seq(Token) /\ Total \in Nat
  BY <1>2, Sizes DEF Readings
<1>6. \A j \in 1..Len(c) + 1 : p[j] = q[j]
  BY ONLY <1>3, <1>4, <1>5, SamePlaces, ~ RunOfBase(a)
<1>7. \A j \in 1..Len(c) : p[j + 1] = q[j + 1]
  <2>1. \A j \in 1..Len(c) : j + 1 \in 1..Len(c) + 1
    BY <1>5
  <2> QED
    BY <1>6, <2>1
<1>8. ASSUME NEW i \in 1..Total PROVE a[i] = b[i]
  <2>1. (a[i] => HasTile(c, p, i)) /\ (HasTile(c, p, i) => a[i])
    BY ONLY <1>3, <1>5, TilesRead, a \in [1..Total -> BOOLEAN], i \in 1..Total
  <2>2. (b[i] => HasTile(c, q, i)) /\ (HasTile(c, q, i) => b[i])
    BY ONLY <1>4, <1>5, TilesRead, b \in [1..Total -> BOOLEAN], i \in 1..Total
  <2>3. (HasTile(c, p, i) => HasTile(c, q, i)) /\ (HasTile(c, q, i) => HasTile(c, p, i))
    BY <1>7 DEF HasTile
  <2>4. a[i] \in BOOLEAN /\ b[i] \in BOOLEAN
    OBVIOUS
  <2>5. (a[i] => b[i]) /\ (b[i] => a[i])
    BY ONLY <2>1, <2>2, <2>3, Zenon
  <2>6. \A x, y \in BOOLEAN : (x => y) /\ (y => x) => x = y
    BY SMT
  <2> QED
    BY ONLY <2>4, <2>5, <2>6, Zenon
<1>9. a = [i \in 1..Total |-> a[i]] /\ b = [i \in 1..Total |-> b[i]]
  OBVIOUS
<1>10. [i \in 1..Total |-> a[i]] = [i \in 1..Total |-> b[i]]
  BY ONLY <1>8, Zenon
<1> QED
  BY ONLY <1>9, <1>10, Zenon

-----------------------------------------------------------------------------
(* The messages sent.                                                      *)

\* Every position of the box has its place in the message.
LEMMA ContentsTell ==
  ASSUME CompleteInv, \A i \in 0..Total - 1 : all[i] # Absent,
         NEW A, A \subseteq Box, NEW B, B \subseteq Box,
         Contents(A) = Contents(B)
  PROVE  A = B
<1>1. ASSUME NEW f \in Floors, NEW k \in 0..Area - 1
      PROVE  TileAt(f, k) \in A <=> TileAt(f, k) \in B
  <2>1. Rank(f) \in 0..Count - 1
    BY Sizes
  <2>2. PICK i \in 0..Total - 1 : i = Rank(f) * Area + k
    BY <2>1, IndexBelow
  <2>3. Right(all[i]) /\ all[i].idx = i
    BY DEF CompleteInv, Inv, AssemblyInv
  <2> DEFINE d == Desc(i, f, k)
  <2>4. Right(d) /\ d.idx = i /\ d.floor = f /\ d.k = k
    BY <2>2 DEF Right, AnyDesc, Desc
  <2> HIDE DEF d
  <2>5. all[i].floor = f /\ all[i].k = k
    BY <2>3, <2>4, SameTile
  <2>6. Total \in Nat /\ i + 1 \in 1..Total /\ i + 1 - 1 = i
    BY Sizes
  <2>7. Contents(A)[i + 1] = IsFilled(A, all[i]) /\ Contents(B)[i + 1] = IsFilled(B, all[i])
    BY <2>6 DEF Contents
  <2>8. IsFilled(A, all[i]) <=> IsFilled(B, all[i])
    BY <2>7
  <2> QED
    BY <2>5, <2>8 DEF IsFilled
<1>2. \A x \in Box : x \in A <=> x \in B
  BY <1>1 DEF Box
<1> QED
  BY <1>2

\* The boxes' messages are complete, for boxes of every size: the panics of
\* gameworld/map.go:147 and of an entry that was not received are unreachable.
\* And from a message a client can tell which of the box's tiles are not
\* empty, for every base of the skip counts, unless a multiple of the base is
\* skipped both there and in the other map.
THEOREM ReadableAlways == Spec => []Readable
<1>1. Init => CompleteInv
  BY InitInv, InitComplete DEF CompleteInv
<1>2. CompleteInv => Readable
  <2> SUFFICES ASSUME CompleteInv PROVE NoPanic /\ Decodable
    BY DEF Readable
  <2>1. NoPanic
    BY DEF CompleteInv, CountInv, NoPanic
  <2>2. ASSUME phase = "sent", NEW other \in SUBSET Box,
               Encode(Contents(other)) = out,
               ~ (RunOfBase(Contents(other)) /\ RunOfBase(Contents(filled)))
        PROVE  other = filled
    <3>1. \A i \in 0..Total - 1 : all[i] # Absent
      BY <2>2 DEF CompleteInv, CountInv
    <3>2. out = Encode(Contents(filled))
      BY <2>2 DEF CompleteInv, CountInv
    <3>3. \A S : Contents(S) \in [1..Total -> BOOLEAN]
      BY DEF Contents, IsFilled
    <3>4. PICK a \in [1..Total -> BOOLEAN] : a = Contents(other)
      BY <3>3
    <3>5. PICK b \in [1..Total -> BOOLEAN] : b = Contents(filled)
      BY <3>3
    <3>6. Encode(a) = Encode(b) /\ (~ RunOfBase(a) \/ ~ RunOfBase(b))
      BY <2>2, <3>2, <3>4, <3>5
    <3>7. a = b
      BY ONLY <3>6, EncodeTells, a \in [1..Total -> BOOLEAN], b \in [1..Total -> BOOLEAN]
    <3>8. filled \subseteq Box
      BY DEF CompleteInv, Inv, TypeOK
    <3> QED
      BY <3>1, <3>4, <3>5, <3>7, <3>8, ContentsTell
  <2> QED
    BY <2>1, <2>2 DEF Decodable
<1> QED
  BY <1>1, <1>2, CompleteStep, PTL DEF Spec
===============================================================================
