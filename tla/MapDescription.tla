---------------------------- MODULE MapDescription ----------------------------
(***************************************************************************)
(* How mapDescription (gameworld/map.go) describes a box of tiles to a     *)
(* client: it starts a goroutine for each floor, which sends the           *)
(* description of each of its tiles on one buffered channel; when all have *)
(* returned it puts the descriptions in order by the index they carry, and *)
(* writes them with the number of empty tiles between them.                *)
(*                                                                         *)
(* A tile's description is the position described; whether it is empty is  *)
(* part of the map, chosen once.                                           *)
(***************************************************************************)
EXTENDS Integers, Sequences

CONSTANTS
  X, Y,         \* the box's north-western corner, on the player's floor
  Z,            \* the player's floor
  Width, Height,
  Wrap,         \* coordinates are in 0..Wrap-1: 2^16 in the code
  Ground,       \* floorGroundLevel: 7
  Bedrock,      \* floorBedrockLevel: 14
  Base          \* skip counts are written in base Base: 256 in the code

ASSUME BoxAssumption ==
  /\ X \in 0..Wrap - 1 /\ Y \in 0..Wrap - 1 /\ Wrap \in Nat \ {0}
  /\ Width \in 1..Wrap - 1 /\ Height \in 1..Wrap - 1
ASSUME FloorAssumption ==
  /\ Ground \in Nat \ {0} /\ Bedrock \in Nat /\ Ground + 2 < Bedrock
  /\ Z \in 0..Bedrock
ASSUME BaseAssumption == Base \in Nat \ {0, 1}

VARIABLES
  filled,   \* the positions whose tiles are not empty
  phase,    \* what mapDescription is doing
  descIdx,  \* its running index of the next floor's first tile
  floor,    \* the loop variable: the floor it starts a goroutine for next
  worker,   \* each floor's goroutine
  ch,       \* tilesCh
  all,      \* the descriptions received, by index
  received, \* how many they are
  out       \* the message

vars == <<filled, phase, descIdx, floor, worker, ch, all, received, out>>

-----------------------------------------------------------------------------
(* The floors, and the tiles of a floor.                                   *)

Underground == Z > Ground
Start == IF Underground THEN Z - 2 ELSE Ground
End   == IF ~Underground THEN 0 ELSE IF Z + 2 < Bedrock THEN Z + 2 ELSE Bedrock
Step  == IF Underground THEN 1 ELSE -1

Floors == IF Underground THEN Start..End ELSE End..Start
Area == Width * Height

\* The size of tilesCh and of all.
Total == (End + Step - Start) * Step * Area

\* The corner of floor f: each floor up is drawn one tile further away.
CornerX(f) == (X - (f - Z)) % Wrap
CornerY(f) == (Y - (f - Z)) % Wrap

\* How often "for nx := x; nx < x+width; nx++" goes round.
Rounds(x, n) == IF x + n < Wrap THEN n ELSE 0

Tiles(f) == Rounds(CornerX(f), Width) * Rounds(CornerY(f), Height)

\* The k-th tile of floor f, column by column.
TileAt(f, k) == <<CornerX(f) + (k \div Height), CornerY(f) + (k % Height), f>>

\* The k-th tile of floor f, and the index it is sent with.
Desc(i, f, k) == [idx |-> i, floor |-> f, k |-> k]
Absent == [idx |-> -1]

Box == UNION {{TileAt(f, k) : k \in 0..Area - 1} : f \in Floors}

-----------------------------------------------------------------------------
(* The message: descriptions of tiles that are not empty, and skip counts. *)

Tile == [tile |-> TRUE]
Skip(n) == [skip |-> n]

\* "for skip >= 0": every round writes two bytes, and the loop ends early when
\* nothing is left to skip.
SkipCode[n \in 0..Total] ==
  IF n < Base THEN <<Skip(n)>>
  ELSE IF n = Base THEN <<Skip(Base - 1)>>
  ELSE <<Skip(Base - 1)>> \o SkipCode[n - Base]

\* What is written before the i-th tile: nothing before the first one.
Gap(skip, i) == IF i > 1 /\ skip >= 0 THEN SkipCode[skip] ELSE <<>>

\* Faulty: skip keeps what the loop left in it.
EncodeUnreset(tiles) ==
  LET loop[i \in 0..Total] ==
        IF i = 0 THEN [out |-> <<>>, skip |-> 0]
        ELSE LET s == loop[i - 1]
             IN  IF tiles[i]
                 THEN [out |-> s.out \o Gap(s.skip, i) \o <<Tile>>,
                       skip |-> IF s.skip < 0 THEN s.skip ELSE (s.skip % Base) - Base]
                 ELSE [s EXCEPT !.skip = @ + 1]
  IN  loop[Total].out \o Gap(loop[Total].skip, Total)

\* The message and the tiles skipped at its end, after i rounds of the loop;
\* tiles[i] tells whether the i-th tile is not empty.
Encode(tiles) ==
  LET loop[i \in 0..Total] ==
        IF i = 0 THEN [out |-> <<>>, skip |-> 0]
        ELSE LET s == loop[i - 1]
             IN  IF tiles[i]
                 THEN [out |-> s.out \o Gap(s.skip, i) \o <<Tile>>, skip |-> 0]
                 ELSE [s EXCEPT !.skip = @ + 1]
  IN  loop[Total].out \o SkipCode[loop[Total].skip]

-----------------------------------------------------------------------------

NotStarted == [state |-> "off", base |-> 0, sent |-> 0]

Init ==
  /\ filled \in SUBSET Box
  /\ phase = "start"
  /\ descIdx = 0
  /\ floor = Start
  /\ worker = [f \in Floors |-> NotStarted]
  /\ ch = <<>>
  /\ all = [i \in 0..Total - 1 |-> Absent]
  /\ received = 0
  /\ out = <<>>

\* The goroutine is given the running index and the floor as arguments.
StartWorker ==
  /\ phase = "start"
  /\ floor \in Floors
  /\ descIdx' = descIdx + Area
  /\ worker' = [worker EXCEPT ![floor] = [state |-> "run", base |-> descIdx, sent |-> 0]]
  /\ floor' = floor + Step
  /\ UNCHANGED <<filled, phase, ch, all, received, out>>

AllStarted ==
  /\ phase = "start"
  /\ floor \notin Floors
  /\ phase' = "wait"
  /\ UNCHANGED <<filled, descIdx, floor, worker, ch, all, received, out>>

HasNext(f) == worker[f].state = "run" /\ worker[f].sent < Tiles(f)

\* Faulty: the goroutine uses the loop's running index, not its own copy.
SendTileShared(f) ==
  /\ HasNext(f)
  /\ Len(ch) < Total
  /\ ch' = Append(ch, Desc(descIdx - Area + worker[f].sent, f, worker[f].sent))
  /\ worker' = [worker EXCEPT ![f].sent = @ + 1]
  /\ UNCHANGED <<filled, phase, descIdx, floor, all, received, out>>

\* Faulty: tilesCh has room for one floor only.
SendTileCramped(f) ==
  /\ HasNext(f)
  /\ Len(ch) < Area
  /\ ch' = Append(ch, Desc(worker[f].base + worker[f].sent, f, worker[f].sent))
  /\ worker' = [worker EXCEPT ![f].sent = @ + 1]
  /\ UNCHANGED <<filled, phase, descIdx, floor, all, received, out>>

\* floorDescription describes its next tile and sends it, if there is room.
SendTile(f) ==
  /\ HasNext(f)
  /\ Len(ch) < Total
  /\ ch' = Append(ch, Desc(worker[f].base + worker[f].sent, f, worker[f].sent))
  /\ worker' = [worker EXCEPT ![f].sent = @ + 1]
  /\ UNCHANGED <<filled, phase, descIdx, floor, all, received, out>>

\* The tile cannot be got or described: the goroutine returns the error.
TileFails(f) ==
  /\ HasNext(f)
  /\ worker' = [worker EXCEPT ![f].state = "failed"]
  /\ UNCHANGED <<filled, phase, descIdx, floor, ch, all, received, out>>

FloorDone(f) ==
  /\ worker[f].state = "run"
  /\ worker[f].sent = Tiles(f)
  /\ worker' = [worker EXCEPT ![f].state = "done"]
  /\ UNCHANGED <<filled, phase, descIdx, floor, ch, all, received, out>>

\* group.Wait returns, and the sizes are compared.
Wait ==
  /\ phase = "wait"
  /\ \A f \in Floors : worker[f].state # "run"
  /\ phase' = IF \E f \in Floors : worker[f].state = "failed" THEN "error"
              ELSE IF descIdx # Total THEN "panic" ELSE "collect"
  /\ UNCHANGED <<filled, descIdx, floor, worker, ch, all, received, out>>

\* One description is received and stored under its index.
Collect ==
  /\ phase = "collect"
  /\ received < Total
  /\ ch # <<>>
  /\ ch' = Tail(ch)
  /\ IF Head(ch).idx < Total
     THEN /\ all' = [all EXCEPT ![Head(ch).idx] = Head(ch)]
          /\ received' = received + 1
          /\ UNCHANGED phase
     ELSE phase' = "error" /\ UNCHANGED <<all, received>>
  /\ UNCHANGED <<filled, descIdx, floor, worker, out>>

IsFilled(S, d) == TileAt(d.floor, d.k) \in S

\* Which of the tiles are not empty, in the order of the message, if S are.
Contents(S) == [i \in 1..Total |-> IsFilled(S, all[i - 1])]

\* Everything has been received: the message is written.  An entry of all that
\* was not received has no data to take the length of.
Write ==
  /\ phase = "collect"
  /\ received = Total
  /\ IF \E i \in DOMAIN all : all[i] = Absent
     THEN phase' = "panic" /\ UNCHANGED out
     ELSE /\ out' = Encode(Contents(filled))
          /\ phase' = "sent"
  /\ UNCHANGED <<filled, descIdx, floor, worker, ch, all, received>>

Main == StartWorker \/ AllStarted \/ Wait \/ Collect \/ Write
Worker(f) == SendTile(f) \/ TileFails(f) \/ FloorDone(f)

Next == Main \/ \E f \in Floors : Worker(f)

Spec == Init /\ [][Next]_vars

\* The Go scheduler runs every goroutine that can run; no tile has to fail.
FairSpec ==
  /\ Spec
  /\ WF_vars(Main)
  /\ \A f \in Floors : WF_vars(SendTile(f) \/ FloorDone(f))

-----------------------------------------------------------------------------
(* Properties.                                                             *)

AnyDesc == [idx : 0..Total - 1, floor : Floors, k : 0..Area - 1]

TypeOK ==
  /\ filled \subseteq Box
  /\ phase \in {"start", "wait", "collect", "sent", "error", "panic"}
  /\ descIdx \in 0..Total
  /\ floor \in Floors \cup {End + Step}
  /\ worker \in [Floors -> [state : {"off", "run", "done", "failed"},
                            base : 0..Total, sent : 0..Area]]
  /\ ch \in Seq(AnyDesc)
  /\ all \in [0..Total - 1 -> AnyDesc \cup {Absent}]
  /\ received \in 0..Total

\* In whatever order the floors' goroutines were started, ran and sent, the
\* descriptions are written floor by floor from Start to End, each floor column
\* by column (gameworld/map.go:132-139, 156-170).
Assembled ==
  \A i \in 0..Total - 1 :
    all[i] # Absent =>
      all[i] = Desc(i, Start + (i \div Area) * Step, i % Area)

\* The total computed up front is the number of tiles of the floors the loop
\* goes through (the "math problem" of gameworld/map.go:146-148), and every one
\* of them has been described when the message is written (172-176).
NoPanic == phase # "panic"

\* Somewhere the number of tiles that are skipped is a multiple of Base: the
\* loop that writes it ends when what is left is 0 (gameworld/map.go:193), and
\* it is written as one less would be.
RunOfBase(tiles) ==
  \E i, j \in 1..Total :
    /\ i <= j /\ (j - i + 1) % Base = 0
    /\ \A k \in i..j : ~ tiles[k]
    /\ i > 1 => tiles[i - 1]
    /\ j < Total => tiles[j + 1]

\* A client that knows the box can tell from the message which of its tiles are
\* not empty: another map gives the same message only if both have runs of
\* Base empty tiles or a multiple of it (gameworld/map.go:180-222).
Decodable ==
  phase = "sent" =>
    \A other \in SUBSET Box :
      /\ Encode(Contents(other)) = out
      /\ ~ (RunOfBase(Contents(other)) /\ RunOfBase(Contents(filled)))
      => other = filled

\* Every message is complete, and can be understood.
Readable == NoPanic /\ Decodable

\* No floor ends where coordinates wrap; the loops over one that does end before
\* they began (gameworld/map.go:226-227).
WithinBounds == \A f \in Floors : Tiles(f) = Area

\* mapDescription returns: the goroutines never wait for room in tilesCh, nor,
\* away from the edges, the collector for descriptions that do not come
\* (gameworld/map.go:118, 159).
Described == WithinBounds => <>(phase \in {"sent", "error"})
=============================================================================
