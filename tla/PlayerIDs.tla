------------------------------- MODULE PlayerIDs -------------------------------
(***************************************************************************)
(* How connections get the identifier they share with their creature, and  *)
(* what is done under it: NewCreatureID (gameworld/gameworld.go:102) is    *)
(* called by one goroutine per connection, and neither its counter nor the *)
(* two maps keyed by the identifier have a lock.                           *)
(*                                                                         *)
(* "maxCreatureIDPlayer++; return maxCreatureIDPlayer | kind" reads the    *)
(* counter, writes it, and may read it again.                              *)
(***************************************************************************)
EXTENDS Naturals, FiniteSets

CONSTANTS
  Conn,      \* the connections that reach NewCreatureID
  KindBit    \* CreatureTypePlayer: 2^28 in the code

ASSUME ConnAssumption == IsFiniteSet(Conn)
ASSUME KindAssumption == KindBit \in Nat /\ Cardinality(Conn) < KindBit

VARIABLES
  max,            \* maxCreatureIDPlayer
  stage,          \* where each connection's goroutine is
  seen,           \* the value of the counter it has read
  id,             \* the identifier it was given
  creaturesByID,  \* mapDataSource.creatures: whose creature is under each identifier
  connections,    \* GameworldServer.connections likewise
  overlapped      \* history: some call of NewCreatureID began during another

idVars == <<max, stage, seen, id, creaturesByID, connections, overlapped>>

ID == KindBit..2 * KindBit - 1
Nobody == "nobody"

\* The kind's bit is set in the counter's value.
Tagged(n) == (n % KindBit) + KindBit

IDInit ==
  /\ max = 0
  /\ stage = [c \in Conn |-> "out"]
  /\ seen = [c \in Conn |-> 0]
  /\ id = [c \in Conn |-> 0]
  /\ creaturesByID = [i \in {} |-> Nobody]
  /\ connections = [i \in {} |-> Nobody]
  /\ overlapped = FALSE

InCall(c) == stage[c] \in {"loaded", "stored"}

Load(c) ==
  /\ stage[c] = "out"
  /\ stage' = [stage EXCEPT ![c] = "loaded"]
  /\ seen' = [seen EXCEPT ![c] = max]
  /\ overlapped' = (overlapped \/ \E d \in Conn : InCall(d))
  /\ UNCHANGED <<max, id, creaturesByID, connections>>

\* Faulty: the counter is not increased.
StoreSame(c) ==
  /\ stage[c] = "loaded"
  /\ stage' = [stage EXCEPT ![c] = "stored"]
  /\ max' = seen[c]
  /\ UNCHANGED <<seen, id, creaturesByID, connections, overlapped>>

Store(c) ==
  /\ stage[c] = "loaded"
  /\ stage' = [stage EXCEPT ![c] = "stored"]
  /\ max' = seen[c] + 1
  /\ UNCHANGED <<seen, id, creaturesByID, connections, overlapped>>

\* The compiled code reads the counter again, or uses what it has just written.
Return(c) ==
  /\ stage[c] = "stored"
  /\ stage' = [stage EXCEPT ![c] = "named"]
  /\ \E n \in {max, seen[c] + 1} : id' = [id EXCEPT ![c] = Tagged(n)]
  /\ UNCHANGED <<max, seen, creaturesByID, connections, overlapped>>

SetAt(f, i, c) == [j \in DOMAIN f \cup {i} |-> IF j = i THEN c ELSE f[j]]
Drop(f, i)   == [j \in DOMAIN f \ {i} |-> f[j]]

\* The connection is turned away, or not described the map.
Fail(c) ==
  /\ stage[c] \in {"named", "added"}
  /\ stage' = [stage EXCEPT ![c] = "gone"]
  /\ UNCHANGED <<max, seen, id, creaturesByID, connections, overlapped>>

AddCreature(c) ==
  /\ stage[c] = "named"
  /\ stage' = [stage EXCEPT ![c] = "added"]
  /\ creaturesByID' = SetAt(creaturesByID, id[c], c)
  /\ UNCHANGED <<max, seen, id, connections, overlapped>>

Register(c) ==
  /\ stage[c] = "added"
  /\ stage' = [stage EXCEPT ![c] = "playing"]
  /\ connections' = SetAt(connections, id[c], c)
  /\ UNCHANGED <<max, seen, id, creaturesByID, overlapped>>

\* Faulty: the creature of whoever was named last is removed.
RemoveLatest(c) ==
  /\ stage[c] = "playing"
  /\ stage' = [stage EXCEPT ![c] = "gone"]
  /\ creaturesByID' = Drop(creaturesByID, Tagged(max))
  /\ UNCHANGED <<max, seen, id, connections, overlapped>>

\* The main loop has returned: RemoveCreatureByID.
RemoveCreatureByID(c) ==
  /\ stage[c] = "playing"
  /\ stage' = [stage EXCEPT ![c] = "gone"]
  /\ creaturesByID' = Drop(creaturesByID, id[c])
  /\ UNCHANGED <<max, seen, id, connections, overlapped>>

IDNext ==
  \E c \in Conn :
    Load(c) \/ Store(c) \/ Return(c) \/ Fail(c)
      \/ AddCreature(c) \/ Register(c) \/ RemoveCreatureByID(c)

IDSpec == IDInit /\ [][IDNext]_idVars

-----------------------------------------------------------------------------
(* Properties.                                                             *)

Named(c) == stage[c] \in {"named", "added", "playing", "gone"}

\* "NewCreatureID creates a new creature ID, unique across all data sources"
\* (gameworld/gameworld.go:98).
IDsUnique == \A c, d \in Conn : Named(c) /\ Named(d) /\ id[c] = id[d] => c = d

\* Identifiers are unique if no two calls of NewCreatureID overlap, however the
\* connections are interleaved otherwise.
SerialIDsUnique == ~overlapped => IDsUnique

\* Then everything found under a player's identifier is the player's own, while
\* others come and go: their removal takes nobody else's creature away
\* (gameworld/procedural_map.go:244), and their entry replaces nobody else's
\* connection (gameworld/gameworld.go:360).
OwnEntries ==
  ~overlapped =>
    \A c \in Conn :
      /\ stage[c] \in {"added", "playing"} =>
           id[c] \in DOMAIN creaturesByID /\ creaturesByID[id[c]] = c
      /\ stage[c] = "playing" => id[c] \in DOMAIN connections /\ connections[id[c]] = c
-----------------------------------------------------------------------------
(* The inductive invariant.                                                *)

IDTypeOK ==
  /\ max \in Nat
  /\ stage \in [Conn -> {"out", "loaded", "stored", "named", "added", "playing", "gone"}]
  /\ seen \in [Conn -> Nat]
  /\ id \in [Conn -> {0} \cup ID]
  /\ overlapped \in BOOLEAN

\* The connections that have increased the counter.
Counted == {c \in Conn : stage[c] = "stored" \/ Named(c)}

\* As long as calls do not overlap, the counter counts them.
CountInv ==
  ~overlapped =>
    /\ max = Cardinality(Counted)
    /\ \A c \in Conn : stage[c] = "loaded" => seen[c] = max
    /\ \A c \in Conn : stage[c] = "stored" => seen[c] + 1 = max
    /\ \A c, d \in Conn : InCall(c) /\ InCall(d) => c = d
    /\ \A c \in Conn : Named(c) => \E n \in 1..max : id[c] = Tagged(n)
    /\ \A c, d \in Conn : stage[c] = "stored" /\ Named(d) => id[d] # Tagged(max)

IDInv == IDTypeOK /\ CountInv /\ SerialIDsUnique /\ OwnEntries
================================================================================
