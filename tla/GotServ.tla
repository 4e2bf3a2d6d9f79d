-------------------------------- MODULE GotServ --------------------------------
(***************************************************************************)
(* How cmd/gotserv opens the game world port: serveLameDuck turns clients  *)
(* away while games loads things and map, and hands the listener over.     *)
(*                                                                         *)
(* The two goroutines share the listener with its deadline, and the        *)
(* GameworldServer, whose LameDuckText every connection reads without a    *)
(* lock: a read that overlaps the write may yield either value, or the new *)
(* data pointer with the old length, which is a fault.                     *)
(***************************************************************************)
EXTENDS Naturals

CONSTANT Conn   \* the clients that connect to the game world port

VARIABLES
  games,     \* where games is
  lame,      \* where serveLameDuck is
  things,    \* gw.things has been set
  world,     \* gw.mapDataSource has been set
  text,      \* gw.LameDuckText
  deadline,  \* the listener's deadline
  client,      \* each client's connection, and its goroutine
  crashed

startVars == <<games, lame, things, world, text, deadline, client, crashed>>
serverVars == <<games, lame, things, world, text, deadline>>

StartInit ==
  /\ games = "listen"
  /\ lame = "off"
  /\ things = FALSE
  /\ world = FALSE
  /\ text = "empty"
  /\ deadline = "none"
  /\ client = [c \in Conn |-> "away"]
  /\ crashed = FALSE

-----------------------------------------------------------------------------
(* games.                                                                  *)

\* Some file cannot be opened or read, or the port is taken: games returns.
GamesFails ==
  /\ games \in {"listen", "things", "map"}
  /\ games' = "failed"
  /\ UNCHANGED <<lame, things, world, text, deadline, client, crashed>>

Listen ==
  /\ games = "listen"
  /\ games' = "things"
  /\ lame' = "begin"
  /\ UNCHANGED <<things, world, text, deadline, client, crashed>>

LoadThings ==
  /\ games = "things"
  /\ games' = "map"
  /\ things' = TRUE
  /\ UNCHANGED <<lame, world, text, deadline, client, crashed>>

\* Faulty: the lame duck is stopped before the map is read.
LoadMapLate ==
  /\ \/ games = "map" /\ games' = "stop" /\ UNCHANGED world
     \/ games = "accept" /\ ~world /\ world' = TRUE /\ UNCHANGED games
  /\ UNCHANGED <<lame, things, text, deadline, client, crashed>>

LoadMap ==
  /\ games = "map"
  /\ games' = "stop"
  /\ world' = TRUE
  /\ UNCHANGED <<lame, things, text, deadline, client, crashed>>

-----------------------------------------------------------------------------
(* serveLameDuck.                                                          *)

SetText ==
  /\ lame = "begin"
  /\ lame' = "select"
  /\ text' = "set"
  /\ UNCHANGED <<games, things, world, deadline, client, crashed>>

\* lameDuckStop <- true is received, once serveLameDuck comes to its select.
Stop ==
  /\ lame = "select"
  /\ games = "stop"
  /\ lame' = "disarm"
  /\ games' = "accept"
  /\ UNCHANGED <<things, world, text, deadline, client, crashed>>

\* Faulty: Accept is left to wait for as long as it takes.
GoOnUnarmed ==
  /\ lame = "select"
  /\ games # "stop"
  /\ lame' = "accept"
  /\ UNCHANGED <<games, things, world, text, deadline, client, crashed>>

GoOn ==
  /\ lame = "select"
  /\ games # "stop"
  /\ lame' = "accept"
  /\ deadline' = "armed"
  /\ UNCHANGED <<games, things, world, text, client, crashed>>

\* A second has passed since the deadline was set.
Expire ==
  /\ deadline = "armed"
  /\ deadline' = "expired"
  /\ UNCHANGED <<games, lame, things, world, text, client, crashed>>

\* Faulty: serveLameDuck returns when nobody has connected for a second.
AcceptGivesUp ==
  /\ lame = "accept"
  /\ deadline = "expired"
  /\ lame' = "clear"
  /\ UNCHANGED <<games, things, world, text, deadline, client, crashed>>

\* Accept returns the error, and the loop goes on.
AcceptTimesOut ==
  /\ lame = "accept"
  /\ deadline = "expired"
  /\ lame' = "select"
  /\ UNCHANGED <<games, things, world, text, deadline, client, crashed>>

\* Faulty: the deadline stays as it was.
DisarmNot ==
  /\ lame = "disarm"
  /\ lame' = "clear"
  /\ UNCHANGED <<games, things, world, text, deadline, client, crashed>>

Disarm ==
  /\ lame = "disarm"
  /\ lame' = "clear"
  /\ deadline' = "none"
  /\ UNCHANGED <<games, things, world, text, client, crashed>>

\* The deferred gw.LameDuckText = "".
BeginClear ==
  /\ lame = "clear"
  /\ text = "set"
  /\ text' = "clearing"
  /\ UNCHANGED <<games, lame, things, world, deadline, client, crashed>>

EndClear ==
  /\ text = "clearing"
  /\ text' = "empty"
  /\ lame' = "done"
  /\ UNCHANGED <<games, things, world, deadline, client, crashed>>

-----------------------------------------------------------------------------
(* Connections.                                                            *)

\* The kernel queues a client while the port is open.
Connect(c) ==
  /\ lame # "off"
  /\ client[c] = "away"
  /\ client' = [client EXCEPT ![c] = "queued"]
  /\ UNCHANGED <<serverVars, crashed>>

\* Accept returns the connection, in whichever loop; a goroutine takes it.
LameAccepts(c) ==
  /\ lame = "accept"
  /\ deadline # "expired"
  /\ client[c] = "queued"
  /\ client' = [client EXCEPT ![c] = "handshake"]
  /\ lame' = "select"
  /\ UNCHANGED <<games, things, world, text, deadline, crashed>>

GamesAccepts(c) ==
  /\ games = "accept"
  /\ deadline # "expired"
  /\ client[c] = "queued"
  /\ client' = [client EXCEPT ![c] = "handshake"]
  /\ UNCHANGED <<serverVars, crashed>>

\* The client leaves or does not make itself understood within five seconds,
\* or it has asked for something other than the game world.
HandshakeFails(c) ==
  /\ client[c] = "handshake"
  /\ client' = [client EXCEPT ![c] = "closed"]
  /\ UNCHANGED <<serverVars, crashed>>

\* Serve compares LameDuckText with "".
CheckText(c) ==
  /\ client[c] = "handshake"
  /\ \/ /\ text # "empty"
        /\ client' = [client EXCEPT ![c] = "turned away"]
     \/ /\ text # "set"
        /\ client' = [client EXCEPT ![c] = "playing"]
  /\ UNCHANGED <<serverVars, crashed>>

\* Serve reads LameDuckText again, to send it, and closes the connection.
TurnAway(c) ==
  /\ client[c] = "turned away"
  /\ client' = [client EXCEPT ![c] = "closed"]
  /\ UNCHANGED <<serverVars, crashed>>

\* The two words of LameDuckText that were read do not belong together.
TornRead(c) ==
  /\ client[c] = "turned away"
  /\ text = "clearing"
  /\ crashed' = TRUE
  /\ UNCHANGED <<serverVars, client>>

-----------------------------------------------------------------------------

Games == GamesFails \/ Listen \/ LoadThings \/ LoadMap
LameDuck == SetText \/ GoOn \/ AcceptTimesOut \/ Disarm \/ BeginClear \/ EndClear
Serve(c) == HandshakeFails(c) \/ CheckText(c) \/ TurnAway(c) \/ TornRead(c)

StartNext ==
  /\ ~crashed
  /\ \/ Games \/ LameDuck \/ Stop \/ Expire
     \/ \E c \in Conn : Connect(c) \/ LameAccepts(c) \/ GamesAccepts(c) \/ Serve(c)

StartSpec == StartInit /\ [][StartNext]_startVars

\* Goroutines that can run do, and reading a file ends; time passes.  A client
\* that is queued while Accept is called again and again is not passed over
\* forever: the kernel's queue is first in, first out.
Fairness ==
  /\ WF_startVars(~crashed /\ Games)
  /\ WF_startVars(~crashed /\ LameDuck)
  /\ WF_startVars(~crashed /\ Stop)
  /\ WF_startVars(~crashed /\ Expire)
  /\ \A c \in Conn : /\ SF_startVars(~crashed /\ (LameAccepts(c) \/ GamesAccepts(c)))
                     /\ WF_startVars(~crashed /\ Serve(c))

FairStartSpec == StartSpec /\ Fairness
-----------------------------------------------------------------------------
(* Properties.                                                             *)

StartTypeOK ==
  /\ games \in {"listen", "things", "map", "stop", "accept", "failed"}
  /\ lame \in {"off", "begin", "select", "accept", "disarm", "clear", "done"}
  /\ things \in BOOLEAN /\ world \in BOOLEAN /\ crashed \in BOOLEAN
  /\ text \in {"empty", "set", "clearing"}
  /\ deadline \in {"none", "armed", "expired"}
  /\ client \in [Conn -> {"away", "queued", "handshake", "turned away", "playing", "closed"}]

\* Nobody enters a game world that is not there: serveGame, which uses things
\* and mapDataSource without looking whether they are set
\* (gameworld/gameworld.go:323), is reached only after both were
\* (cmd/gotserv/gotserv.go:250, 272), although nothing but LameDuckText keeps a
\* client accepted before that from it.
PlaysOnAMap == \A c \in Conn : client[c] = "playing" => things /\ world

\* games does not hang on lameDuckStop <- true (cmd/gotserv/gotserv.go:276):
\* the lame duck sees to it within a second even if no client connects.
LameDuckEnds == games = "stop" ~> (lame = "done" \/ crashed)

\* The lame duck leaves nothing behind on the listener that games goes on to
\* use: its Accept does not time out in the long run
\* (cmd/gotserv/gotserv.go:163, 169).
ListenerRestored == games = "accept" ~> (crashed \/ [](deadline = "none"))

\* A client that has connected is served, whether or not anything could be
\* loaded, by one loop or the other.
NobodyWaits ==
  \A c \in Conn : client[c] = "queued" ~> (client[c] \in {"playing", "closed"} \/ crashed)
-----------------------------------------------------------------------------
(* The inductive invariant behind PlaysOnAMap.                             *)

\* Nobody is let in before the lame duck has seen games at its end.
StartupInv ==
  /\ StartTypeOK
  /\ games \in {"map", "stop", "accept"} => things
  /\ games \in {"stop", "accept"} => world
  /\ lame \in {"disarm", "clear", "done"} <=> games = "accept"
  /\ games = "listen" => lame = "off"
  /\ text = "clearing" => lame = "clear"
  /\ lame \in {"off", "begin", "done"} => text = "empty"
  /\ lame \in {"select", "accept", "disarm"} => text = "set"
  /\ lame \in {"off", "begin"} => \A c \in Conn : client[c] \in {"away", "queued"}
=============================================================================
