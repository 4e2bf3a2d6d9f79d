------------------------------ MODULE Gameworld ------------------------------
(***************************************************************************)
(* The game world server (gameworld/gameworld.go): what happens to the     *)
(* connections one GameworldServer serves.                                 *)
(*                                                                         *)
(* Each connection has a main goroutine (Serve, serveGame and its main     *)
(* loop), a networkSender and a networkReceiver, joined by two unbuffered  *)
(* channels, senderChan and receiverChan.  A send on an unbuffered channel *)
(* is one step together with the receive.  Speech adds goroutines: one per *)
(* hearer, each blocked on the hearer's senderChan.  The server shares two *)
(* unsynchronised maps, the data source's creatures and its own            *)
(* connections, between all main goroutines.                               *)
(*                                                                         *)
(* A connection is named by the member of Conn it is, which is also the    *)
(* creature it registers (GameworldConnection.id); PlayerIDs looks at how  *)
(* those identifiers are chosen, World at what the moves do.               *)
(***************************************************************************)
EXTENDS Naturals, Sequences, FiniteSets

CONSTANTS
  Conn,      \* the connections accepted in a behaviour
  Kinds,     \* the kinds of message the clients send
  Repertoire, \* bound: which of them each client sends
  Quota,     \* bound: how many messages the server reads from each connection
  MaxSent    \* the largest of the quotas

AllKinds == {"logout", "bad", "move", "turn", "say", "outfit", "other"}

ASSUME KindsAssumption == Kinds \subseteq AllKinds
ASSUME RepertoireAssumption == Repertoire \in [Conn -> SUBSET Kinds]
ASSUME QuotaAssumption == MaxSent \in Nat /\ Quota \in [Conn -> 0..MaxSent]

VARIABLES
  lameDuck,     \* LameDuckText # ""
  client,       \* the peer: "away", "online" or "gone"
  sock,         \* our end of the TCP connection: "unused", "open" or "closed"
  main,         \* where the connection's main goroutine is
  reply,        \* number of the request whose answer the main loop sends, or 0
  todo,         \* connections playerSay has still to visit
  sender,       \* networkSender: "off", "select", "write" or "quit"
  out,          \* the message networkSender has taken from senderChan
  receiver,     \* networkReceiver: "off", "read", "offer" or "quit"
  got,          \* the message networkReceiver offers on receiverChan
  sent,         \* how many messages were read from the connection
  creatures,    \* mapDataSource.creatures, by connection
  connections,  \* GameworldServer.connections
  chat,         \* goroutines playerSay started that have not sent yet
  wire,         \* what networkSender wrote to the connection, in order
  crashed       \* the Go runtime stopped the process on a map race

loopVars   == <<main, reply, todo>>
senderVars == <<sender, out, wire>>
recvVars   == <<receiver, got, sent>>
peerVars   == <<client, sock>>
sharedVars == <<creatures, connections, chat>>
vars == <<lameDuck, client, sock, main, reply, todo, sender, out, receiver,
          got, sent, creatures, connections, chat, wire, crashed>>

MainStates == {"idle", "serve", "appear", "start", "register", "loop",
               "say", "reply", "remove", "close", "done"}

ClientMsg == [kind : Kinds, n : 1..MaxSent]
NoMsg == [kind |-> "none", n |-> 0]

WireMsg == [type : {"reject", "appear", "reply", "say"},
            from : Conn, n : 0..MaxSent]
Reject(c)     == [type |-> "reject", from |-> c, n |-> 0]
Appear(c)     == [type |-> "appear", from |-> c, n |-> 0]
Answer(c, n)  == [type |-> "reply", from |-> c, n |-> n]
Speech(c, n)  == [type |-> "say", from |-> c, n |-> n]
NoOut == [type |-> "none", n |-> 0]

\* A goroutine of playerSay: the hearer, and the speech it carries.
ChatSend == [to : Conn, from : Conn, n : 0..MaxSent]

Init ==
  /\ lameDuck \in BOOLEAN
  /\ client = [c \in Conn |-> "away"]
  /\ sock = [c \in Conn |-> "unused"]
  /\ main = [c \in Conn |-> "idle"]
  /\ reply = [c \in Conn |-> 0]
  /\ todo = [c \in Conn |-> {}]
  /\ sender = [c \in Conn |-> "off"]
  /\ out = [c \in Conn |-> NoOut]
  /\ receiver = [c \in Conn |-> "off"]
  /\ got = [c \in Conn |-> NoMsg]
  /\ sent = [c \in Conn |-> 0]
  /\ creatures = {}
  /\ connections = {}
  /\ chat = {}
  /\ wire = [c \in Conn |-> <<>>]
  /\ crashed = FALSE

-----------------------------------------------------------------------------
(* The peer and the accepting goroutine.                                   *)

\* Every step but the race needs the process up, and leaves it so.
Up == ~crashed /\ UNCHANGED crashed

\* The listener hands the connection and its first message to Serve.
Accept(c) ==
  /\ Up
  /\ main[c] = "idle"
  /\ client' = [client EXCEPT ![c] = "online"]
  /\ sock' = [sock EXCEPT ![c] = "open"]
  /\ main' = [main EXCEPT ![c] = "serve"]
  /\ UNCHANGED <<lameDuck, reply, todo, senderVars, recvVars, sharedVars>>

\* The client closes or loses its connection.
Disconnect(c) ==
  /\ Up
  /\ client[c] = "online"
  /\ client' = [client EXCEPT ![c] = "gone"]
  /\ UNCHANGED <<lameDuck, sock, loopVars, senderVars, recvVars, sharedVars>>

\* The server that owns the game world has finished loading.
EndLameDuck ==
  /\ Up
  /\ lameDuck
  /\ lameDuck' = FALSE
  /\ UNCHANGED <<peerVars, loopVars, senderVars, recvVars, sharedVars>>

-----------------------------------------------------------------------------
(* Serve and serveGame, up to the main loop.                               *)

\* Serve returns an error: header, RSA, keys or a login string is unreadable.
BadHandshake(c) ==
  /\ Up
  /\ main[c] = "serve"
  /\ main' = [main EXCEPT ![c] = "close"]
  /\ UNCHANGED <<lameDuck, peerVars, reply, todo, senderVars, recvVars, sharedVars>>

\* In lame duck mode Serve answers with the text, if it can, and returns.
ServeLameDuck(c) ==
  /\ Up
  /\ main[c] = "serve"
  /\ lameDuck
  /\ main' = [main EXCEPT ![c] = "close"]
  /\ wire' \in {wire, [wire EXCEPT ![c] = Append(@, Reject(c))]}
  /\ UNCHANGED <<lameDuck, peerVars, reply, todo, sender, out, recvVars, sharedVars>>

\* Faulty: the connection is registered before its initial appearance is sent.
EnterGameRegistered(c) ==
  /\ Up
  /\ main[c] = "serve"
  /\ ~lameDuck
  /\ creatures' = creatures \cup {c}
  /\ connections' = connections \cup {c}
  /\ sender' = [sender EXCEPT ![c] = "select"]
  /\ main' = [main EXCEPT ![c] = "appear"]
  /\ UNCHANGED <<lameDuck, peerVars, reply, todo, out, wire, recvVars, chat>>

\* serveGame adds the player's creature and starts networkSender.
EnterGame(c) ==
  /\ Up
  /\ main[c] = "serve"
  /\ ~lameDuck
  /\ creatures' = creatures \cup {c}
  /\ sender' = [sender EXCEPT ![c] = "select"]
  /\ main' = [main EXCEPT ![c] = "appear"]
  /\ UNCHANGED <<lameDuck, peerVars, reply, todo, out, wire, recvVars, connections, chat>>

\* initialAppear cannot describe the map: serveGame returns before it has
\* deferred RemoveCreatureByID.
AppearFails(c) ==
  /\ Up
  /\ main[c] = "appear"
  /\ main' = [main EXCEPT ![c] = "close"]
  /\ UNCHANGED <<lameDuck, peerVars, reply, todo, senderVars, recvVars, sharedVars>>

\* serveGame clears the deadline, starts networkReceiver and defers the removal.
StartReceiver(c) ==
  /\ Up
  /\ main[c] = "start"
  /\ receiver' = [receiver EXCEPT ![c] = "read"]
  /\ main' = [main EXCEPT ![c] = "register"]
  /\ UNCHANGED <<lameDuck, peerVars, reply, todo, senderVars, got, sent, sharedVars>>

\* c.connections[gwConn.id] = gwConn.  A playerSay that is iterating over the
\* map may or may not come across the new entry.
Register(c) ==
  /\ Up
  /\ main[c] = "register"
  /\ connections' = connections \cup {c}
  /\ main' = [main EXCEPT ![c] = "loop"]
  /\ \E S \in SUBSET {d \in Conn : main[d] = "say"} :
       todo' = [d \in Conn |-> IF d \in S THEN todo[d] \cup {c} ELSE todo[d]]
  /\ UNCHANGED <<lameDuck, peerVars, reply, senderVars, recvVars, creatures, chat>>

-----------------------------------------------------------------------------
(* The main loop: one case of the switch on the message type each.         *)

\* The main loop receives the message of kind k networkReceiver offers.
Receives(c, k) ==
  /\ main[c] = "loop"
  /\ receiver[c] = "offer"
  /\ got[c].kind = k
  /\ receiver' = [receiver EXCEPT ![c] = "read"]
  /\ got' = [got EXCEPT ![c] = NoMsg]
  /\ UNCHANGED sent

\* Faulty: an unreadable message returns past the removal of the creature.
LeaveUnremoved(c) ==
  /\ Up
  /\ \E k \in {"logout", "bad"} :
       /\ Receives(c, k)
       /\ main' = [main EXCEPT ![c] = IF k = "bad" THEN "close" ELSE "remove"]
  /\ UNCHANGED <<lameDuck, peerVars, reply, todo, senderVars, sharedVars>>

\* 0x14, or a message that cannot be decrypted or is cut short: the loop
\* returns, and the deferred calls run.
Leave(c) ==
  /\ Up
  /\ \E k \in {"logout", "bad"} : Receives(c, k)
  /\ main' = [main EXCEPT ![c] = "remove"]
  /\ UNCHANGED <<lameDuck, peerVars, reply, todo, senderVars, sharedVars>>

\* The loop goes on to send an answer to the message it has received.
Answers(c) ==
  /\ main' = [main EXCEPT ![c] = "reply"]
  /\ reply' = [reply EXCEPT ![c] = got[c].n]

\* 0x65 to 0x68 and 0xD2: an answer, or an error that is only logged.
Request(c) ==
  /\ Up
  /\ \E k \in {"move", "outfit"} : Receives(c, k)
  /\ \/ c \in creatures /\ Answers(c)
     \/ UNCHANGED <<main, reply>>
  /\ UNCHANGED <<lameDuck, peerVars, todo, senderVars, sharedVars>>

\* 0x6A to 0x6D: playerCancelMove answers whenever the creature is known.
Turn(c) ==
  /\ Up
  /\ Receives(c, "turn")
  /\ IF c \in creatures THEN Answers(c) ELSE UNCHANGED <<main, reply>>
  /\ UNCHANGED <<lameDuck, peerVars, todo, senderVars, sharedVars>>

\* 0xA0 with all its bytes, and every type the switch does not name.
Ignore(c) ==
  /\ Up
  /\ Receives(c, "other")
  /\ UNCHANGED <<lameDuck, peerVars, loopVars, senderVars, sharedVars>>

\* 0x96: playerSay starts to iterate over the connections, its own included;
\* other chat types and unreadable texts have no effect.
Say(c) ==
  /\ Up
  /\ Receives(c, "say")
  /\ \/ /\ c \in creatures
        /\ main' = [main EXCEPT ![c] = "say"]
        /\ reply' = [reply EXCEPT ![c] = got[c].n]
        /\ todo' = [todo EXCEPT ![c] = connections]
     \/ UNCHANGED loopVars
  /\ UNCHANGED <<lameDuck, peerVars, senderVars, sharedVars>>

\* One round of the loop: a goroutine that will send to the connection d.
SayTo(c, d) ==
  /\ Up
  /\ main[c] = "say"
  /\ d \in todo[c]
  /\ chat' = chat \cup {[to |-> d, from |-> c, n |-> reply[c]]}
  /\ todo' = [todo EXCEPT ![c] = @ \ {d}]
  /\ UNCHANGED <<lameDuck, peerVars, main, reply, senderVars, recvVars, creatures, connections>>

SayDone(c) ==
  /\ Up
  /\ main[c] = "say"
  /\ todo[c] = {}
  /\ main' = [main EXCEPT ![c] = "loop"]
  /\ reply' = [reply EXCEPT ![c] = 0]
  /\ UNCHANGED <<lameDuck, peerVars, todo, senderVars, recvVars, sharedVars>>

\* The deferred RemoveCreatureByID; the entry in connections stays.
RemoveCreature(c) ==
  /\ Up
  /\ main[c] = "remove"
  /\ creatures' = creatures \ {c}
  /\ main' = [main EXCEPT ![c] = "close"]
  /\ UNCHANGED <<lameDuck, peerVars, reply, todo, senderVars, recvVars, connections, chat>>

\* The deferred conn.Close; Serve has returned.
CloseConn(c) ==
  /\ Up
  /\ main[c] = "close"
  /\ sock' = [sock EXCEPT ![c] = "closed"]
  /\ main' = [main EXCEPT ![c] = "done"]
  /\ UNCHANGED <<lameDuck, client, reply, todo, senderVars, recvVars, sharedVars>>

-----------------------------------------------------------------------------
(* networkReceiver.                                                        *)

\* ReadMessage returns a message the client sent, before it left or not.
ReceiverReads(c) ==
  /\ Up
  /\ receiver[c] = "read"
  /\ sock[c] = "open"
  /\ sent[c] < Quota[c]
  /\ sent' = [sent EXCEPT ![c] = @ + 1]
  /\ \E k \in Repertoire[c] : got' = [got EXCEPT ![c] = [kind |-> k, n |-> sent[c] + 1]]
  /\ receiver' = [receiver EXCEPT ![c] = "offer"]
  /\ UNCHANGED <<lameDuck, peerVars, loopVars, senderVars, sharedVars>>

\* Faulty: networkReceiver takes the player's creature away itself.
ReceiverQuitsRemoving(c) ==
  /\ Up
  /\ receiver[c] = "read"
  /\ client[c] = "gone" \/ sock[c] = "closed"
  /\ receiver' = [receiver EXCEPT ![c] = "quit"]
  /\ creatures' = creatures \ {c}
  /\ UNCHANGED <<lameDuck, peerVars, loopVars, senderVars, got, sent, connections, chat>>

\* ReadMessage fails: networkReceiver returns, and tells nobody.
ReceiverQuits(c) ==
  /\ Up
  /\ receiver[c] = "read"
  /\ client[c] = "gone" \/ sock[c] = "closed"
  /\ receiver' = [receiver EXCEPT ![c] = "quit"]
  /\ UNCHANGED <<lameDuck, peerVars, loopVars, senderVars, got, sent, sharedVars>>

-----------------------------------------------------------------------------
(* networkSender: the receive on senderChan completes the waiting send.    *)

Takes(c, m) ==
  /\ sender[c] = "select"
  /\ sender' = [sender EXCEPT ![c] = "write"]
  /\ out' = [out EXCEPT ![c] = m]
  /\ UNCHANGED wire

TakeAppear(c) ==
  /\ Up
  /\ main[c] = "appear"
  /\ Takes(c, Appear(c))
  /\ main' = [main EXCEPT ![c] = "start"]
  /\ UNCHANGED <<lameDuck, peerVars, reply, todo, recvVars, sharedVars>>

\* Faulty: an answer is held back as long as the client has sent more.
TakeReplyHeld(c) ==
  /\ Up
  /\ main[c] = "reply"
  /\ receiver[c] # "offer"
  /\ Takes(c, Answer(c, reply[c]))
  /\ main' = [main EXCEPT ![c] = "loop"]
  /\ reply' = [reply EXCEPT ![c] = 0]
  /\ UNCHANGED <<lameDuck, peerVars, todo, recvVars, sharedVars>>

TakeReply(c) ==
  /\ Up
  /\ main[c] = "reply"
  /\ Takes(c, Answer(c, reply[c]))
  /\ main' = [main EXCEPT ![c] = "loop"]
  /\ reply' = [reply EXCEPT ![c] = 0]
  /\ UNCHANGED <<lameDuck, peerVars, todo, recvVars, sharedVars>>

\* Faulty: speech is no longer taken once the main loop has returned.
TakeChatWhilePlaying(c) ==
  /\ Up
  /\ main[c] \in {"loop", "say", "reply"}
  /\ \E m \in chat :
       /\ m.to = c
       /\ Takes(c, Speech(m.from, m.n))
       /\ chat' = chat \ {m}
  /\ UNCHANGED <<lameDuck, peerVars, loopVars, recvVars, creatures, connections>>

\* Faulty: the speech is sent to the hearer twice.
TakeChatAgain(c) ==
  /\ Up
  /\ \E m \in chat : m.to = c /\ Takes(c, Speech(m.from, m.n))
  /\ UNCHANGED <<lameDuck, peerVars, loopVars, recvVars, sharedVars>>

TakeChat(c) ==
  /\ Up
  /\ \E m \in chat :
       /\ m.to = c
       /\ Takes(c, Speech(m.from, m.n))
       /\ chat' = chat \ {m}
  /\ UNCHANGED <<lameDuck, peerVars, loopVars, recvVars, creatures, connections>>

\* io.Copy has handed the whole message to the socket.
SenderWrites(c) ==
  /\ Up
  /\ sender[c] = "write"
  /\ sock[c] = "open"
  /\ wire' = [wire EXCEPT ![c] = Append(@, out[c])]
  /\ sender' = [sender EXCEPT ![c] = "select"]
  /\ out' = [out EXCEPT ![c] = NoOut]
  /\ UNCHANGED <<lameDuck, peerVars, loopVars, recvVars, sharedVars>>

\* The five second deadline of the accepting goroutine still applies.
DeadlineArmed(c) == main[c] \in {"serve", "appear", "start"}

\* The write fails: networkSender returns, and tells nobody.
SenderQuits(c) ==
  /\ Up
  /\ sender[c] = "write"
  /\ client[c] = "gone" \/ sock[c] = "closed" \/ DeadlineArmed(c)
  /\ sender' = [sender EXCEPT ![c] = "quit"]
  /\ out' = [out EXCEPT ![c] = NoOut]
  /\ UNCHANGED <<lameDuck, peerVars, loopVars, wire, recvVars, sharedVars>>

-----------------------------------------------------------------------------
(* The maps no lock protects.  Two goroutines that are both about to use   *)
(* one, one of them to write, may be caught by the runtime's check.        *)

WritesConnections(c) == main[c] = "register"
ReadsConnections(c)  == main[c] = "say"
WritesCreatures(c)   == main[c] = "remove" \/ (main[c] = "serve" /\ ~lameDuck)
ReadsCreatures(c)    == /\ main[c] = "loop"
                        /\ receiver[c] = "offer"
                        /\ got[c].kind \in {"move", "turn", "say", "outfit"}

MapRace(c, d) ==
  /\ ~crashed
  /\ c # d
  /\ \/ WritesConnections(c) /\ (WritesConnections(d) \/ ReadsConnections(d))
     \/ WritesCreatures(c) /\ (WritesCreatures(d) \/ ReadsCreatures(d))
  /\ crashed' = TRUE
  /\ UNCHANGED <<lameDuck, peerVars, loopVars, senderVars, recvVars, sharedVars>>

-----------------------------------------------------------------------------

Main(c) ==
  \/ BadHandshake(c) \/ ServeLameDuck(c) \/ EnterGame(c) \/ AppearFails(c)
  \/ StartReceiver(c) \/ Register(c)
  \/ Leave(c) \/ Request(c) \/ Turn(c) \/ Ignore(c) \/ Say(c)
  \/ \E d \in Conn : SayTo(c, d)
  \/ SayDone(c) \/ RemoveCreature(c) \/ CloseConn(c)

Sender(c) ==
  \/ TakeAppear(c) \/ TakeReply(c) \/ TakeChat(c)
  \/ SenderWrites(c) \/ SenderQuits(c)

Receiver(c) == ReceiverReads(c) \/ ReceiverQuits(c)

Peer(c) == Accept(c) \/ Disconnect(c)

Next ==
  \/ EndLameDuck
  \/ \E c \in Conn : Peer(c) \/ Main(c) \/ Sender(c) \/ Receiver(c)
  \/ \E c, d \in Conn : MapRace(c, d)

Spec == Init /\ [][Next]_vars

\* The Go scheduler runs every goroutine that can run, and a write to a socket
\* ends, one way or the other: the client drains its socket or loses it.
\* Nothing obliges a client to connect, to send or to leave, nor the server to
\* finish loading.
Fairness ==
  \A c \in Conn :
    /\ WF_vars(Main(c))
    /\ WF_vars(Sender(c))
    /\ WF_vars(ReceiverQuits(c))

FairSpec == Spec /\ Fairness
-----------------------------------------------------------------------------
(* Properties.                                                             *)

TypeOK ==
  /\ lameDuck \in BOOLEAN
  /\ crashed \in BOOLEAN
  /\ client \in [Conn -> {"away", "online", "gone"}]
  /\ sock \in [Conn -> {"unused", "open", "closed"}]
  /\ main \in [Conn -> MainStates]
  /\ reply \in [Conn -> 0..MaxSent]
  /\ todo \in [Conn -> SUBSET Conn]
  /\ sender \in [Conn -> {"off", "select", "write", "quit"}]
  /\ out \in [Conn -> WireMsg \cup {NoOut}]
  /\ \A c \in Conn : sender[c] = "write" => out[c] \in WireMsg
  /\ receiver \in [Conn -> {"off", "read", "offer", "quit"}]
  /\ got \in [Conn -> ClientMsg \cup {NoMsg}]
  /\ sent \in [Conn -> 0..MaxSent]
  /\ creatures \subseteq Conn
  /\ connections \subseteq Conn
  /\ chat \subseteq ChatSend
  /\ wire \in [Conn -> Seq(WireMsg)]

\* The stream every client is sent is one ClientStream allows: rejected, or
\* shown the world first, then its answers in order, and no speech twice,
\* although speech is sent by goroutines of other connections
\* (gameworld/gameworld.go:482-500) that know nothing of this one's progress.
Stream == INSTANCE ClientStream WITH stream <- wire
StreamSpec == Stream!Spec

\* When Serve has returned, the creature of a player who has been shown the
\* world is gone from the data source, whatever made the main loop return
\* (gameworld/gameworld.go:358): only a connection that was sent nothing can
\* leave its creature behind (349-351 return before the removal is deferred).
NoGhostOfAPlayer ==
  \A c \in Conn : main[c] = "done" /\ c \in creatures => wire[c] = <<>>

\* A logout the server has read is carried out (gameworld/gameworld.go:383), also
\* when the main loop is still waiting to send the answer to an earlier request
\* (line 455) and networkSender is busy with what the other players say, unless
\* that networkSender has returned: the main loop then stays on its send.
LogoutLeaves ==
  \A c \in Conn :
    (receiver[c] = "offer" /\ got[c].kind = "logout")
      ~> (c \notin creatures \/ sender[c] = "quit" \/ crashed)

\* Every goroutine playerSay starts comes to an end (gameworld/gameworld.go:497)
\* unless its hearer's networkSender has returned.
SpeechDelivered ==
  \A c, d \in Conn, n \in 1..MaxSent :
    LET speech == [to |-> d, from |-> c, n |-> n]
    IN  speech \in chat ~> (speech \notin chat \/ sender[d] = "quit" \/ crashed)

\* networkReceiver has returned, and the main loop waits for its messages.
Orphan(c) == receiver[c] = "quit" /\ main[c] = "loop"

\* A client that has gone leaves its player behind: once networkReceiver has
\* returned on an error (gameworld/gameworld.go:557) the waiting main loop stays
\* where it is, its creature on the map and its connection among the hearers,
\* whatever the other players do; nothing is ever sent on mainLoopQuit, the
\* "Signal to quit the main loop goroutine" of line 135.
OrphanStays ==
  [][\A c \in Conn :
       Orphan(c) => Orphan(c)' /\ c \in creatures' /\ c \in connections']_vars

-----------------------------------------------------------------------------
(* The inductive invariant behind StreamSpec.                              *)

\* networkSender has taken the initial appearance of c.
Begun(c) == \/ sender[c] = "quit"
            \/ out[c].type = "appear"
            \/ Stream!Shown(wire[c])

\* Nothing but the appearance is taken from senderChan before it, because a
\* connection is registered, and heard of by the others, only after it.
AppearFor(c) ==
  /\ sender[c] = "write" <=> out[c].type # "none"
  /\ out[c].type = "appear" => out[c] = Appear(c) /\ wire[c] = <<>>
  /\ out[c].type \in {"reply", "say"} => Stream!Shown(wire[c])
  /\ out[c].type # "reject"
  /\ main[c] \in {"idle", "serve"} => sender[c] = "off"
  /\ main[c] = "appear" => sender[c] = "select"
  /\ main[c] \in {"idle", "serve", "appear"} => wire[c] = <<>>
  /\ main[c] \in {"start", "register", "loop", "say", "reply", "remove"} =>
       sender[c] # "off" /\ Begun(c)
  /\ c \in connections =>
       /\ main[c] \in {"loop", "say", "reply", "remove", "close", "done"}
       /\ sender[c] # "off"
       /\ Begun(c)
  /\ todo[c] \subseteq connections

AppearInv ==
  /\ \A c \in Conn : AppearFor(c)
  /\ \A m \in chat : m.to \in connections

\* Answers leave in the order of the requests: the next one is always to a
\* request read later than those whose answers were taken.
OrderFor(c) ==
  /\ main[c] \in {"idle", "serve", "appear", "start"} => receiver[c] = "off"
  /\ IF receiver[c] = "offer" THEN got[c].n = sent[c] ELSE got[c] = NoMsg
  /\ main[c] \in {"reply", "say"} =>
       /\ reply[c] \in 1..sent[c]
       /\ receiver[c] = "offer" => reply[c] < sent[c]
  /\ \A m \in Stream!Messages(wire[c]) \cup {out[c]} :
       m.type = "reply" =>
         /\ m.from = c
         /\ m.n \in 1..sent[c]
         /\ main[c] = "reply" => m.n < reply[c]
         /\ receiver[c] = "offer" => m.n < sent[c]
  /\ \A m \in Stream!Messages(wire[c]) :
       m.type = "reply" /\ out[c].type = "reply" => m.n < out[c].n

OrderInv == \A c \in Conn : OrderFor(c)

\* The n-th message of c is a speech that is on its way to d, or has arrived.
Spoken(c, d, n) == \/ [to |-> d, from |-> c, n |-> n] \in chat
                   \/ Speech(c, n) \in Stream!Messages(wire[d]) \cup {out[d]}

\* A speech is at most in one place on its way to a hearer, and playerSay
\* still has to visit a hearer only if its speech has not been there yet.
SpokenFor(c, d, n) ==
  Spoken(c, d, n) =>
    /\ d \in connections
    /\ n <= sent[c]
    /\ receiver[c] = "offer" => n < sent[c]
    /\ main[c] = "say" => n <= reply[c]
    /\ main[c] = "say" /\ d \in todo[c] => n < reply[c]

ChatFor(m) ==
  /\ m.n # 0
  /\ Speech(m.from, m.n) \notin Stream!Messages(wire[m.to]) \cup {out[m.to]}

OutFor(d) ==
  out[d].type = "say" => out[d].n # 0 /\ out[d] \notin Stream!Messages(wire[d])

SpeechInv ==
  /\ \A c, d \in Conn, n \in 1..MaxSent : SpokenFor(c, d, n)
  /\ \A m \in chat : ChatFor(m)
  /\ \A d \in Conn : OutFor(d)

\* A creature is registered by EnterGame only, and outlives the main goroutine
\* only if nothing was taken for its player.
GhostFor(c) ==
  /\ main[c] \in {"idle", "serve"} => c \notin creatures
  /\ main[c] \in {"close", "done"} /\ c \in creatures =>
       c \notin connections /\ out[c].type = "none" /\ wire[c] = <<>>

GhostInv == \A c \in Conn : GhostFor(c)

StreamInv == TypeOK /\ AppearInv /\ OrderInv /\ SpeechInv
=============================================================================
