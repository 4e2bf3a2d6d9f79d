--------------------------- MODULE GameworldProofs ---------------------------
(***************************************************************************)
(* Proofs about Gameworld, for every set of connections and every quota.   *)
(***************************************************************************)
EXTENDS Gameworld, TLAPS

\* The values the senders move around have the types TypeOK gives them.
LEMMA MessageTypes ==
  ASSUME NEW c \in Conn, NEW n \in 0..MaxSent
  PROVE  /\ Appear(c) \in WireMsg
         /\ Reject(c) \in WireMsg
         /\ Answer(c, n) \in WireMsg
         /\ Speech(c, n) \in WireMsg
BY QuotaAssumption DEF WireMsg, Appear, Reject, Answer, Speech

\* Every variable of Gameworld keeps to its type, however many connections
\* there are.
THEOREM TypeCorrect == Spec => []TypeOK
<1>1. Init => TypeOK
  <2> SUFFICES ASSUME Init PROVE TypeOK
    OBVIOUS
  <2>1. /\ lameDuck \in BOOLEAN
        /\ crashed \in BOOLEAN
    BY DEF Init
  <2>2. wire \in [Conn -> Seq(WireMsg)]
    BY DEF Init
  <2> QED BY <2>1, <2>2, QuotaAssumption DEF Init, TypeOK, MainStates
<1>2. TypeOK /\ [Next]_vars => TypeOK'
  <2> SUFFICES ASSUME TypeOK, [Next]_vars PROVE TypeOK'
    OBVIOUS
  <2> USE QuotaAssumption DEF TypeOK, MainStates, Up, loopVars, senderVars, recvVars,
          peerVars, sharedVars
  <2>1. CASE EndLameDuck
    BY <2>1 DEF EndLameDuck
  <2>2. ASSUME NEW c \in Conn, Peer(c) PROVE TypeOK'
    <3>1. CASE Accept(c)
      BY <3>1 DEF Accept
    <3>2. CASE Disconnect(c)
      BY <3>2 DEF Disconnect
    <3> QED BY <2>2, <3>1, <3>2 DEF Peer
  <2>3. ASSUME NEW c \in Conn, BadHandshake(c) PROVE TypeOK'
    BY <2>3 DEF BadHandshake
  <2>4. ASSUME NEW c \in Conn, ServeLameDuck(c) PROVE TypeOK'
    <3>1. Reject(c) \in WireMsg
      BY MessageTypes
    <3>2. Append(wire[c], Reject(c)) \in Seq(WireMsg)
      BY <3>1
    <3>3. wire' \in [Conn -> Seq(WireMsg)]
      BY <2>4, <3>2 DEF ServeLameDuck
    <3> QED BY <2>4, <3>3 DEF ServeLameDuck
  <2>5. ASSUME NEW c \in Conn, EnterGame(c) PROVE TypeOK'
    BY <2>5 DEF EnterGame
  <2>6. ASSUME NEW c \in Conn, AppearFails(c) PROVE TypeOK'
    BY <2>6 DEF AppearFails
  <2>7. ASSUME NEW c \in Conn, StartReceiver(c) PROVE TypeOK'
    BY <2>7 DEF StartReceiver
  <2>8. ASSUME NEW c \in Conn, Register(c) PROVE TypeOK'
    BY <2>8 DEF Register
  <2>9. ASSUME NEW c \in Conn, Leave(c) PROVE TypeOK'
    BY <2>9 DEF Leave, Receives
  <2>10. ASSUME NEW c \in Conn, Request(c) \/ Turn(c) \/ Ignore(c) \/ Say(c) PROVE TypeOK'
    <3>1. PICK k \in AllKinds : Receives(c, k)
      BY <2>10 DEF Request, Turn, Ignore, Say, AllKinds
    <3>2. got[c].n \in 0..MaxSent
      BY DEF ClientMsg, NoMsg
    <3>3. CASE Request(c)
      BY <3>3, <3>1, <3>2 DEF Request, Answers, Receives
    <3>4. CASE Turn(c)
      <4>1. CASE c \in creatures
        BY <3>4, <4>1, <3>2 DEF Turn, Answers, Receives
      <4>2. CASE c \notin creatures
        BY <3>4, <4>2 DEF Turn, Receives
      <4> QED BY <4>1, <4>2
    <3>5. CASE Ignore(c)
      BY <3>5, <3>1, <3>2 DEF Ignore, Receives
    <3>6. CASE Say(c)
      <4>1. CASE main' = [main EXCEPT ![c] = "say"]
        BY <3>6, <4>1, <3>2 DEF Say, Receives
      <4>2. CASE UNCHANGED loopVars
        BY <3>6, <4>2 DEF Say, Receives
      <4> QED BY <3>6, <4>1, <4>2 DEF Say
    <3> QED BY <2>10, <3>3, <3>4, <3>5, <3>6
  <2>11. ASSUME NEW c \in Conn, NEW d \in Conn, SayTo(c, d) PROVE TypeOK'
    <3>1. [to |-> d, from |-> c, n |-> reply[c]] \in ChatSend
      BY DEF ChatSend
    <3>2. todo' \in [Conn -> SUBSET Conn]
      BY <2>11 DEF SayTo
    <3> QED BY <2>11, <3>1, <3>2 DEF SayTo
  <2>12. ASSUME NEW c \in Conn, SayDone(c) PROVE TypeOK'
    BY <2>12 DEF SayDone
  <2>13. ASSUME NEW c \in Conn, RemoveCreature(c) \/ CloseConn(c) PROVE TypeOK'
    <3>1. CASE RemoveCreature(c)
      BY <3>1 DEF RemoveCreature
    <3>2. CASE CloseConn(c)
      BY <3>2 DEF CloseConn
    <3> QED BY <2>13, <3>1, <3>2
  <2>14. ASSUME NEW c \in Conn, ReceiverReads(c) PROVE TypeOK'
    <3>1. \A k \in Repertoire[c] : k \in Kinds
      BY RepertoireAssumption
    <3> QED BY <2>14, <3>1 DEF ReceiverReads, ClientMsg
  <2>15. ASSUME NEW c \in Conn, ReceiverQuits(c) PROVE TypeOK'
    BY <2>15 DEF ReceiverQuits
  <2>16. ASSUME NEW c \in Conn, TakeAppear(c) PROVE TypeOK'
    BY <2>16, MessageTypes DEF TakeAppear, Takes
  <2>17. ASSUME NEW c \in Conn, TakeReply(c) PROVE TypeOK'
    BY <2>17, MessageTypes DEF TakeReply, Takes
  <2>18. ASSUME NEW c \in Conn, TakeChat(c) PROVE TypeOK'
    <3>1. PICK m \in chat : /\ m.to = c
                             /\ Takes(c, Speech(m.from, m.n))
                             /\ chat' = chat \ {m}
      BY <2>18 DEF TakeChat
    <3>2. Speech(m.from, m.n) \in WireMsg
      BY MessageTypes DEF ChatSend
    <3> QED BY <2>18, <3>1, <3>2 DEF TakeChat, Takes
  <2>19. ASSUME NEW c \in Conn, SenderWrites(c) PROVE TypeOK'
    <3>1. Append(wire[c], out[c]) \in Seq(WireMsg)
      BY <2>19 DEF SenderWrites
    <3> QED BY <2>19, <3>1 DEF SenderWrites
  <2>20. ASSUME NEW c \in Conn, SenderQuits(c) PROVE TypeOK'
    BY <2>20 DEF SenderQuits
  <2>21. ASSUME NEW c \in Conn, NEW d \in Conn, MapRace(c, d) PROVE TypeOK'
    BY <2>21 DEF MapRace
  <2>22. CASE UNCHANGED vars
    BY <2>22 DEF vars
  <2> QED
    BY <2>1, <2>2, <2>3, <2>4, <2>5, <2>6, <2>7, <2>8, <2>9, <2>10, <2>11, <2>12, <2>13,
       <2>14, <2>15, <2>16, <2>17, <2>18, <2>19, <2>20, <2>21, <2>22
    DEF Next, Peer, Main, Sender, Receiver
<1>3. QED
  BY <1>1, <1>2, PTL DEF Spec
\* The initial appearance is the first message networkSender takes.
LEMMA AppearStep == TypeOK /\ AppearInv /\ [Next]_vars => AppearInv'
<1> SUFFICES ASSUME TypeOK, AppearInv, [Next]_vars PROVE AppearInv'
  OBVIOUS
<1> USE DEF TypeOK, AppearInv, AppearFor, Begun, Up, loopVars, senderVars, recvVars,
        peerVars, sharedVars
<1>1. CASE EndLameDuck
  BY <1>1 DEF EndLameDuck
<1>2. ASSUME NEW c \in Conn, Accept(c) PROVE AppearInv'
  BY <1>2 DEF Accept
<1>3. ASSUME NEW c \in Conn, Disconnect(c) PROVE AppearInv'
  BY <1>3 DEF Disconnect
<1>4. ASSUME NEW c \in Conn, BadHandshake(c) PROVE AppearInv'
  BY <1>4 DEF BadHandshake
<1>5. ASSUME NEW c \in Conn, ServeLameDuck(c) PROVE AppearInv'
  <2>1. \A d \in Conn \ {c} : wire'[d] = wire[d]
    BY <1>5 DEF ServeLameDuck
  <2>2. /\ main' = [main EXCEPT ![c] = "close"]
        /\ main[c] = "serve"
        /\ UNCHANGED <<sender, out, todo, connections, chat>>
    BY <1>5 DEF ServeLameDuck
  <2>3. ASSUME NEW d \in Conn PROVE AppearFor(d)'
    <3>1. CASE d = c
      BY <2>2, <3>1
    <3>2. CASE d # c
      BY <2>1, <2>2, <3>2
    <3> QED BY <3>1, <3>2
  <2> QED BY <2>2, <2>3
<1>6. ASSUME NEW c \in Conn, EnterGame(c) PROVE AppearInv'
  BY <1>6 DEF EnterGame
<1>7. ASSUME NEW c \in Conn, AppearFails(c) PROVE AppearInv'
  BY <1>7 DEF AppearFails
<1>8. ASSUME NEW c \in Conn, StartReceiver(c) PROVE AppearInv'
  BY <1>8 DEF StartReceiver
<1>9. ASSUME NEW c \in Conn, Register(c) PROVE AppearInv'
  BY <1>9 DEF Register
<1>10. ASSUME NEW c \in Conn, Leave(c) PROVE AppearInv'
  BY <1>10 DEF Leave, Receives
<1>11. ASSUME NEW c \in Conn, Request(c) PROVE AppearInv'
  BY <1>11 DEF Request, Receives, Answers
<1>12. ASSUME NEW c \in Conn, Turn(c) PROVE AppearInv'
  BY <1>12 DEF Turn, Receives, Answers
<1>13. ASSUME NEW c \in Conn, Ignore(c) PROVE AppearInv'
  BY <1>13 DEF Ignore, Receives
<1>14. ASSUME NEW c \in Conn, Say(c) PROVE AppearInv'
  BY <1>14 DEF Say, Receives
<1>15. ASSUME NEW c \in Conn, NEW d \in Conn, SayTo(c, d) PROVE AppearInv'
  BY <1>15 DEF SayTo
<1>16. ASSUME NEW c \in Conn, SayDone(c) PROVE AppearInv'
  BY <1>16 DEF SayDone
<1>17. ASSUME NEW c \in Conn, RemoveCreature(c) PROVE AppearInv'
  BY <1>17 DEF RemoveCreature
<1>18. ASSUME NEW c \in Conn, CloseConn(c) PROVE AppearInv'
  BY <1>18 DEF CloseConn
<1>19. ASSUME NEW c \in Conn, ReceiverReads(c) PROVE AppearInv'
  BY <1>19 DEF ReceiverReads
<1>20. ASSUME NEW c \in Conn, ReceiverQuits(c) PROVE AppearInv'
  BY <1>20 DEF ReceiverQuits
<1>21. ASSUME NEW c \in Conn, TakeAppear(c) PROVE AppearInv'
  BY <1>21 DEF TakeAppear, Takes, Appear
<1>22. ASSUME NEW c \in Conn, TakeReply(c) PROVE AppearInv'
  BY <1>22 DEF TakeReply, Takes, Answer
<1>23. ASSUME NEW c \in Conn, TakeChat(c) PROVE AppearInv'
  BY <1>23 DEF TakeChat, Takes, Speech
<1>24. ASSUME NEW c \in Conn, SenderWrites(c) PROVE AppearInv'
  BY <1>24 DEF SenderWrites, NoOut, Appear, Stream!Shown
<1>25. ASSUME NEW c \in Conn, SenderQuits(c) PROVE AppearInv'
  BY <1>25 DEF SenderQuits, NoOut
<1>26. ASSUME NEW c \in Conn, NEW d \in Conn, MapRace(c, d) PROVE AppearInv'
  BY <1>26 DEF MapRace
<1>27. CASE UNCHANGED vars
  BY <1>27 DEF vars
<1> QED
  BY <1>1, <1>2, <1>3, <1>4, <1>5, <1>6, <1>7, <1>8, <1>9, <1>10, <1>11, <1>12, <1>13, <1>14, <1>15, <1>16, <1>17, <1>18, <1>19, <1>20, <1>21, <1>22, <1>23, <1>24, <1>25, <1>26, <1>27
  DEF Next, Peer, Main, Sender, Receiver

LEMMA MessagesOfAppend ==
  ASSUME NEW S, NEW s \in Seq(S), NEW m \in S
  PROVE  Stream!Messages(Append(s, m)) = Stream!Messages(s) \cup {m}
BY DEF Stream!Messages

\* Answers are taken, and written, in the order of the requests.
LEMMA OrderStep == TypeOK /\ AppearInv /\ OrderInv /\ [Next]_vars => OrderInv'
<1> SUFFICES ASSUME TypeOK, AppearInv, OrderInv, [Next]_vars PROVE OrderInv'
  OBVIOUS
<1> USE QuotaAssumption DEF TypeOK, OrderInv, OrderFor, Up, loopVars, senderVars, recvVars,
        peerVars, sharedVars
<1>1. CASE EndLameDuck
  BY <1>1 DEF EndLameDuck
<1>2. ASSUME NEW c \in Conn, Accept(c) PROVE OrderInv'
  BY <1>2 DEF Accept
<1>3. ASSUME NEW c \in Conn, Disconnect(c) PROVE OrderInv'
  BY <1>3 DEF Disconnect
<1>4. ASSUME NEW c \in Conn, BadHandshake(c) PROVE OrderInv'
  BY <1>4 DEF BadHandshake
<1>5. ASSUME NEW c \in Conn, ServeLameDuck(c) PROVE OrderInv'
  <2>1. /\ main' = [main EXCEPT ![c] = "close"]
        /\ UNCHANGED <<out, reply, receiver, got, sent>>
        /\ wire' \in {wire, [wire EXCEPT ![c] = Append(@, Reject(c))]}
    BY <1>5 DEF ServeLameDuck
  <2>2. Stream!Messages(Append(wire[c], Reject(c)))
          = Stream!Messages(wire[c]) \cup {Reject(c)}
    BY MessagesOfAppend, MessageTypes
  <2>3. ASSUME NEW d \in Conn PROVE OrderFor(d)'
    <3>1. CASE wire'[d] = wire[d]
      BY <1>5, <2>1, <3>1 DEF ServeLameDuck
    <3>2. CASE d = c /\ wire'[d] = Append(wire[c], Reject(c))
      BY <1>5, <2>1, <2>2, <3>2 DEF ServeLameDuck, Reject
    <3> QED BY <2>1, <3>1, <3>2
  <2> QED BY <2>3
<1>6. ASSUME NEW c \in Conn, EnterGame(c) PROVE OrderInv'
  BY <1>6 DEF EnterGame
<1>7. ASSUME NEW c \in Conn, AppearFails(c) PROVE OrderInv'
  BY <1>7 DEF AppearFails
<1>8. ASSUME NEW c \in Conn, StartReceiver(c) PROVE OrderInv'
  BY <1>8 DEF StartReceiver
<1>9. ASSUME NEW c \in Conn, Register(c) PROVE OrderInv'
  BY <1>9 DEF Register
<1>10. ASSUME NEW c \in Conn, Leave(c) PROVE OrderInv'
  BY <1>10 DEF Leave, Receives
<1>11. ASSUME NEW c \in Conn, Request(c) PROVE OrderInv'
  BY <1>11 DEF Request, Receives, Answers, ClientMsg, NoMsg
<1>12. ASSUME NEW c \in Conn, Turn(c) PROVE OrderInv'
  BY <1>12 DEF Turn, Receives, Answers, ClientMsg, NoMsg
<1>13. ASSUME NEW c \in Conn, Ignore(c) PROVE OrderInv'
  BY <1>13 DEF Ignore, Receives
<1>14. ASSUME NEW c \in Conn, Say(c) PROVE OrderInv'
  BY <1>14 DEF Say, Receives, ClientMsg, NoMsg
<1>15. ASSUME NEW c \in Conn, NEW d \in Conn, SayTo(c, d) PROVE OrderInv'
  BY <1>15 DEF SayTo
<1>16. ASSUME NEW c \in Conn, SayDone(c) PROVE OrderInv'
  BY <1>16 DEF SayDone
<1>17. ASSUME NEW c \in Conn, RemoveCreature(c) PROVE OrderInv'
  BY <1>17 DEF RemoveCreature
<1>18. ASSUME NEW c \in Conn, CloseConn(c) PROVE OrderInv'
  BY <1>18 DEF CloseConn
<1>19. ASSUME NEW c \in Conn, ReceiverReads(c) PROVE OrderInv'
  BY <1>19 DEF ReceiverReads
<1>20. ASSUME NEW c \in Conn, ReceiverQuits(c) PROVE OrderInv'
  BY <1>20 DEF ReceiverQuits
<1>21. ASSUME NEW c \in Conn, TakeAppear(c) PROVE OrderInv'
  BY <1>21 DEF TakeAppear, Takes, Appear
<1>22. ASSUME NEW c \in Conn, TakeReply(c) PROVE OrderInv'
  BY <1>22 DEF TakeReply, Takes, Answer
<1>23. ASSUME NEW c \in Conn, TakeChat(c) PROVE OrderInv'
  BY <1>23 DEF TakeChat, Takes, Speech
<1>24. ASSUME NEW c \in Conn, SenderWrites(c) PROVE OrderInv'
  <2>1. out[c] \in WireMsg /\ wire[c] \in Seq(WireMsg)
    BY <1>24 DEF SenderWrites
  <2>2. Stream!Messages(Append(wire[c], out[c])) = Stream!Messages(wire[c]) \cup {out[c]}
    BY <2>1, MessagesOfAppend
  <2>3. ASSUME NEW d \in Conn PROVE OrderFor(d)'
    <3>1. CASE d = c
      BY <1>24, <2>2, <3>1 DEF SenderWrites, NoOut
    <3>2. CASE d # c
      BY <1>24, <3>2 DEF SenderWrites
    <3> QED BY <3>1, <3>2
  <2> QED BY <2>3
<1>25. ASSUME NEW c \in Conn, SenderQuits(c) PROVE OrderInv'
  BY <1>25 DEF SenderQuits, NoOut
<1>26. ASSUME NEW c \in Conn, NEW d \in Conn, MapRace(c, d) PROVE OrderInv'
  BY <1>26 DEF MapRace
<1>27. CASE UNCHANGED vars
  BY <1>27 DEF vars
<1> QED
  BY <1>1, <1>2, <1>3, <1>4, <1>5, <1>6, <1>7, <1>8, <1>9, <1>10, <1>11, <1>12, <1>13, <1>14, <1>15, <1>16, <1>17, <1>18, <1>19, <1>20, <1>21, <1>22, <1>23, <1>24, <1>25, <1>26, <1>27
  DEF Next, Peer, Main, Sender, Receiver

\* A step that puts no speech on its way, nor starts to: what is on its way is
\* what it was, and so is what still has to be visited.
Quietly ==
  /\ UNCHANGED <<chat, out, wire, sent, todo>>
  /\ connections \subseteq connections'
  /\ \A c \in Conn : receiver'[c] = "offer" => receiver[c] = "offer"
  /\ \A c \in Conn : main'[c] = "say" => main[c] = "say" /\ reply'[c] = reply[c]

LEMMA NothingSpoken ==
  ASSUME SpeechInv, Quietly
  PROVE  SpeechInv'
<1>1. \A c, d \in Conn, n \in 1..MaxSent : Spoken(c, d, n)' <=> Spoken(c, d, n)
  BY DEF Quietly, Spoken
<1>2. ASSUME NEW c \in Conn, NEW d \in Conn, NEW n \in 1..MaxSent
      PROVE  SpokenFor(c, d, n)'
  <2>1. SpokenFor(c, d, n)
    BY DEF SpeechInv
  <2> QED BY <1>1, <2>1 DEF Quietly, SpokenFor
<1>3. \A m \in chat' : ChatFor(m)'
  BY DEF Quietly, SpeechInv, ChatFor
<1>4. \A d \in Conn : OutFor(d)'
  BY DEF Quietly, SpeechInv, OutFor
<1> QED BY <1>2, <1>3, <1>4 DEF SpeechInv

\* What a connection does around the messages of the game.
Aside(c) ==
  \/ Accept(c) \/ Disconnect(c) \/ BadHandshake(c) \/ EnterGame(c) \/ AppearFails(c)
  \/ StartReceiver(c) \/ Ignore(c) \/ SayDone(c) \/ RemoveCreature(c) \/ CloseConn(c)
  \/ ReceiverQuits(c)

LEMMA AsideQuietly ==
  ASSUME TypeOK, NEW c \in Conn, Aside(c)
  PROVE  Quietly
<1> USE DEF TypeOK, Quietly, loopVars, senderVars, recvVars, peerVars, sharedVars
<1>1. CASE Accept(c) \/ Disconnect(c) \/ BadHandshake(c)
  BY <1>1 DEF Accept, Disconnect, BadHandshake
<1>2. CASE EnterGame(c) \/ AppearFails(c) \/ StartReceiver(c)
  BY <1>2 DEF EnterGame, AppearFails, StartReceiver
<1>3. CASE Ignore(c) \/ SayDone(c)
  BY <1>3 DEF Ignore, Receives, SayDone
<1>4. CASE RemoveCreature(c) \/ CloseConn(c) \/ ReceiverQuits(c)
  BY <1>4 DEF RemoveCreature, CloseConn, ReceiverQuits
<1> QED BY <1>1, <1>2, <1>3, <1>4 DEF Aside

\* No speech is put on its way to a hearer twice.
LEMMA SpeechStep ==
  TypeOK /\ AppearInv /\ OrderInv /\ SpeechInv /\ [Next]_vars => SpeechInv'
<1> SUFFICES ASSUME TypeOK, AppearInv, OrderInv, SpeechInv, [Next]_vars PROVE SpeechInv'
  OBVIOUS
<1>1. ASSUME EndLameDuck \/ UNCHANGED vars \/ \E c, d \in Conn : MapRace(c, d) PROVE SpeechInv'
  <2>1. Quietly
    BY <1>1 DEF EndLameDuck, MapRace, vars, Quietly, loopVars, senderVars, recvVars,
                peerVars, sharedVars
  <2> QED BY <2>1, NothingSpoken
<1>2. ASSUME NEW c \in Conn, Aside(c) PROVE SpeechInv'
  BY <1>2, AsideQuietly, NothingSpoken
<1> USE QuotaAssumption DEF TypeOK, SpeechInv, SpokenFor, ChatFor, OutFor, Up, loopVars, senderVars,
        recvVars, peerVars, sharedVars
<1>3. ASSUME NEW c \in Conn, ServeLameDuck(c) PROVE SpeechInv'
  <2>1. /\ main' = [main EXCEPT ![c] = "close"]
        /\ UNCHANGED <<out, reply, todo, receiver, got, sent, chat, connections>>
        /\ wire' \in {wire, [wire EXCEPT ![c] = Append(@, Reject(c))]}
    BY <1>3 DEF ServeLameDuck
  <2>2. Stream!Messages(Append(wire[c], Reject(c)))
          = Stream!Messages(wire[c]) \cup {Reject(c)}
    BY MessagesOfAppend, MessageTypes
  <2>8. ASSUME NEW d \in Conn
        PROVE  \/ wire'[d] = wire[d]
               \/ wire'[d] = Append(wire[c], Reject(c)) /\ d = c
    BY <2>1
  <2>3. ASSUME NEW e \in Conn, NEW d \in Conn, NEW n
        PROVE  Speech(e, n) \in Stream!Messages(wire'[d])
                 <=> Speech(e, n) \in Stream!Messages(wire[d])
    <3>1. Speech(e, n) # Reject(c)
      BY DEF Speech, Reject
    <3> QED BY <2>2, <2>8, <3>1
  <2>4. ASSUME NEW e \in Conn, NEW d \in Conn, NEW n \in 1..MaxSent
        PROVE  Spoken(e, d, n)' <=> Spoken(e, d, n)
    BY <2>1, <2>3 DEF Spoken
  <2>5. \A e, d \in Conn, n \in 1..MaxSent : SpokenFor(e, d, n)'
    BY <2>1, <2>4
  <2>6. \A m \in chat' : ChatFor(m)'
    BY <2>1, <2>3 DEF ChatSend
  <2>7. \A d \in Conn : OutFor(d)'
    <3>1. \A d \in Conn : out[d].type = "say" => out[d] # Reject(c)
      BY DEF Reject
    <3> QED BY <2>1, <2>2, <2>8, <3>1
  <2> QED BY <2>5, <2>6, <2>7
<1>4. ASSUME NEW c \in Conn, Register(c) PROVE SpeechInv'
  <2>1. \A e, f \in Conn, n \in 1..MaxSent : Spoken(e, f, n)' <=> Spoken(e, f, n)
    BY <1>4 DEF Register, Spoken
  <2>2. \A e, f \in Conn, n \in 1..MaxSent : SpokenFor(e, f, n)'
    <3>1. c \notin connections
      BY <1>4 DEF Register, AppearInv, AppearFor
    <3>2. \A e, f \in Conn : f # c => (f \in todo'[e] <=> f \in todo[e])
      BY <1>4 DEF Register
    <3>3. \A e \in Conn : main'[e] = "say" <=> main[e] = "say"
      BY <1>4 DEF Register
    <3>4. ASSUME NEW e \in Conn, NEW f \in Conn, NEW n \in 1..MaxSent, Spoken(e, f, n)
          PROVE  SpokenFor(e, f, n)'
      <4>1. f # c
        BY <3>1, <3>4
      <4> QED BY <1>4, <2>1, <3>2, <3>3, <3>4, <4>1 DEF Register
    <3> QED BY <2>1, <3>4
  <2> QED BY <1>4, <2>2 DEF Register
<1>5. ASSUME NEW c \in Conn, Leave(c) PROVE SpeechInv'
  <2>1. \A e, f \in Conn, n \in 1..MaxSent : Spoken(e, f, n)' <=> Spoken(e, f, n)
    BY <1>5 DEF Leave, Receives, Spoken
  <2>2. \A e, f \in Conn, n \in 1..MaxSent : SpokenFor(e, f, n)'
    BY <1>5, <2>1 DEF Leave, Receives
  <2> QED BY <1>5, <2>2 DEF Leave, Receives
<1>6. ASSUME NEW c \in Conn, Request(c) PROVE SpeechInv'
  <2>1. \A e, f \in Conn, n \in 1..MaxSent : Spoken(e, f, n)' <=> Spoken(e, f, n)
    BY <1>6 DEF Request, Receives, Answers, Spoken
  <2>2. \A e, f \in Conn, n \in 1..MaxSent : SpokenFor(e, f, n)'
    BY <1>6, <2>1 DEF Request, Receives, Answers
  <2> QED BY <1>6, <2>2 DEF Request, Receives, Answers
<1>7. ASSUME NEW c \in Conn, Turn(c) PROVE SpeechInv'
  <2>1. \A e, f \in Conn, n \in 1..MaxSent : Spoken(e, f, n)' <=> Spoken(e, f, n)
    BY <1>7 DEF Turn, Receives, Answers, Spoken
  <2>2. \A e, f \in Conn, n \in 1..MaxSent : SpokenFor(e, f, n)'
    BY <1>7, <2>1 DEF Turn, Receives, Answers
  <2> QED BY <1>7, <2>2 DEF Turn, Receives, Answers
<1>8. ASSUME NEW c \in Conn, Say(c) PROVE SpeechInv'
  <2>1. \A e, f \in Conn, n \in 1..MaxSent : Spoken(e, f, n)' <=> Spoken(e, f, n)
    BY <1>8 DEF Say, Receives, Spoken
  <2>2. ASSUME NEW e \in Conn, NEW f \in Conn, NEW n \in 1..MaxSent, Spoken(e, f, n)
        PROVE  SpokenFor(e, f, n)'
    <3>1. SpokenFor(e, f, n)
      OBVIOUS
    <3>2. CASE e # c
      BY <1>8, <2>2, <3>1, <3>2 DEF Say, Receives
    <3>3. CASE e = c
      <4>1. receiver[c] = "offer" /\ got[c].n = sent[c]
        BY <1>8 DEF Say, Receives, OrderInv, OrderFor, NoMsg
      <4>2. f \in connections /\ n <= sent[c] /\ n < sent[c] /\ receiver'[c] = "read"
        BY <1>8, <2>2, <3>1, <3>3, <4>1 DEF Say, Receives
      <4> QED BY <1>8, <3>1, <3>3, <4>1, <4>2 DEF Say, Receives
    <3> QED BY <3>2, <3>3
  <2>3. \A e, f \in Conn, n \in 1..MaxSent : SpokenFor(e, f, n)'
    BY <2>1, <2>2
  <2> QED BY <1>8, <2>3 DEF Say, Receives
<1>9. ASSUME NEW c \in Conn, NEW d \in Conn, SayTo(c, d) PROVE SpeechInv'
  <2>1. /\ d \in connections
        /\ reply[c] \in 1..MaxSent
        /\ reply[c] <= sent[c]
        /\ receiver[c] = "offer" => reply[c] < sent[c]
    BY <1>9 DEF SayTo, AppearInv, AppearFor, OrderInv, OrderFor
  <2>2. ~Spoken(c, d, reply[c])
    BY <1>9, <2>1 DEF SayTo
  <2>3. \A e, f \in Conn, n \in 1..MaxSent :
          Spoken(e, f, n)' <=> Spoken(e, f, n) \/ (e = c /\ f = d /\ n = reply[c])
    BY <1>9, <2>1 DEF SayTo, Spoken
  <2>4. ASSUME NEW e \in Conn, NEW f \in Conn, NEW n \in 1..MaxSent, Spoken(e, f, n)'
        PROVE  SpokenFor(e, f, n)'
    <3>1. /\ todo' = [todo EXCEPT ![c] = @ \ {d}]
          /\ UNCHANGED <<main, reply, receiver, sent, connections>>
      BY <1>9 DEF SayTo
    <3>2. CASE Spoken(e, f, n)
      <4>1. SpokenFor(e, f, n)
        OBVIOUS
      <4>2. f \in todo'[e] => f \in todo[e]
        BY <3>1
      <4> QED BY <3>1, <3>2, <4>1, <4>2
    <3>3. CASE e = c /\ f = d /\ n = reply[c]
      <4>1. d \notin todo'[c]
        BY <3>1
      <4> QED BY <2>1, <3>1, <3>3, <4>1
    <3> QED BY <2>3, <2>4, <3>2, <3>3
  <2>5. \A m \in chat' : ChatFor(m)'
    <3>1. /\ chat' = chat \cup {[to |-> d, from |-> c, n |-> reply[c]]}
          /\ UNCHANGED <<out, wire>>
      BY <1>9 DEF SayTo
    <3>2. \A m : ChatFor(m)' <=> ChatFor(m)
      BY ONLY <3>1
    <3>3. \A m \in chat : ChatFor(m)
      BY ONLY SpeechInv
    <3>4. ChatFor([to |-> d, from |-> c, n |-> reply[c]])
      <4>1. reply[c] # 0
        BY ONLY <2>1
      <4> QED BY ONLY <2>2, <4>1 DEF Spoken
    <3> HIDE DEF ChatFor
    <3> QED BY ONLY <3>1, <3>2, <3>3, <3>4
  <2>6. \A e, f \in Conn, n \in 1..MaxSent : SpokenFor(e, f, n)'
    BY <2>4
  <2> QED BY <1>9, <2>5, <2>6 DEF SayTo
<1>10. ASSUME NEW c \in Conn, ReceiverReads(c) PROVE SpeechInv'
  <2>1. \A e, f \in Conn, n \in 1..MaxSent : Spoken(e, f, n)' <=> Spoken(e, f, n)
    BY <1>10 DEF ReceiverReads, Spoken
  <2>2. \A e, f \in Conn, n \in 1..MaxSent : SpokenFor(e, f, n)'
    <3>1. \A e, f \in Conn, n \in 1..MaxSent : SpokenFor(e, f, n)
      BY ONLY SpeechInv
    <3>2. /\ receiver' = [receiver EXCEPT ![c] = "offer"] /\ sent' = [sent EXCEPT ![c] = @ + 1]
          /\ UNCHANGED <<main, reply, todo, connections>>
      BY <1>10 DEF ReceiverReads
    <3>3. receiver \in [Conn -> {"off", "read", "offer", "quit"}] /\ sent \in [Conn -> 0..MaxSent]
          /\ MaxSent \in Nat
      OBVIOUS
    <3> QED BY ONLY <2>1, <3>1, <3>2, <3>3
  <2> QED BY <1>10, <2>2 DEF ReceiverReads
<1>11. ASSUME NEW c \in Conn, TakeAppear(c) PROVE SpeechInv'
  BY <1>11, SMTT(20) DEF TakeAppear, Spoken, Speech, Takes, Appear
<1>12. ASSUME NEW c \in Conn, TakeReply(c) PROVE SpeechInv'
  BY <1>12, SMTT(20) DEF TakeReply, Spoken, Speech, Takes, Answer
<1>13. ASSUME NEW c \in Conn, TakeChat(c) PROVE SpeechInv'
  <2>1. PICK m \in chat : /\ m.to = c
                         /\ Takes(c, Speech(m.from, m.n))
                         /\ chat' = chat \ {m}
    BY <1>13 DEF TakeChat
  <2>2. \A k \in chat' : k.to = c => Speech(k.from, k.n) # Speech(m.from, m.n)
    <3> SUFFICES ASSUME NEW k \in chat', k.to = c, Speech(k.from, k.n) = Speech(m.from, m.n)
                 PROVE  FALSE
      OBVIOUS
    <3>1. k \in ChatSend /\ m \in ChatSend /\ k # m
      BY <2>1
    <3>2. k.from = m.from /\ k.n = m.n
      BY DEF Speech
    <3>3. k = [to |-> k.to, from |-> k.from, n |-> k.n]
      BY <3>1 DEF ChatSend
    <3>4. m = [to |-> m.to, from |-> m.from, n |-> m.n]
      BY <3>1 DEF ChatSend
    <3> QED BY <2>1, <3>1, <3>2, <3>3, <3>4
  <2>3. \A e, f \in Conn, n \in 1..MaxSent : Spoken(e, f, n)' => Spoken(e, f, n)
    <3> SUFFICES ASSUME NEW e \in Conn, NEW f \in Conn, NEW n \in 1..MaxSent,
                        Spoken(e, f, n)'
                 PROVE  Spoken(e, f, n)
      OBVIOUS
    <3>1. m = [to |-> m.to, from |-> m.from, n |-> m.n]
      BY DEF ChatSend
    <3>2. CASE f = c /\ Speech(e, n) = Speech(m.from, m.n)
      <4>1. e = m.from /\ n = m.n
        BY <3>2 DEF Speech
      <4> QED BY <2>1, <3>1, <3>2, <4>1 DEF Spoken
    <3>3. CASE ~(f = c /\ Speech(e, n) = Speech(m.from, m.n))
      BY <1>13, <2>1, <3>3 DEF TakeChat, Takes, Spoken
    <3> QED BY <3>2, <3>3
  <2>4. \A e, f \in Conn, n \in 1..MaxSent : SpokenFor(e, f, n)'
    BY <1>13, <2>3 DEF TakeChat
  <2>5. \A k \in chat' : ChatFor(k)'
    BY <1>13, <2>1, <2>2 DEF TakeChat, Takes, ChatSend
  <2>6. \A d \in Conn : OutFor(d)'
    BY <1>13, <2>1 DEF TakeChat, Takes, Speech
  <2> QED BY <2>4, <2>5, <2>6
<1>14. ASSUME NEW c \in Conn, SenderWrites(c) PROVE SpeechInv'
  <2>1. out[c] \in WireMsg /\ wire[c] \in Seq(WireMsg)
    BY <1>14 DEF SenderWrites
  <2>2. Stream!Messages(Append(wire[c], out[c])) = Stream!Messages(wire[c]) \cup {out[c]}
    BY <2>1, MessagesOfAppend
  <2>3. ASSUME NEW e \in Conn, NEW d \in Conn, NEW n
        PROVE  Speech(e, n) \in Stream!Messages(wire'[d]) \cup {out'[d]}
                 <=> Speech(e, n) \in Stream!Messages(wire[d]) \cup {out[d]}
    BY <1>14, <2>2 DEF SenderWrites, Speech, NoOut
  <2>4. ASSUME NEW e \in Conn, NEW d \in Conn, NEW n \in 1..MaxSent
        PROVE  Spoken(e, d, n)' <=> Spoken(e, d, n)
    BY <1>14, <2>3 DEF SenderWrites, Spoken
  <2>5. \A e, d \in Conn, n \in 1..MaxSent : SpokenFor(e, d, n)'
    BY <1>14, <2>4 DEF SenderWrites
  <2>6. \A m \in chat' : ChatFor(m)'
    <3>1. chat' = chat
      BY <1>14 DEF SenderWrites
    <3>2. \A m \in chat : m.from \in Conn /\ m.to \in Conn
      BY ONLY TypeOK DEF ChatSend
    <3>3. \A m \in chat : ChatFor(m)
      BY ONLY SpeechInv
    <3> QED BY ONLY <2>3, <3>1, <3>2, <3>3
  <2>7. \A d \in Conn : OutFor(d)'
    <3>1. \A d \in Conn : (out'[d] = out[d] /\ wire'[d] = wire[d]) \/ out'[d] = NoOut
      BY <1>14 DEF SenderWrites
    <3>2. \A d \in Conn : OutFor(d)
      BY ONLY SpeechInv
    <3> QED BY ONLY <3>1, <3>2 DEF NoOut
  <2> QED BY <2>5, <2>6, <2>7
<1>15. ASSUME NEW c \in Conn, SenderQuits(c) PROVE SpeechInv'
  BY <1>15 DEF SenderQuits, Spoken, Speech, NoOut
<1> QED
  BY <1>1, <1>2, <1>3, <1>4, <1>5, <1>6, <1>7, <1>8, <1>9, <1>10, <1>11, <1>12, <1>13, <1>14, <1>15
  DEF Next, Peer, Main, Sender, Receiver, Aside

\* Whatever the interleaving of main loops, senders, receivers and chat
\* goroutines: the appearance goes first, answers go in order, and no speech
\* is on its way to a hearer twice.
THEOREM StreamInvariant == Spec => []StreamInv
<1>1. Init => AppearInv /\ OrderInv /\ SpeechInv
  <2> SUFFICES ASSUME Init PROVE AppearInv /\ OrderInv /\ SpeechInv
    OBVIOUS
  <2>1. \A c \in Conn : Stream!Messages(wire[c]) = {}
    BY DEF Init, Stream!Messages
  <2>2. AppearInv
    BY DEF Init, AppearInv, AppearFor, NoOut
  <2>3. OrderInv
    BY <2>1 DEF Init, OrderInv, OrderFor, NoOut
  <2>4. SpeechInv
    BY <2>1 DEF Init, SpeechInv, SpokenFor, Spoken, ChatFor, OutFor, Speech, NoOut
  <2> QED BY <2>2, <2>3, <2>4
<1>2. TypeOK /\ AppearInv /\ OrderInv /\ SpeechInv /\ [Next]_vars
        => AppearInv' /\ OrderInv' /\ SpeechInv'
  BY AppearStep, OrderStep, SpeechStep
<1>3. QED
  BY <1>1, <1>2, TypeCorrect, PTL DEF Spec, StreamInv

\* The stream of every client is one ClientStream allows: Gameworld
\* implements it under wire as its stream.
THEOREM StreamImplemented == Spec => StreamSpec
<1>1. Init => Stream!Init
  BY DEF Init, Stream!Init
<1>2. StreamInv /\ [Next]_vars => [Stream!Next]_wire
  <2> SUFFICES ASSUME StreamInv, [Next]_vars, wire' # wire PROVE Stream!Next
    OBVIOUS
  <2> USE QuotaAssumption DEF StreamInv, TypeOK
  <2>1. PICK c \in Conn : ServeLameDuck(c) \/ SenderWrites(c)
    BY DEF Next, Peer, Main, Sender, Receiver, vars, loopVars, senderVars, recvVars, peerVars,
           sharedVars, EndLameDuck, Accept, Disconnect, BadHandshake, EnterGame, AppearFails,
           StartReceiver, Register, Leave, Request, Turn, Ignore, Say, SayTo, SayDone,
           RemoveCreature, CloseConn, ReceiverReads, ReceiverQuits, TakeAppear, TakeReply,
           TakeChat, Takes, SenderQuits, MapRace
  <2>2. CASE ServeLameDuck(c)
    <3>1. wire[c] = <<>>
      BY <2>2 DEF ServeLameDuck, AppearInv, AppearFor
    <3>2. wire' = [wire EXCEPT ![c] = Append(@, Reject(c))]
      BY <2>2 DEF ServeLameDuck
    <3> QED BY <3>1, <3>2 DEF Stream!Next, Stream!Refuse, Stream!SendTo, Reject
  <2>3. CASE SenderWrites(c)
    <3>1. /\ out[c] \in WireMsg
          /\ wire' = [wire EXCEPT ![c] = Append(@, out[c])]
      BY <2>3 DEF SenderWrites
    <3>2. CASE out[c].type = "appear"
      <4>1. wire[c] = <<>> /\ out[c] = Appear(c)
        BY <3>2 DEF AppearInv, AppearFor
      <4> QED BY <3>1, <4>1 DEF Stream!Next, Stream!Show, Stream!SendTo, Appear
    <3>3. CASE out[c].type = "reply"
      <4>1. Stream!Shown(wire[c])
        BY <3>3 DEF AppearInv, AppearFor
      <4>2. /\ out[c].from = c
            /\ out[c].n \in 1..MaxSent
            /\ \A m \in Stream!Messages(wire[c]) : m.type = "reply" => m.n < out[c].n
        BY <3>3 DEF OrderInv, OrderFor
      <4>3. out[c] = [type |-> "reply", from |-> c, n |-> out[c].n]
        BY <3>1, <3>3, <4>2 DEF WireMsg
      <4>4. Stream!AnswerTo(c, out[c].n)
        BY <3>1, <4>1, <4>2, <4>3 DEF Stream!AnswerTo, Stream!SendTo
      <4> QED BY <4>2, <4>4 DEF Stream!Next
    <3>4. CASE out[c].type = "say"
      <4>1. Stream!Shown(wire[c])
        BY <3>4 DEF AppearInv, AppearFor
      <4>2. out[c].n \in 1..MaxSent /\ out[c] \notin Stream!Messages(wire[c])
        <5>1. out[c].n \in 0..MaxSent
          BY <3>1 DEF WireMsg
        <5> QED BY <3>4, <5>1 DEF SpeechInv, OutFor
      <4>3. out[c] = [type |-> "say", from |-> out[c].from, n |-> out[c].n]
        BY <3>1, <3>4 DEF WireMsg
      <4>4. Stream!Hear(c, out[c].from, out[c].n)
        BY <3>1, <4>1, <4>2, <4>3 DEF Stream!Hear, Stream!SendTo
      <4> QED BY <3>1, <4>2, <4>4 DEF Stream!Next, WireMsg
    <3>5. out[c].type # "reject"
      BY DEF AppearInv, AppearFor
    <3> QED BY <3>1, <3>2, <3>3, <3>4, <3>5 DEF WireMsg
  <2> QED BY <2>1, <2>2, <2>3
<1>3. QED
  BY <1>1, <1>2, StreamInvariant, PTL DEF Spec, StreamSpec, Stream!Spec
\* A creature that outlives its main goroutine belongs to nobody who was sent
\* anything.
LEMMA GhostStep == TypeOK /\ AppearInv /\ GhostInv /\ [Next]_vars => GhostInv'
<1> SUFFICES ASSUME TypeOK, AppearInv, GhostInv, [Next]_vars PROVE GhostInv'
  OBVIOUS
<1> USE DEF TypeOK, AppearInv, AppearFor, GhostInv, GhostFor, Up, loopVars, senderVars,
        recvVars, peerVars, sharedVars
<1>1. CASE EndLameDuck
  BY <1>1 DEF EndLameDuck
<1>2. ASSUME NEW c \in Conn, Accept(c) PROVE GhostInv'
  BY <1>2 DEF Accept
<1>3. ASSUME NEW c \in Conn, Disconnect(c) PROVE GhostInv'
  BY <1>3 DEF Disconnect
<1>4. ASSUME NEW c \in Conn, BadHandshake(c) PROVE GhostInv'
  BY <1>4 DEF BadHandshake
<1>5. ASSUME NEW c \in Conn, ServeLameDuck(c) PROVE GhostInv'
  BY <1>5 DEF ServeLameDuck
<1>6. ASSUME NEW c \in Conn, EnterGame(c) PROVE GhostInv'
  BY <1>6 DEF EnterGame
<1>7. ASSUME NEW c \in Conn, AppearFails(c) PROVE GhostInv'
  BY <1>7, ZenonT(30) DEF AppearFails
<1>8. ASSUME NEW c \in Conn, StartReceiver(c) PROVE GhostInv'
  BY <1>8 DEF StartReceiver
<1>9. ASSUME NEW c \in Conn, Register(c) PROVE GhostInv'
  BY <1>9 DEF Register
<1>10. ASSUME NEW c \in Conn, Leave(c) PROVE GhostInv'
  BY <1>10 DEF Leave, Receives
<1>11. ASSUME NEW c \in Conn, Request(c) PROVE GhostInv'
  BY <1>11 DEF Request, Receives, Answers
<1>12. ASSUME NEW c \in Conn, Turn(c) PROVE GhostInv'
  BY <1>12 DEF Turn, Receives, Answers
<1>13. ASSUME NEW c \in Conn, Ignore(c) PROVE GhostInv'
  BY <1>13 DEF Ignore, Receives
<1>14. ASSUME NEW c \in Conn, Say(c) PROVE GhostInv'
  BY <1>14 DEF Say, Receives
<1>15. ASSUME NEW c \in Conn, NEW d \in Conn, SayTo(c, d) PROVE GhostInv'
  BY <1>15 DEF SayTo
<1>16. ASSUME NEW c \in Conn, SayDone(c) PROVE GhostInv'
  BY <1>16 DEF SayDone
<1>17. ASSUME NEW c \in Conn, RemoveCreature(c) PROVE GhostInv'
  BY <1>17 DEF RemoveCreature
<1>18. ASSUME NEW c \in Conn, CloseConn(c) PROVE GhostInv'
  BY <1>18 DEF CloseConn
<1>19. ASSUME NEW c \in Conn, ReceiverReads(c) PROVE GhostInv'
  BY <1>19 DEF ReceiverReads
<1>20. ASSUME NEW c \in Conn, ReceiverQuits(c) PROVE GhostInv'
  BY <1>20 DEF ReceiverQuits
<1>21. ASSUME NEW c \in Conn, TakeAppear(c) PROVE GhostInv'
  BY <1>21 DEF TakeAppear, Takes, Appear
<1>22. ASSUME NEW c \in Conn, TakeReply(c) PROVE GhostInv'
  BY <1>22 DEF TakeReply, Takes, Answer
<1>23. ASSUME NEW c \in Conn, TakeChat(c) PROVE GhostInv'
  BY <1>23 DEF TakeChat, Takes, Speech
<1>24. ASSUME NEW c \in Conn, SenderWrites(c) PROVE GhostInv'
  BY <1>24 DEF SenderWrites, NoOut
<1>25. ASSUME NEW c \in Conn, SenderQuits(c) PROVE GhostInv'
  BY <1>25 DEF SenderQuits, NoOut
<1>26. ASSUME NEW c \in Conn, NEW d \in Conn, MapRace(c, d) PROVE GhostInv'
  BY <1>26 DEF MapRace
<1>27. CASE UNCHANGED vars
  BY <1>27 DEF vars
<1> QED
  BY <1>1, <1>2, <1>3, <1>4, <1>5, <1>6, <1>7, <1>8, <1>9, <1>10, <1>11, <1>12, <1>13, <1>14, <1>15, <1>16, <1>17, <1>18, <1>19, <1>20, <1>21, <1>22, <1>23, <1>24, <1>25, <1>26, <1>27
  DEF Next, Peer, Main, Sender, Receiver

\* No creature of a player who was shown the world outlives its main goroutine.
THEOREM NoGhost == Spec => []NoGhostOfAPlayer
<1>1. Init => GhostInv
  BY DEF Init, GhostInv, GhostFor
<1>2. StreamInv /\ GhostInv /\ [Next]_vars => GhostInv'
  BY GhostStep DEF StreamInv
<1>3. GhostInv => NoGhostOfAPlayer
  BY DEF GhostInv, GhostFor, NoGhostOfAPlayer
<1>4. QED
  BY <1>1, <1>2, <1>3, StreamInvariant, PTL DEF Spec

\* From when it enters the game until its creature is removed, a connection has
\* one, and from its first turn in the main loop it is among the hearers.
PresentFor(c) ==
  /\ main[c] \in {"appear", "start", "register", "loop", "say", "reply", "remove"} => c \in creatures
  /\ main[c] \in {"loop", "say", "reply", "remove"} => c \in connections

PresentInv == \A c \in Conn : PresentFor(c)

LEMMA PresentStep == TypeOK /\ PresentInv /\ [Next]_vars => PresentInv'
<1> SUFFICES ASSUME TypeOK, PresentInv, [Next]_vars, NEW e \in Conn PROVE PresentFor(e)'
  BY DEF PresentInv
<1>0. PresentFor(e)
  BY DEF PresentInv
<1> USE <1>0 DEF PresentFor, TypeOK, Up, loopVars, senderVars, recvVars, peerVars, sharedVars
<1>1. CASE EndLameDuck
  BY <1>1 DEF EndLameDuck
<1>2. ASSUME NEW c \in Conn, Peer(c) PROVE PresentFor(e)'
  BY <1>2 DEF Peer, Accept, Disconnect
<1>3. ASSUME NEW c \in Conn,
             BadHandshake(c) \/ ServeLameDuck(c) \/ EnterGame(c) \/ AppearFails(c)
      PROVE  PresentFor(e)'
  BY <1>3 DEF BadHandshake, ServeLameDuck, EnterGame, AppearFails
<1>4. ASSUME NEW c \in Conn, StartReceiver(c) \/ Register(c) PROVE PresentFor(e)'
  BY <1>4 DEF StartReceiver, Register
<1>5. ASSUME NEW c \in Conn, Leave(c) \/ Ignore(c) PROVE PresentFor(e)'
  BY <1>5 DEF Leave, Ignore, Receives
<1>6. ASSUME NEW c \in Conn, Request(c) \/ Turn(c) PROVE PresentFor(e)'
  BY <1>6 DEF Request, Turn, Receives, Answers
<1>7. ASSUME NEW c \in Conn, Say(c) \/ SayDone(c) PROVE PresentFor(e)'
  BY <1>7 DEF Say, SayDone, Receives
<1>8. ASSUME NEW c \in Conn, NEW d \in Conn, SayTo(c, d) PROVE PresentFor(e)'
  BY <1>8 DEF SayTo
<1>9. ASSUME NEW c \in Conn, RemoveCreature(c) \/ CloseConn(c) PROVE PresentFor(e)'
  BY <1>9 DEF RemoveCreature, CloseConn
<1>10. ASSUME NEW c \in Conn, Sender(c) PROVE PresentFor(e)'
  BY <1>10 DEF Sender, TakeAppear, TakeReply, TakeChat, SenderWrites, SenderQuits, Takes
<1>11. ASSUME NEW c \in Conn, Receiver(c) PROVE PresentFor(e)'
  BY <1>11 DEF Receiver, ReceiverReads, ReceiverQuits
<1>12. ASSUME NEW c \in Conn, NEW d \in Conn, MapRace(c, d) PROVE PresentFor(e)'
  BY <1>12 DEF MapRace
<1>13. CASE UNCHANGED vars
  BY <1>13 DEF vars
<1> HIDE DEF PresentFor, TypeOK, Up, loopVars, senderVars, recvVars, peerVars, sharedVars
<1> QED
  BY <1>1, <1>2, <1>3, <1>4, <1>5, <1>6, <1>7, <1>8, <1>9, <1>10, <1>11, <1>12, <1>13
  DEF Next, Main

\* Nothing wakes a main loop whose receiver has returned.
LEMMA OrphanKept ==
  ASSUME TypeOK, [Next]_vars, NEW e \in Conn, Orphan(e)
  PROVE  Orphan(e)'
<1> USE DEF Orphan, TypeOK, Up, loopVars, senderVars, recvVars, peerVars, sharedVars
<1>1. CASE EndLameDuck \/ UNCHANGED vars
  BY <1>1 DEF EndLameDuck, vars
<1>2. ASSUME NEW c \in Conn, Peer(c) PROVE Orphan(e)'
  BY <1>2 DEF Peer, Accept, Disconnect
<1>3. ASSUME NEW c \in Conn,
             BadHandshake(c) \/ ServeLameDuck(c) \/ EnterGame(c) \/ AppearFails(c)
      PROVE  Orphan(e)'
  BY <1>3 DEF BadHandshake, ServeLameDuck, EnterGame, AppearFails
<1>4. ASSUME NEW c \in Conn, StartReceiver(c) \/ Register(c) PROVE Orphan(e)'
  BY <1>4 DEF StartReceiver, Register
<1>5. ASSUME NEW c \in Conn, Leave(c) \/ Request(c) \/ Turn(c) \/ Ignore(c) \/ Say(c)
      PROVE  Orphan(e)'
  <2>1. receiver[c] = "offer" /\ receiver' = [receiver EXCEPT ![c] = "read"]
    BY <1>5 DEF Leave, Request, Turn, Ignore, Say, Receives
  <2>2. c # e
    BY <2>1
  <2>3. main'[e] = main[e]
    BY <1>5, <2>2 DEF Leave, Request, Turn, Ignore, Say, Answers
  <2> QED BY <2>1, <2>2, <2>3
<1>6. ASSUME NEW c \in Conn, SayDone(c) \/ \E d \in Conn : SayTo(c, d) PROVE Orphan(e)'
  BY <1>6 DEF SayDone, SayTo
<1>7. ASSUME NEW c \in Conn, RemoveCreature(c) \/ CloseConn(c) PROVE Orphan(e)'
  BY <1>7 DEF RemoveCreature, CloseConn
<1>8. ASSUME NEW c \in Conn, Sender(c) PROVE Orphan(e)'
  BY <1>8 DEF Sender, TakeAppear, TakeReply, TakeChat, SenderWrites, SenderQuits, Takes
<1>9. ASSUME NEW c \in Conn, Receiver(c) PROVE Orphan(e)'
  BY <1>9 DEF Receiver, ReceiverReads, ReceiverQuits
<1>10. ASSUME NEW c \in Conn, NEW d \in Conn, MapRace(c, d) PROVE Orphan(e)'
  BY <1>10 DEF MapRace
<1> HIDE DEF Orphan, TypeOK, Up, loopVars, senderVars, recvVars, peerVars, sharedVars
<1> QED
  BY <1>1, <1>2, <1>3, <1>4, <1>5, <1>6, <1>7, <1>8, <1>9, <1>10 DEF Next, Main

\* Nobody comes for the player of a client that has gone: whatever the other
\* players do, its main loop waits, its creature stays and it is among the hearers.
THEOREM OrphansForGood == Spec => OrphanStays
<1>1. Init => PresentInv
  BY DEF Init, PresentInv, PresentFor
<1>2. TypeOK /\ PresentInv /\ PresentInv' /\ [Next]_vars
        => [\A c \in Conn :
              Orphan(c) => Orphan(c)' /\ c \in creatures' /\ c \in connections']_vars
  BY OrphanKept DEF Orphan, PresentInv, PresentFor
<1> QED BY <1>1, <1>2, PresentStep, TypeCorrect, PTL DEF Spec, OrphanStays
=============================================================================
