-------------------------------- MODULE Logins ---------------------------------
(***************************************************************************)
(* What becomes of a connection to gotserv, from when it is accepted       *)
(* (cmd/gotserv/gotserv.go connection, on the login port and on the game   *)
(* port), through the handshake of login.Serve or gameworld.Serve, to the  *)
(* messages the server writes and what the other side makes of them.       *)
(*                                                                         *)
(* Each connection has a goroutine; all are in one process, which a panic  *)
(* in any of them ends.  The message a client begins with is a record of   *)
(* what its bytes announce; the messages of the server are on the          *)
(* connection byte by byte, and may be cut off anywhere.  A client reads   *)
(* with the same functions as the server.                                  *)
(***************************************************************************)
EXTENDS Message, SequencesExt

CONSTANTS
  Conns,        \* connections
  Hellos,       \* initial messages
  Silent,       \* a client that does not send one
  Keys,         \* XTEA keys of clients
  Greeting,     \* what the game port says first: 0x1F and five zeros
  LoginAnswer,  \* message of the day and list of characters, in one message
  LameDuckText, \* why nobody can play yet
  NoText,       \* the same message without the text
  Texts,        \* other messages of the game server
  MaxTexts      \* bound: how many of them a connection gets

\* An initial message, which may end early: its protocol, or None; how many
\* bytes follow that; whether those that RSA is to decrypt are below the
\* modulus; the lengths that account, password and character announce.
None == 0
Hello == [proto : 0..255, rest : Nat, rsa : BOOLEAN, strings : Seq(Nat)]
Ports == {"login", "game"}
Payload == Seq(0..Base - 1)

ASSUME HellosAssumption == Hellos \subseteq Hello /\ Silent \notin Hello
ASSUME PayloadAssumption ==
  /\ Greeting \in Payload /\ LoginAnswer \in Payload /\ LameDuckText \in Payload
  /\ NoText \in Payload
  /\ Texts \subseteq Payload
ASSUME TextsAssumption == MaxTexts \in Nat \ {0}

\* The answer to a login has the list after a text, and no other message of the
\* game server begins as one to whom it is told.
ASSUME DifferentAssumption ==
  /\ LoginAnswer \notin {LameDuckText, NoText}
  /\ Texts \cap {LoginAnswer, LameDuckText, NoText} = {}

VARIABLES
  process,  \* "up" or "down"
  ready,    \* the game port has its things and map, and no LameDuckText
  conn,     \* where the goroutine of each connection is
  port,     \* where it was accepted
  hello,    \* what its client begins with
  key,      \* the client's key
  wire,     \* what has been written and not been read
  cut,      \* the connection has been lost
  sent,     \* history: what has been written
  got       \* what the client has read, or "lost" at its end

vars == <<process, ready, conn, port, hello, key, wire, cut, sent, got>>
clientVars == <<process, ready, port, hello, key>>

At == {"none", "greet", "hello", "header", "strings", "answer", "reject", "play", "closed"}

Init ==
  /\ process = "up"
  /\ ready = FALSE
  /\ conn = [c \in Conns |-> "none"]
  /\ port \in [Conns -> Ports]
  /\ hello \in [Conns -> Hellos \cup {Silent}]
  /\ key \in [Conns -> Keys]
  /\ wire = [c \in Conns |-> <<>>]
  /\ cut = [c \in Conns |-> FALSE]
  /\ sent = [c \in Conns |-> <<>>]
  /\ got = [c \in Conns |-> <<>>]

Goes(c, from, to) ==
  /\ process = "up" /\ conn[c] = from
  /\ conn' = [conn EXCEPT ![c] = to]

\* Serve has returned, or connection has.
Closes(c, from) == Goes(c, from, "closed") /\ UNCHANGED <<wire, sent>>

\* io.Copy of a whole message; it may fail if the connection is lost.
Writes(c, m, cells) ==
  IF cut[c] THEN UNCHANGED <<wire, sent>>
  ELSE /\ wire' = [wire EXCEPT ![c] = @ \o cells]
       /\ sent' = [sent EXCEPT ![c] = Append(@, m)]

-----------------------------------------------------------------------------
(* The handshake.                                                          *)

\* games is done with the files, and the lame duck with its clients.
Ready ==
  /\ process = "up" /\ ~ ready
  /\ ready' = TRUE
  /\ UNCHANGED <<process, conn, port, hello, key, wire, cut, sent, got>>

\* logins and games accept.
Accept(c) ==
  /\ Goes(c, "none", IF port[c] = "game" THEN "greet" ELSE "hello")
  /\ UNCHANGED <<clientVars, wire, cut, sent, got>>

\* The game port speaks first, in a message that is not encrypted.
Greet(c) ==
  /\ Goes(c, "greet", IF cut[c] THEN "closed" ELSE "hello")
  /\ Writes(c, Greeting, PrependSize(Plain(Greeting)))
  /\ UNCHANGED <<clientVars, cut, got>>

\* ReadMessage, the checksum and the protocol.
ReadHello(c) ==
  /\ hello[c] # Silent
  /\ Goes(c, "hello", IF hello[c].proto \in {1, 10} THEN "header" ELSE "closed")
  /\ UNCHANGED <<clientVars, wire, cut, sent, got>>

\* Faulty: a silent client has all the time it wants.
NoHelloPatient(c) ==
  /\ hello[c] # Silent \/ cut[c]
  /\ Closes(c, "hello")
  /\ UNCHANGED <<clientVars, cut, got>>

\* There is no hello, or no time.
NoHello(c) ==
  /\ Closes(c, "hello")
  /\ UNCHANGED <<clientVars, cut, got>>

HeaderSize(proto) == IF proto = 1 THEN 16 ELSE 4   \* of the two connHeaders
RSASize == 128

\* RSADecryptRemainder wants what is left to be of the right size, and not above
\* the modulus.
Decryptable(h) == h.rest = HeaderSize(h.proto) + RSASize /\ h.rsa

\* The header of Serve, then the block with the keys.
ReadHeader(c) ==
  /\ Goes(c, "header", IF Decryptable(hello[c]) THEN "strings" ELSE "closed")
  /\ UNCHANGED <<clientVars, wire, cut, sent, got>>

\* What ReadTibiaString leaves of a number of bytes, or -1: a string that is
\* longer than its message is cut, and only a size that is not there is an error.
AfterString(left, length) ==
  IF left < 2 THEN -1 ELSE IF length > left - 2 THEN 0 ELSE left - 2 - length

\* Account and password; for the game, a byte before and a character between.
StringsRead(h) ==
  IF h.proto = 1 THEN FoldLeft(AfterString, RSASize - 17, SubSeq(h.strings, 1, 2)) >= 0
  ELSE FoldLeft(AfterString, RSASize - 17 - 1, h.strings) >= 0

\* Faulty: whoever does not play is answered as one who logs in.
ReadStringsAlways(c) ==
  LET h == hello[c]
      game == h.proto = 10 /\ StringsRead(h) /\ (port[c] = "game" => ready)
  IN  /\ Goes(c, "strings", IF ~ StringsRead(h) THEN "closed"
                            ELSE IF game THEN "play" ELSE "answer")
      /\ process' = IF game /\ port[c] = "login" THEN "down" ELSE process
      /\ UNCHANGED <<ready, port, hello, key, wire, cut, sent, got>>

\* The strings; then LoginServer answers, and GameworldServer turns away a
\* client if it has a LameDuckText.  The one of the login port has none, and no
\* map either: serveGame dereferences nil.
ReadStrings(c) ==
  LET h == hello[c]
      game == h.proto = 10 /\ StringsRead(h) /\ (port[c] = "game" => ready)
  IN  /\ Goes(c, "strings", IF ~ StringsRead(h) THEN "closed"
                            ELSE IF h.proto = 1 THEN "answer"
                            ELSE IF game THEN "play" ELSE "reject")
      /\ process' = IF game /\ port[c] = "login" THEN "down" ELSE process
      /\ UNCHANGED <<ready, port, hello, key, wire, cut, sent, got>>

-----------------------------------------------------------------------------
(* The messages.                                                           *)

\* LoginServer.Serve, to its end.
Answer(c) ==
  /\ Goes(c, "answer", "closed")
  /\ Writes(c, LoginAnswer, Finalize(Plain(LoginAnswer), key[c]))
  /\ UNCHANGED <<clientVars, cut, got>>

\* GameworldServer.Serve, of a lame duck.  The text is read again, and may have
\* been cleared meanwhile: it is empty then, or what it was, or the length of
\* one and the address of the other, which is a panic.
Reject(c) ==
  \/ /\ Goes(c, "reject", "closed")
     /\ \E t \in {LameDuckText} \cup (IF ready THEN {NoText} ELSE {}) :
          Writes(c, t, Finalize(Plain(t), key[c]))
     /\ UNCHANGED <<clientVars, cut, got>>
  \/ /\ process = "up" /\ conn[c] = "reject" /\ ready
     /\ process' = "down"
     /\ UNCHANGED <<ready, conn, port, hello, key, wire, cut, sent, got>>

\* networkSender; that it fails is told to nobody.
Send(c, t) ==
  /\ Goes(c, "play", "play")
  /\ Len(sent[c]) < 1 + MaxTexts
  /\ Writes(c, t, Finalize(Plain(t), key[c]))
  /\ UNCHANGED <<clientVars, cut, got>>

\* The player logs out.
Leave(c) ==
  /\ Closes(c, "play")
  /\ UNCHANGED <<clientVars, cut, got>>

\* The connection is lost, and with it the end of what was written.
Lose(c) ==
  /\ conn[c] # "none" /\ ~ cut[c]
  /\ cut' = [cut EXCEPT ![c] = TRUE]
  /\ \E n \in 0..Len(wire[c]) : wire' = [wire EXCEPT ![c] = SubSeq(@, 1, n)]
  /\ UNCHANGED <<clientVars, conn, sent, got>>

Over(c) == cut[c] \/ conn[c] = "closed" \/ process = "down"
Lost == <<[lost |-> TRUE]>>

\* ReadMessage and Decrypt of the client, which waits for all of a message while
\* more may come.  What it makes of a size that is none is not followed.
Read(c) ==
  LET s == wire[c]
      plain == port[c] = "game" /\ got[c] = <<>>
      m == IF plain THEN Opened(Unchecked(Body(s))) ELSE Decrypt(Body(s), key[c])
  IN  /\ HasSize(s) /\ (\A i \in DOMAIN got[c] : got[c][i] # Lost)
      /\ \/ /\ ~ Known(s)
            /\ got' = [got EXCEPT ![c] = Append(@, Lost)]
            /\ UNCHANGED wire
         \/ /\ Known(s) /\ (Len(s) >= 2 + Announced(s) \/ Over(c))
            /\ got' = [got EXCEPT ![c] = Append(@, m)]
            /\ wire' = [wire EXCEPT ![c] = After(s)]
      /\ UNCHANGED <<clientVars, conn, cut, sent>>

-----------------------------------------------------------------------------

Server(c) ==
  \/ Greet(c) \/ ReadHello(c) \/ NoHello(c) \/ ReadHeader(c) \/ ReadStrings(c)
  \/ Answer(c) \/ Reject(c)

Next ==
  \/ Ready
  \/ \E c \in Conns :
       \/ Accept(c) \/ Server(c) \/ Leave(c) \/ Lose(c) \/ Read(c)
       \/ \E t \in Texts : Send(c, t)

Spec == Init /\ [][Next]_vars
FairSpec == Spec /\ \A c \in Conns : WF_vars(Server(c)) /\ WF_vars(Read(c))

-----------------------------------------------------------------------------
(* Properties.                                                             *)

TypeOK ==
  /\ process \in {"up", "down"} /\ ready \in BOOLEAN
  /\ conn \in [Conns -> At]
  /\ port \in [Conns -> Ports]
  /\ hello \in [Conns -> Hellos \cup {Silent}]
  /\ key \in [Conns -> Keys]
  /\ cut \in [Conns -> BOOLEAN]
  /\ \A c \in Conns : \A i \in DOMAIN wire[c] :
       IsByte(wire[c][i]) => wire[c][i].byte \in 0..Base - 1
  /\ sent \in [Conns -> Seq(Payload)]
  /\ \A c \in Conns : Len(sent[c]) <= 1 + MaxTexts

\* What is read of a message whose end has not come: the beginning of what was
\* sent, with at most some bytes of any value in place of what came last.
Cut(m, t) ==
  \/ m \in {NoMessage, Garbage}
  \/ Len(m) <= Len(t) /\ \A i \in 1..Len(m) : m[i] \in {Plain(t)[i], Unknown}

\* As long as no message is too long for its size, everything is read as it was
\* written, in order and with the right key, but for a message at the end that
\* was cut off: what is made of it is no error to ReadMessage
\* (net/message.go:29-43, 203-239, 284-317).
ReadAsSent ==
  \A c \in Conns :
    (\A i \in 1..Len(sent[c]) : Fits(Plain(sent[c][i]))) =>
      /\ Len(got[c]) <= Len(sent[c])
      /\ \A i \in 1..Len(got[c]) :
           \/ got[c][i] = Plain(sent[c][i])
           \/ i = Len(got[c]) /\ cut[c] /\ wire[c] = <<>> /\ Cut(got[c][i], sent[c][i])

\* The types of all there is, and messages read as they were sent.
LoginsInv == TypeOK /\ ReadAsSent

\* Only those are answered who have sent a block for RSA and strings in it, and
\* each with what was asked for: nobody who is told of characters has asked to
\* play, and nobody plays who has asked for characters or was turned away
\* (gotserv.go:132-143, login.go:49-89, gameworld.go:225-316).
AnsweredAsAsked ==
  \A c \in Conns : \A i \in 1..Len(sent[c]) :
    LET h == hello[c]
    IN  sent[c][i] # Greeting =>
          /\ h # Silent /\ StringsRead(h)
          /\ h.rest = RSASize + (IF sent[c][i] = LoginAnswer THEN 16 ELSE 4)
          /\ (h.proto = 1) <=> (sent[c][i] = LoginAnswer)
          /\ sent[c][i] \in {LoginAnswer, LameDuckText, NoText} =>
               i = Len(sent[c]) /\ conn[c] = "closed"

\* Every connection that is accepted is closed again, by an answer or by its
\* deadline, unless its client plays or the process has stopped
\* (gotserv.go:107-110).
ConnectionsEnd ==
  \A c \in Conns :
    conn[c] # "none" ~> conn[c] \in {"play", "closed"} \/ process = "down"
=============================================================================
