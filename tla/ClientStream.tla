----------------------------- MODULE ClientStream -----------------------------
(***************************************************************************)
(* What a client of the game world may be sent, whatever the goroutines of *)
(* the server do: either one rejection and nothing else, or the initial    *)
(* appearance first, then answers to its own requests in the order it made *)
(* them and other players' (and its own) speech, no utterance twice.       *)
(*                                                                         *)
(* The promise of serveGame (gameworld/gameworld.go:321-464), of           *)
(* networkSender (573-600) and of initialAppear (606-653), which "is sent  *)
(* when the client first connects to the server".                          *)
(***************************************************************************)
EXTENDS Naturals, Sequences

CONSTANTS Conn, MaxSent

VARIABLE stream   \* for each connection, the messages written to it

Messages(s) == {s[i] : i \in 1..Len(s)}
SendTo(c, m) == stream' = [stream EXCEPT ![c] = Append(@, m)]

\* The client has been shown the world.
Shown(s) == Len(s) > 0 /\ s[1].type = "appear"

Init == stream = [c \in Conn |-> <<>>]

Refuse(c) ==
  /\ stream[c] = <<>>
  /\ SendTo(c, [type |-> "reject", from |-> c, n |-> 0])

Show(c) ==
  /\ stream[c] = <<>>
  /\ SendTo(c, [type |-> "appear", from |-> c, n |-> 0])

AnswerTo(c, n) ==
  /\ Shown(stream[c])
  /\ \A m \in Messages(stream[c]) : m.type = "reply" => m.n < n
  /\ SendTo(c, [type |-> "reply", from |-> c, n |-> n])

Hear(c, d, n) ==
  LET speech == [type |-> "say", from |-> d, n |-> n]
  IN  /\ Shown(stream[c])
      /\ speech \notin Messages(stream[c])
      /\ SendTo(c, speech)

Next ==
  \E c \in Conn :
    \/ Refuse(c) \/ Show(c)
    \/ \E n \in 1..MaxSent : AnswerTo(c, n)
    \/ \E d \in Conn, n \in 1..MaxSent : Hear(c, d, n)

Spec == Init /\ [][Next]_stream
=============================================================================
