------------------------------ MODULE NonBlock ------------------------------
(***************************************************************************)
(* 38-nooblock_server.c with its clients, 39-noblock_client.c.  Only the   *)
(* listening socket does not block; an accepted one does.  s_c keeps its   *)
(* value when the connection is closed, and buffer keeps the bytes that    *)
(* the next recv does not overwrite.  A message, 1024 bytes however little *)
(* the user types, is three parts: the two of a command, which may arrive  *)
(* cut, and the rest.  HELLO is <<1, 2>>, SHUTDOWN <<3, 4>>.               *)
(***************************************************************************)
EXTENDS Integers, SequencesExt

CONSTANTS
  Clients,
  NoConn,     \* s_c = -1
  Backlog,    \* BACKLOG, 4 in the code
  Messages    \* what the users type

HELLO == <<1, 2>>
SHUTDOWN == <<3, 4>>
Command(m) == SubSeq(m, 1, 2)   \* strncmp looks at the start only

ASSUME NonBlockAssumption ==
  /\ NoConn \notin Clients /\ Backlog \in Nat
  /\ Messages \subseteq [1 .. 3 -> 0 .. 4]

VARIABLES
  s_c, open, buffer, spc,   \* the server; open: s_c is a descriptor it has
  pending,                  \* connections not yet accepted
  cpc, sent, inq, out,      \* per client: control, its message, bytes under way both ways
  cut                       \* history: a recv took part of a message

sVars == <<s_c, open, buffer, spc>>
vars == <<sVars, pending, cpc, sent, inq, out, cut>>

Init ==
  /\ s_c = NoConn /\ open = FALSE /\ buffer = <<0, 0, 0>> /\ spc = "accept"
  /\ pending = <<>>
  /\ cpc = [c \in Clients |-> "new"]
  /\ sent = [c \in Clients |-> <<>>]
  /\ inq = [c \in Clients |-> <<>>]
  /\ out = [c \in Clients |-> <<>>]
  /\ cut = FALSE

-----------------------------------------------------------------------------
(* The server. *)

Accept ==
  /\ spc = "accept" /\ pending # <<>>
  /\ s_c' = Head(pending) /\ open' = TRUE
  /\ pending' = Tail(pending)
  /\ spc' = "recv"
  /\ UNCHANGED <<buffer, cpc, sent, inq, out, cut>>

\* EAGAIN, a second's sleep and another accept.
AcceptNothing ==
  /\ spc = "accept" /\ pending = <<>>
  /\ UNCHANGED vars

\* The buffer, n parts overwritten.
Appended(n) == buffer \o SubSeq(inq[s_c], 1, n)
Overwritten(n) == SubSeq(inq[s_c], 1, n) \o SubSeq(buffer, n + 1, 3)

Recv ==
  /\ spc = "recv" /\ open /\ inq[s_c] # <<>>
  /\ \E n \in 1 .. Len(inq[s_c]) :
       /\ buffer' = Overwritten(n)
       /\ inq' = [inq EXCEPT ![s_c] = SubSeq(@, n + 1, Len(@))]
       /\ cut' = (cut \/ n < Len(inq[s_c]))
  /\ spc' = "check"
  /\ UNCHANGED <<s_c, open, pending, cpc, sent, out>>

\* The client has closed: 0, and buffer is what it was.
RecvEnd ==
  /\ spc = "recv" /\ open /\ inq[s_c] = <<>> /\ cpc[s_c] = "gone"
  /\ spc' = "check"
  /\ UNCHANGED <<s_c, open, buffer, pending, cpc, sent, inq, out, cut>>

\* The loop of recv on a closed descriptor: it fails for ever.
RecvClosed ==
  /\ spc = "recv" /\ ~open
  /\ UNCHANGED vars

\* s_c stays, so the server never accepts again.
Answer(reply) == [out EXCEPT ![s_c] = Append(@, reply)]

\* close(s_c).
StillOpen == TRUE
OpenAfterAnswer == FALSE

CheckHello ==
  /\ spc = "check" /\ Command(buffer) = HELLO
  /\ out' = Answer("OK") /\ open' = OpenAfterAnswer
  /\ spc' = "recv"
  /\ UNCHANGED <<s_c, buffer, pending, cpc, sent, inq, cut>>

CheckShutdown ==
  /\ spc = "check" /\ Command(buffer) = SHUTDOWN
  /\ out' = Answer("BYE") /\ open' = OpenAfterAnswer
  /\ spc' = "recv"
  /\ UNCHANGED <<s_c, buffer, pending, cpc, sent, inq, cut>>

CheckOther ==
  /\ spc = "check" /\ Command(buffer) \notin {HELLO, SHUTDOWN}
  /\ spc' = "recv"
  /\ UNCHANGED <<s_c, open, buffer, pending, cpc, sent, inq, out, cut>>

Server ==
  \/ Accept \/ AcceptNothing \/ Recv \/ RecvEnd \/ RecvClosed
  \/ CheckHello \/ CheckShutdown \/ CheckOther

-----------------------------------------------------------------------------
(* A client c. *)

Connect(c) ==
  /\ cpc[c] = "new" /\ Len(pending) <= Backlog
  /\ pending' = Append(pending, c)
  /\ cpc' = [cpc EXCEPT ![c] = "type"]
  /\ UNCHANGED <<sVars, sent, inq, out, cut>>

\* It goes on with the closed descriptor: reads the terminal, and its send and
\* recv fail.
ConnectFails(c) ==
  /\ cpc[c] = "new"
  /\ cpc' = [cpc EXCEPT ![c] = "closed"]
  /\ UNCHANGED <<sVars, pending, sent, inq, out, cut>>

Send(c, m) ==
  /\ cpc[c] = "type"
  /\ sent' = [sent EXCEPT ![c] = m] /\ inq' = [inq EXCEPT ![c] = m]
  /\ cpc' = [cpc EXCEPT ![c] = "wait"]
  /\ UNCHANGED <<sVars, pending, out, cut>>

\* The end of the terminal's input, a signal, or the end of a client that has no
\* connection.
Leave(c) ==
  /\ cpc[c] \in {"type", "wait", "closed"}
  /\ cpc' = [cpc EXCEPT ![c] = "gone"]
  /\ UNCHANGED <<sVars, pending, sent, inq, out, cut>>

Receive(c) ==
  /\ cpc[c] = "wait" /\ out[c] # <<>>
  /\ cpc' = [cpc EXCEPT ![c] = "gone"]
  /\ UNCHANGED <<sVars, pending, sent, inq, out, cut>>

Next ==
  \/ Server
  \/ \E c \in Clients :
       Connect(c) \/ ConnectFails(c) \/ Receive(c) \/ Leave(c) \/ (\E m \in Messages : Send(c, m))

Spec == Init /\ [][Next]_vars
\* The kernel runs the server, and delivers what a client waits for.
FairSpec == Spec /\ WF_vars(Server) /\ \A c \in Clients : WF_vars(Receive(c))

-----------------------------------------------------------------------------
(* Properties. *)

\* A client gets one answer at most: the command that stays in the buffer when
\* the connection ends answers nobody again.  If messages arrive whole it is the
\* answer to the command the client sent.
AnswersOnce ==
  \A c \in Clients :
    /\ Len(out[c]) <= 1
    /\ ~cut /\ out[c] = <<"OK">> => Command(sent[c]) = HELLO
    /\ ~cut /\ out[c] = <<"BYE">> => Command(sent[c]) = SHUTDOWN

\* A client that is served and sends a command is answered, if the command
\* arrives in one piece.
CommandAnswered ==
  \A c \in Clients :
    (s_c = c /\ cpc[c] = "wait" /\ Command(sent[c]) \in {HELLO, SHUTDOWN})
      ~> (out[c] # <<>> \/ cut)
=============================================================================
