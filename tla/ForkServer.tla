----------------------------- MODULE ForkServer -----------------------------
(***************************************************************************)
(* The forking TCP servers 26-tcp_server.c, 33-tcp_server_io.c and         *)
(* 34-tcp_readv_server.c with their clients 27, 32 and 35.  A server       *)
(* accepts a connection, forks, serves it in the child and closes its own  *)
(* copy of the descriptor.  No child exits when its client is done: it     *)
(* returns into the accept loop it inherited.                              *)
(*                                                                         *)
(* Payload is a number of bytes, and so is a reply.  TCP may   *)
(* deliver a message in pieces, and a descriptor shared by several         *)
(* processes is closed when the last of them closes it.                    *)
(***************************************************************************)
EXTENDS Integers, Sequences, FiniteSets

\* Where the clients differ: 32 stops after one answer.
TcpClient == [loops |-> TRUE]
TcpClientIo == [loops |-> FALSE]
TcpReadvClient == [loops |-> TRUE]

\* Where the servers differ, each with its client.
TcpServer == [closesListener |-> TRUE, closesConn |-> FALSE,
              forksOnError |-> FALSE, client |-> TcpClient]
TcpServerIo == [closesListener |-> FALSE, closesConn |-> FALSE,
                forksOnError |-> FALSE, client |-> TcpClientIo]
TcpReadvServer == [closesListener |-> FALSE, closesConn |-> TRUE,
                   forksOnError |-> TRUE, client |-> TcpReadvClient]

CONSTANTS
  Programs,    \* the programs above that are looked at
  Conns,       \* clients, each with one connection
  NoConn,      \* sc = -1
  Backlog,     \* BACKLOG, 2 in the code
  BufLen,      \* bytes a read takes at most
  MaxProcs,    \* bound: processes that can exist; fork fails beyond
  MaxMsgs,     \* bound: messages of one client
  MsgLens,     \* bound: the sizes of messages
  MaxErrors,   \* bound: accept and fork calls that fail
  MaxKills     \* bound: children killed by a signal

ASSUME ServerAssumption ==
  /\ Programs \subseteq {TcpServer, TcpServerIo, TcpReadvServer}
  /\ NoConn \notin Conns /\ IsFiniteSet(Conns)
  /\ {BufLen, MaxProcs} \cup MsgLens \subseteq Nat \ {0}
  /\ {Backlog, MaxMsgs, MaxErrors, MaxKills} \subseteq Nat

Procs == 1 .. MaxProcs   \* 1 is the process the user started

VARIABLES
  prog,                    \* the program, one of Programs
  pc, lis, fds, sc, size,  \* per process: control, listener open, open connection
                           \* descriptors, the variables sc and size
  backlog,                 \* connections not yet accepted
  link,                    \* what the server's socket knows of its client
  inq, out,                \* bytes not yet read; number of replies not yet received
  cli, msgs,               \* per client: control, messages sent
  asked, replied,          \* history: bytes sent, bytes that replies reported
  errors, kills

procVars == <<prog, pc, lis, fds, sc, size>>
netVars == <<backlog, link, inq, out>>
cliVars == <<cli, msgs, asked, replied>>
vars == <<procVars, netVars, cliVars, errors, kills>>

Init ==
  /\ prog \in Programs
  /\ pc = [p \in Procs |-> IF p = 1 THEN "accept" ELSE "unborn"]
  /\ lis = [p \in Procs |-> p = 1]
  /\ fds = [p \in Procs |-> {}]
  /\ sc = [p \in Procs |-> NoConn]
  /\ size = [p \in Procs |-> 0]
  /\ backlog = <<>>
  /\ link = [c \in Conns |-> "up"]
  /\ inq = [c \in Conns |-> 0]
  /\ out = [c \in Conns |-> 0]
  /\ cli = [c \in Conns |-> "new"]
  /\ msgs = [c \in Conns |-> 0]
  /\ asked = [c \in Conns |-> 0] /\ replied = [c \in Conns |-> 0]
  /\ errors = 0 /\ kills = 0

Pending(c) == \E i \in DOMAIN backlog : backlog[i] = c
Holders(c) == {p \in Procs : c \in fds[p]}
ClosedByServer(c) == cli[c] # "new" /\ ~Pending(c) /\ Holders(c) = {}

-----------------------------------------------------------------------------
(* A server process p. *)

Accept(p) ==
  /\ pc[p] = "accept" /\ lis[p] /\ backlog # <<>>
  /\ pc' = [pc EXCEPT ![p] = "fork"]
  /\ sc' = [sc EXCEPT ![p] = Head(backlog)]
  /\ fds' = [fds EXCEPT ![p] = @ \cup {Head(backlog)}]
  /\ backlog' = Tail(backlog)
  /\ UNCHANGED <<prog, lis, size, link, inq, out, cliVars, errors, kills>>

\* A server whose listener is closed fails for ever and changes nothing.  34
\* reports the error and forks all the same.
AcceptFail(p) ==
  /\ pc[p] = "accept" /\ lis[p]
  /\ errors < MaxErrors /\ errors' = errors + 1
  /\ sc' = [sc EXCEPT ![p] = NoConn]
  /\ pc' = [pc EXCEPT ![p] = IF prog.forksOnError THEN "fork" ELSE "accept"]
  /\ UNCHANGED <<prog, lis, fds, size, netVars, cliVars, kills>>

\* What the process that called fork does next.
ParentServes == "read"
ParentCloses == "parent"

\* The child has every descriptor of its parent.
Fork(p) ==
  /\ pc[p] = "fork"
  /\ \E q \in Procs :
       /\ pc[q] = "unborn" /\ \A r \in Procs : r < q => pc[r] # "unborn"
       /\ pc' = [pc EXCEPT ![p] = ParentCloses, ![q] = "child"]
       /\ lis' = [lis EXCEPT ![q] = lis[p]]
       /\ fds' = [fds EXCEPT ![q] = fds[p]]
       /\ sc' = [sc EXCEPT ![q] = sc[p]]
  /\ UNCHANGED <<prog, size, netVars, cliVars, errors, kills>>

\* fork's -1 is not 0, so the caller takes the parent's branch.
ForkFail(p) ==
  /\ pc[p] = "fork"
  /\ \/ errors < MaxErrors /\ errors' = errors + 1
     \/ (\A q \in Procs : pc[q] # "unborn") /\ UNCHANGED errors
  /\ pc' = [pc EXCEPT ![p] = "parent"]
  /\ UNCHANGED <<prog, lis, fds, sc, size, netVars, cliVars, kills>>

\* close(sc) in the parent.
ConnKept(p) == fds[p]
ConnClosed(p) == fds[p] \ {sc[p]}

CloseConn(p) ==
  /\ pc[p] = "parent"
  /\ pc' = [pc EXCEPT ![p] = "accept"]
  /\ fds' = [fds EXCEPT ![p] = ConnClosed(p)]
  /\ UNCHANGED <<prog, lis, sc, size, netVars, cliVars, errors, kills>>

\* The child closes the listener in 26 only.
StartChild(p) ==
  /\ pc[p] = "child"
  /\ pc' = [pc EXCEPT ![p] = "read"]
  /\ lis' = [lis EXCEPT ![p] = @ /\ ~prog.closesListener]
  /\ UNCHANGED <<prog, fds, sc, size, netVars, cliVars, errors, kills>>

\* The descriptors a child keeps when process_conn_server returns.
AllKept(p) == fds[p]
FdsAfterService(p) == IF prog.closesConn THEN fds[p] \ {sc[p]} ELSE fds[p]

\* The size that is reported for n bytes read.
OneTooMany(n) == n + 1
Reported(n) == n

\* read, recv or readv: the bytes that have arrived, then the end of the stream
\* (0) or, once, an error (-1).
ReadData(p) ==
  /\ pc[p] = "read" /\ sc[p] # NoConn
  /\ \E n \in 1 .. BufLen :
       /\ n <= inq[sc[p]]
       /\ inq' = [inq EXCEPT ![sc[p]] = @ - n]
       /\ size' = [size EXCEPT ![p] = Reported(n)]
  /\ pc' = [pc EXCEPT ![p] = "write"]
  /\ UNCHANGED <<prog, lis, fds, sc, backlog, link, out, cliVars, errors, kills>>

ReadEnd(p) ==
  /\ pc[p] = "read" /\ sc[p] # NoConn
  /\ inq[sc[p]] = 0 /\ link[sc[p]] \in {"fin", "half", "broken"}
  /\ size' = [size EXCEPT ![p] = 0]
  /\ pc' = [pc EXCEPT ![p] = "accept"]
  /\ fds' = [fds EXCEPT ![p] = FdsAfterService(p)]
  /\ UNCHANGED <<prog, lis, sc, netVars, cliVars, errors, kills>>

\* -1 is not 0: the error is answered like a message.
ReadError(p) ==
  /\ pc[p] = "read"
  /\ \/ sc[p] = NoConn /\ UNCHANGED link
     \/ /\ sc[p] # NoConn /\ inq[sc[p]] = 0 /\ link[sc[p]] = "rst"
        /\ link' = [link EXCEPT ![sc[p]] = "broken"]
  /\ size' = [size EXCEPT ![p] = -1]
  /\ pc' = [pc EXCEPT ![p] = "write"]
  /\ UNCHANGED <<prog, lis, fds, sc, backlog, inq, out, cliVars, errors, kills>>

\* write, send or writev to a live connection; the result is ignored.
Reply(p) ==
  /\ pc[p] = "write" /\ sc[p] # NoConn /\ link[sc[p]] = "up"
  /\ out' = [out EXCEPT ![sc[p]] = @ + 1]
  /\ replied' = [replied EXCEPT ![sc[p]] = @ + size[p]]
  /\ pc' = [pc EXCEPT ![p] = "read"]
  /\ UNCHANGED <<prog, lis, fds, sc, size, backlog, link, inq, cli, msgs, asked,
                 errors, kills>>

\* The reply is lost.  A first write after the client's FIN provokes a reset;
\* a pending reset is reported once.
ReplyLost(p) ==
  /\ pc[p] = "write"
  /\ \/ sc[p] = NoConn /\ UNCHANGED link
     \/ /\ sc[p] # NoConn /\ link[sc[p]] \in {"fin", "half", "rst"}
        /\ link' = [link EXCEPT ![sc[p]] = IF @ = "rst" THEN "broken" ELSE "half"]
  /\ pc' = [pc EXCEPT ![p] = "read"]
  /\ UNCHANGED <<prog, lis, fds, sc, size, backlog, inq, out, cliVars, errors, kills>>

\* A process that ends closes all its descriptors.
End(p) ==
  /\ pc' = [pc EXCEPT ![p] = "dead"]
  /\ lis' = [lis EXCEPT ![p] = FALSE]
  /\ fds' = [fds EXCEPT ![p] = {}]
  /\ UNCHANGED <<prog, sc, size, netVars, cliVars>>

\* SIGPIPE: the default action in 26, exit in the handlers of 33 and 34.
BrokenPipe(p) ==
  /\ pc[p] = "write" /\ sc[p] # NoConn /\ link[sc[p]] \in {"half", "broken"}
  /\ End(p)
  /\ UNCHANGED <<errors, kills>>

Kill(p) ==
  /\ p # 1 /\ pc[p] \notin {"unborn", "dead"}
  /\ kills < MaxKills /\ kills' = kills + 1
  /\ End(p)
  /\ UNCHANGED errors

Process(p) ==
  \/ Accept(p) \/ Fork(p) \/ ForkFail(p) \/ CloseConn(p) \/ StartChild(p)
  \/ ReadData(p) \/ ReadEnd(p) \/ ReadError(p)
  \/ Reply(p) \/ ReplyLost(p) \/ BrokenPipe(p)

-----------------------------------------------------------------------------
(* A client c. *)

Connect(c) ==
  /\ cli[c] = "new" /\ Len(backlog) <= Backlog
  /\ cli' = [cli EXCEPT ![c] = "idle"]
  /\ backlog' = Append(backlog, c)
  /\ UNCHANGED <<procVars, link, inq, out, msgs, asked, replied, errors, kills>>

\* The client reads n bytes from its terminal, sends them and waits.
Send(c, n) ==
  /\ cli[c] = "idle" /\ msgs[c] < MaxMsgs
  /\ cli' = [cli EXCEPT ![c] = "wait"]
  /\ msgs' = [msgs EXCEPT ![c] = @ + 1]
  /\ asked' = [asked EXCEPT ![c] = @ + n]
  /\ inq' = IF ClosedByServer(c) THEN inq ELSE [inq EXCEPT ![c] = @ + n]
  /\ UNCHANGED <<procVars, backlog, link, out, replied, errors, kills>>

\* Closing a socket with unread data resets the connection.
Close(c, rest) ==
  /\ cli' = [cli EXCEPT ![c] = "gone"]
  /\ link' = [link EXCEPT ![c] = IF rest = 0 THEN "fin" ELSE "rst"]

\* The client reads the replies that have arrived, or learns that the server
\* has closed the connection.
Receive(c) ==
  /\ cli[c] = "wait"
  /\ \E n \in 0 .. out[c] :
       /\ n = 0 => out[c] = 0 /\ ClosedByServer(c)
       /\ out' = [out EXCEPT ![c] = @ - n]
       /\ IF prog.client.loops
          THEN cli' = [cli EXCEPT ![c] = "idle"] /\ UNCHANGED link
          ELSE Close(c, out[c] - n)
  /\ UNCHANGED <<procVars, backlog, inq, msgs, asked, replied, errors, kills>>

\* SIGINT, or SIGPIPE when the server is gone.
Leave(c) ==
  /\ cli[c] \in {"idle", "wait"}
  /\ Close(c, out[c])
  /\ UNCHANGED <<procVars, backlog, inq, out, msgs, asked, replied, errors, kills>>

-----------------------------------------------------------------------------

Next ==
  \/ \E p \in Procs : Process(p) \/ AcceptFail(p) \/ Kill(p)
  \/ \E c \in Conns : Connect(c) \/ Receive(c) \/ Leave(c)
                      \/ (\E n \in MsgLens : Send(c, n))

\* The kernel runs every process, and delivers what a client waits for.
Fairness ==
  /\ \A p \in Procs : WF_vars(Process(p))
  /\ \A c \in Conns : WF_vars(Receive(c))

Spec == Init /\ [][Next]_vars
FairSpec == Spec /\ Fairness
=============================================================================
