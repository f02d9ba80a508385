------------------------------- MODULE UnixFd -------------------------------
(***************************************************************************)
(* 45-unix_fd_server.c and its clients, 46-unix_fd_client.c, on a local    *)
(* socket.  A server removes one path and binds another: UNIX_DOMAIN, cut  *)
(* to the 14 bytes of sun_path that bind is told of.  It serves the one    *)
(* connection it accepts and looks, after each read, at the first three    *)
(* bytes of a buffer that it never clears.  Several servers may be         *)
(* started, one after the other or at once.                                *)
(***************************************************************************)
EXTENDS Integers, SequencesExt

CONSTANTS
  Servers, Clients,   \* processes that the user starts
  Nobody,
  Backlog,            \* BACKLOG, 5 in the code
  ReadLen,            \* BUF_LEN, the bytes one read of the server takes: 1024 in the code
  Bytes,              \* what a text is made of
  Texts,              \* what can be typed at once, as sequences of bytes
  MaxLines            \* bound: texts typed to one client

ASSUME UnixFdAssumption ==
  /\ Nobody \notin Servers \cup Clients
  /\ {Backlog, MaxLines} \subseteq Nat /\ ReadLen \in Nat /\ ReadLen >= 3
  /\ "zero" \notin Bytes /\ Texts \subseteq Seq(Bytes) /\ <<>> \notin Texts

\* The bytes of the commands that are compared: three of "exit", four of "quit".
Exi == <<"e", "x", "i">>
Quit == <<"q", "u", "i", "t">>

Path == "/tmp/unix_socket.domain"   \* the variable path
Domain == "/tmp/unix.doma"          \* UNIX_DOMAIN as it is bound

VARIABLES
  files, owner,          \* names in the file system; the server that bound Domain
  spc, client_fd, head,  \* per server: control, client, first three bytes of buffer
  pending,               \* per server: connections not yet accepted
  cpc, peer, lines, eof, \* per client: control, server, texts sent, input at its end
  sent, taken,           \* per client: bytes sent; how many of them were read
  cut                    \* history, per server: a read returned fewer than three bytes

sVars == <<spc, client_fd, head, cut>>
cVars == <<cpc, peer, lines, eof, sent>>
vars == <<files, owner, sVars, pending, cVars, taken>>

Init ==
  /\ files = {} /\ owner = Nobody
  /\ spc = [s \in Servers |-> "unlink"]
  /\ client_fd = [s \in Servers |-> Nobody]
  /\ head = [s \in Servers |-> [k \in 1 .. 3 |-> "zero"]]
  /\ cut = [s \in Servers |-> FALSE]
  /\ pending = [s \in Servers |-> <<>>]
  /\ cpc = [c \in Clients |-> "new"]
  /\ peer = [c \in Clients |-> Nobody]
  /\ lines = [c \in Clients |-> <<>>]
  /\ eof = [c \in Clients |-> FALSE]
  /\ sent = [c \in Clients |-> <<>>]
  /\ taken = [c \in Clients |-> 0]

Gone == {"failed", "stopped", "error", "dead"}
Running(s) == spc[s] \in {"accept", "read"}

-----------------------------------------------------------------------------
(* A server s. *)

\* The names left when the server has removed its own.
AfterUnlinkBound == files \ {Domain}
AfterUnlink == files \ {Path}

Unlink(s) ==
  /\ spc[s] = "unlink"
  /\ files' = AfterUnlink
  /\ spc' = [spc EXCEPT ![s] = "bind"]
  /\ UNCHANGED <<owner, client_fd, head, cut, pending, cVars, taken>>

\* bind and listen.
Bind(s) ==
  /\ spc[s] = "bind" /\ Domain \notin files
  /\ files' = files \cup {Domain} /\ owner' = s
  /\ spc' = [spc EXCEPT ![s] = "accept"]
  /\ UNCHANGED <<client_fd, head, cut, pending, cVars, taken>>

BindFails(s) ==
  /\ spc[s] = "bind" /\ Domain \in files
  /\ spc' = [spc EXCEPT ![s] = "failed"]
  /\ UNCHANGED <<files, owner, client_fd, head, cut, pending, cVars, taken>>

Accept(s) ==
  /\ spc[s] = "accept" /\ pending[s] # <<>>
  /\ client_fd' = [client_fd EXCEPT ![s] = Head(pending[s])]
  /\ pending' = [pending EXCEPT ![s] = Tail(@)]
  /\ spc' = [spc EXCEPT ![s] = "read"]
  /\ UNCHANGED <<files, owner, head, cut, cVars, taken>>

\* What the server does after a read that left h at the start of buffer:
\* strncmp(buffer, "exit", 3).
StopsOnTwo(h) == IF h[1] = "e" /\ h[2] = "x" THEN "stopped" ELSE "read"
StopsOnQuit(h) == IF h = SubSeq(Quit, 1, 3) THEN "stopped" ELSE "read"
AfterRead(h) == IF h = Exi THEN "stopped" ELSE "read"

Unread(c) == Len(sent[c]) - taken[c]

\* A read overwrites as many bytes of buffer as it returns, and the others stay.
\* Texts sent before it come in one piece, and what does not fit comes with the next
\* read, which may so begin in mid-text.
Overwrite(h, c, n) == [k \in 1 .. 3 |-> IF k <= n THEN sent[c][taken[c] + k] ELSE h[k]]

ServerRead(s) ==
  /\ spc[s] = "read" /\ Unread(client_fd[s]) > 0
  /\ LET c == client_fd[s]
         n == IF Unread(c) < ReadLen THEN Unread(c) ELSE ReadLen
         h == Overwrite(head[s], c, n)
     IN  /\ head' = [head EXCEPT ![s] = h]
         /\ cut' = [cut EXCEPT ![s] = @ \/ n < 3]
         /\ spc' = [spc EXCEPT ![s] = AfterRead(h)]
         /\ files' = IF AfterRead(h) = "stopped" THEN AfterUnlink ELSE files
         /\ taken' = [taken EXCEPT ![c] = @ + n]
  /\ UNCHANGED <<owner, client_fd, pending, cVars>>

\* The client is gone: 0 is no error, and the old text is printed for ever.
ServerReadEnd(s) ==
  /\ spc[s] = "read" /\ Unread(client_fd[s]) = 0 /\ cpc[client_fd[s]] = "gone"
  /\ spc' = [spc EXCEPT ![s] = AfterRead(head[s])]
  /\ UNCHANGED <<files, owner, client_fd, head, cut, pending, cVars, taken>>

ServerReadFails(s) ==
  /\ spc[s] = "read"
  /\ spc' = [spc EXCEPT ![s] = "error"] /\ files' = AfterUnlink
  /\ UNCHANGED <<owner, client_fd, head, cut, pending, cVars, taken>>

KillServer(s) ==
  /\ spc[s] \notin Gone
  /\ spc' = [spc EXCEPT ![s] = "dead"]
  /\ UNCHANGED <<files, owner, client_fd, head, cut, pending, cVars, taken>>

Server(s) ==
  \/ Unlink(s) \/ Bind(s) \/ BindFails(s) \/ Accept(s)
  \/ ServerRead(s) \/ ServerReadEnd(s)

-----------------------------------------------------------------------------
(* A client c, told to connect to Domain. *)

Connect(c) ==
  /\ cpc[c] = "new" /\ Domain \in files /\ Running(owner) /\ Len(pending[owner]) <= Backlog
  /\ peer' = [peer EXCEPT ![c] = owner]
  /\ pending' = [pending EXCEPT ![owner] = Append(@, c)]
  /\ cpc' = [cpc EXCEPT ![c] = "select"]
  /\ UNCHANGED <<files, owner, sVars, lines, eof, sent, taken>>

ConnectFails(c) ==
  /\ cpc[c] = "new" /\ ~(Domain \in files /\ Running(owner))
  /\ cpc' = [cpc EXCEPT ![c] = "gone"]
  /\ UNCHANGED <<files, owner, sVars, pending, peer, lines, eof, sent, taken>>

\* The connection ended: with the server, served or not.
Hangup(c) == spc[peer[c]] \in Gone

\* A text typed: it is sent, and one that starts with "quit" ends the client.
\* Without a server the write raises SIGPIPE.
LineRead(c, t) ==
  /\ cpc[c] = "select" /\ ~eof[c] /\ Len(lines[c]) < MaxLines
  /\ IF Hangup(c) THEN UNCHANGED <<lines, sent>>
     ELSE /\ lines' = [lines EXCEPT ![c] = Append(@, t)]
          /\ sent' = [sent EXCEPT ![c] = @ \o t]
  /\ cpc' = IF IsPrefix(Quit, t) \/ Hangup(c) THEN [cpc EXCEPT ![c] = "gone"] ELSE cpc
  /\ UNCHANGED <<files, owner, sVars, pending, peer, eof, taken>>

\* The end of input, from which every select returns with the terminal readable.
InputEnd(c) ==
  /\ cpc[c] = "select" /\ ~eof[c]
  /\ eof' = [eof EXCEPT ![c] = TRUE]
  /\ UNCHANGED <<files, owner, sVars, pending, cpc, peer, lines, sent, taken>>

\* The socket is looked at only in a round in which the terminal was not at
\* its end: read's 0 there means continue.
OnlyAtEnd(c) == eof[c]
LooksAtSocket(c) == ~eof[c]

\* 0, or an error after lines were left unread: both end the loop.
ServerGone(c) ==
  /\ cpc[c] = "select" /\ LooksAtSocket(c) /\ Hangup(c)
  /\ cpc' = [cpc EXCEPT ![c] = "gone"]
  /\ UNCHANGED <<files, owner, sVars, pending, peer, lines, eof, sent, taken>>

Next ==
  \/ \E s \in Servers : Server(s) \/ ServerReadFails(s) \/ KillServer(s)
  \/ \E c \in Clients :
       \/ Connect(c) \/ ConnectFails(c) \/ InputEnd(c) \/ ServerGone(c)
       \/ \E t \in Texts : LineRead(c, t)

Spec == Init /\ [][Next]_vars
\* The kernel runs every process and wakes a client whose server has gone.
FairSpec ==
  /\ Spec
  /\ \A s \in Servers : WF_vars(Server(s))
  /\ \A c \in Clients : WF_vars(ServerGone(c))
=============================================================================
