---------------------------- MODULE UnixFdProps -----------------------------
(***************************************************************************)
(* What 45-unix_fd_server.c and 46-unix_fd_client.c guarantee.             *)
(***************************************************************************)
EXTENDS UnixFd

\* However many servers are started, and whenever one ends, at most one listens:
\* it owns the name and the name stays, so that no other takes it over.
OneServer ==
  \A s \in Servers :
    Running(s) => /\ owner = s /\ Domain \in files
                  /\ \A t \in Servers : Running(t) => s = t

\* A server is only told to stop by the client it serves, by bytes e, x and i that
\* this client has sent: at the start of one read, in mid-text or not, as long as
\* every read brought three bytes; else each perhaps at the start of a read of its
\* own, for a short text leaves the bytes of an earlier one in the buffer, but e
\* never in an earlier read than x, nor x than i.  The zeroes the buffer starts with,
\* two bytes of three, or the clients in the queue never do that.
StopsOnlyOnExit ==
  \A s \in Servers :
    spc[s] = "stopped" =>
      /\ client_fd[s] \in Clients
      /\ LET b == sent[client_fd[s]]
             From(k) == {n \in 0 .. Len(b) : n + k <= Len(b) /\ b[n + k] = Exi[k]}
         IN  \E e \in From(1), x \in From(2), i \in From(3) :
               e >= x /\ x >= i /\ (~cut[s] => e = x /\ x = i)

\* A server whose client's first text starts with "exi" stops, whatever follows it
\* before it is read.
ExitStops ==
  \A s \in Servers, c \in Clients :
    (client_fd[s] = c /\ lines[c] # <<>> /\ IsPrefix(Exi, lines[c][1]))
      ~> spc[s] \in Gone

\* When its server has gone, a client ends, also one that was never accepted,
\* unless its terminal reached the end of its input: then it never looks at the
\* socket again.
ClientFreed ==
  \A c \in Clients : (cpc[c] = "select" /\ Hangup(c)) ~> (cpc[c] = "gone" \/ eof[c])

\* "exit" ends the server, and the server's end, however it comes, ends its clients.
ExitEndsAll == ExitStops /\ ClientFreed

-----------------------------------------------------------------------------
(* A comment that the code does not honour. *)

\* 45-unix_fd_server.c:22: the server removes all links of the socket's file, so
\* none is left for bind to trip over.
SocketFileRemoved == [][\A s \in Servers : Unlink(s) => Domain \notin files']_vars
=============================================================================
