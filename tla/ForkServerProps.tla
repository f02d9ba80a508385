-------------------------- MODULE ForkServerProps ---------------------------
(***************************************************************************)
(* What the forking servers guarantee.                                     *)
(***************************************************************************)
EXTENDS ForkServer

Serving == {"child", "read", "write"}

\* A connection that is served is open and has one reader: the acceptor leaves it
\* to its child, and a child that returns to the accept loop takes a new one.
OneReader ==
  \A p \in Procs :
    pc[p] \in Serving /\ sc[p] # NoConn =>
      /\ sc[p] \in fds[p]
      /\ \A q \in Procs : pc[q] \in Serving /\ sc[q] = sc[p] => p = q

\* The process that listens keeps no connection open that it does not serve, or
\* a client would never see its connection end.  In 34 no process does.
NoDescriptorLeak ==
  \A p \in Procs :
    p = 1 \/ prog.closesConn =>
      fds[p] \subseteq (IF pc[p] \in {"accept", "dead"} THEN {} ELSE {sc[p]})

\* On a live connection every byte is reported exactly once.
InHand(c) == {p \in Procs : pc[p] = "write" /\ sc[p] = c}
BytesReportedOnce ==
  \A c \in Conns :
    link[c] = "up" /\ (Pending(c) \/ \E p \in Holders(c) : pc[p] \in Serving \cup {"fork"}) =>
      asked[c] = inq[c] + replied[c]
                 + (IF InHand(c) = {} THEN 0
                    ELSE size[CHOOSE p \in InHand(c) : TRUE])

-----------------------------------------------------------------------------
(* Liveness. *)

\* A client that waits gets an answer or the end of the connection, whatever
\* the other clients do, which calls of the server fail and which children are
\* killed.
WaitEnds == \A c \in Conns : cli[c] = "wait" ~> cli[c] # "wait"

\* 34: a connection whose client has left is given back to the kernel.
ConnectionReleased ==
  \A c \in Conns :
    (cli[c] = "gone" /\ prog.closesConn) ~> (~Pending(c) /\ Holders(c) = {})

=============================================================================
