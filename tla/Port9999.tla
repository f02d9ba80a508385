------------------------------ MODULE Port9999 ------------------------------
(***************************************************************************)
(* Discovery (49, 50) and UdpEcho (40 to 43) on one network: both use UDP  *)
(* port 9999, so that clients of the one meet servers of the other.        *)
(***************************************************************************)
EXTENDS Discovery, UdpEcho

vars == <<udpVars, foundVars, echoVars>>

Init == UdpInit /\ FoundInit /\ EchoInit

Next ==
  \/ FoundNext /\ UNCHANGED echoVars
  \/ EchoNext /\ UNCHANGED foundVars
  \/ Network /\ UNCHANGED <<foundVars, echoVars>>

Spec == Init /\ [][Next]_vars

ServerStep(s) == (Server49(s) /\ UNCHANGED echoVars) \/ (ServerEcho(s) /\ UNCHANGED foundVars)
ClientStep(c) == (Client50(c) /\ UNCHANGED echoVars) \/ (RecvAnswer(c) /\ UNCHANGED foundVars)

\* The kernel runs every process that was started and time passes; nothing is
\* said of the network.
FairSpec ==
  /\ Spec
  /\ \A s \in Servers : WF_vars(ServerStep(s))
  /\ \A c \in Clients : WF_vars(ClientStep(c))

-----------------------------------------------------------------------------
(* Properties. *)

\* 43 takes the first datagram that reaches its port.  What it prints was sent
\* from that port, by itself or by a client that had the port before it, or is
\* the answer of 49 to such a client.
PrintsOwnPort ==
  \A c \in Clients :
    printed[c] # "nothing" =>
      \/ printed[c] \in sentFrom[Port(c)]
      \/ printed[c] = "ack" /\ "found" \in sentFrom[Port(c)]

\* Every client of discovery ends, even when each datagram is lost and each
\* sendto fails.  43 has no timeout: it ends if 42 gets its request and no
\* datagram is lost.
ClientsEnd ==
  \A c \in Clients :
    (cpc[c] = "send" \/ (cpc[c] = "wait" /\ \E s \in Servers : spc[s] = "echo" /\ client[s] = Port(c)))
      ~> (cpc[c] = "done" \/ (Client(c, "43") /\ lost))
=============================================================================
