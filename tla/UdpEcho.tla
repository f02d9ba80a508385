------------------------------ MODULE UdpEcho -------------------------------
(***************************************************************************)
(* udp_lib.c: udpserv_echo (42) sends every datagram back, udpclie_echo    *)
(* (43) sends one and waits for one, without a timeout.  40 receives one   *)
(* datagram and ends, 41 sends one and ends.                               *)
(***************************************************************************)
EXTENDS Udp

VARIABLES
  client, buf,   \* per server 42: sender and text of the datagram it has received
  printed        \* per client 43: the text it prints

echoVars == <<client, buf, printed>>

EchoInit ==
  /\ client = [s \in Servers |-> Outsider] /\ buf = [s \in Servers |-> "empty"]
  /\ printed = [c \in Clients |-> "nothing"]

-----------------------------------------------------------------------------
(* The servers. *)

\* recvfrom writes the address of the sender over that of the one before.
FirstSender(s, d) == IF client[s] = Outsider THEN d.from ELSE client[s]
Sender(s, d) == d.from

EchoRecv(s) ==
  /\ Server(s, "42") /\ spc[s] = "recv"
  /\ \E d \in Arrived(s) :
       /\ net' = Without(d)
       /\ client' = [client EXCEPT ![s] = Sender(s, d)]
       /\ buf' = [buf EXCEPT ![s] = d.text]
  /\ spc' = [spc EXCEPT ![s] = "echo"]
  /\ UNCHANGED <<mix, cpc, netHist, printed>>

\* Nobody listens for what goes to Outsider.
Echoed(s) == Datagram(client[s], s, buf[s])

EchoSend(s) ==
  /\ Server(s, "42") /\ spc[s] = "echo"
  /\ net' = IF client[s] \in Ports THEN With({Echoed(s)}) ELSE net
  /\ spc' = [spc EXCEPT ![s] = "recv"]
  /\ UNCHANGED <<mix, cpc, netHist, echoVars>>

RecvOnce(s) ==
  /\ Server(s, "40") /\ spc[s] = "recv"
  /\ \E d \in Arrived(s) : net' = Without(d)
  /\ spc' = [spc EXCEPT ![s] = "done"]
  /\ UNCHANGED <<mix, cpc, netHist, echoVars>>

-----------------------------------------------------------------------------
(* The clients. *)

Text(c) == IF Client(c, "41") THEN "hello" ELSE "client"

AfterSend(c) == IF Client(c, "41") THEN "done" ELSE "wait"

\* sendto may fail: 43 does not look at its result, 41 only prints it.
SendText(c) ==
  /\ Client(c, "41") \/ Client(c, "43")
  /\ cpc[c] = "start" /\ PortFree(c)
  /\ SendTo({Local}, c, Text(c)) \/ UNCHANGED <<net, sentFrom>>
  /\ cpc' = [cpc EXCEPT ![c] = AfterSend(c)]
  /\ UNCHANGED <<mix, spc, faults, echoVars>>

\* 43 takes whatever comes first, from whomever: the head of what it prints.
RecvAnswer(c) ==
  /\ Client(c, "43") /\ cpc[c] = "wait"
  /\ \E d \in Arrived(Port(c)) :
       /\ net' = Without(d)
       /\ printed' = [printed EXCEPT ![c] = d.text]
  /\ cpc' = [cpc EXCEPT ![c] = "done"]
  /\ UNCHANGED <<mix, spc, netHist, client, buf>>

-----------------------------------------------------------------------------

ServerEcho(s) == EchoRecv(s) \/ EchoSend(s) \/ RecvOnce(s)

EchoNext ==
  \/ \E s \in Servers : ServerEcho(s)
  \/ \E c \in Clients : SendText(c) \/ RecvAnswer(c)
=============================================================================
