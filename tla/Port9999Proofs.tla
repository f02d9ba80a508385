--------------------------- MODULE Port9999Proofs ---------------------------
(***************************************************************************)
(* Proofs about the programs on UDP port 9999: any number of servers,      *)
(* clients and ports, any mix of programs, and a network that loses,       *)
(* duplicates and reorders as it likes.                                    *)
(***************************************************************************)
EXTENDS Port9999, FiniteSetTheorems, TLAPS

Sent == {"found", "hello", "client"}      \* what clients send
Texts == Sent \cup {"ack", "other", "empty"}

TypeOK ==
  /\ mix \in Mixes
  /\ spc \in [Servers -> {"recv", "reply", "echo", "off", "done"}]
  /\ sentFrom \in [Ports -> SUBSET Sent]
  /\ form_len \in [Servers -> {"full", "short", "negative"}]
  /\ from \in [Servers -> Ports \cup {Outsider, Nobody}]
  /\ sbuff \in [Servers -> Texts]
  /\ client \in [Servers -> Ports \cup {Outsider}] /\ buf \in [Servers -> Texts]
  /\ cbuff \in [Clients -> Texts]
  /\ from_len \in [Clients -> {"full", "short", "negative"}]
  /\ found \in [Clients -> SUBSET (Servers \cup {Nobody})]
  /\ printed \in [Clients -> Texts \cup {"nothing"}]
  /\ asked \in [Ports -> Nat] /\ acks \in [Ports \cup {Outsider, Nobody} -> Nat]
  /\ answered \in SUBSET (Servers \X Ports)

-----------------------------------------------------------------------------
(* What may be under way. *)

\* To a server: what its sender's port has sent, or another program's datagram.
Request(d) ==
  \/ d.from \in Ports /\ d.text \in sentFrom[d.from]
  \/ d.from = Outsider /\ d.text \in {"other", "empty"}

\* To a port: an answer of 49 to that port, or what that port itself has sent and
\* 42 sends back.
Answer(d) ==
  \/ d.text \in sentFrom[d.to] /\ d.from \in Servers /\ Server(d.from, "42")
  \/ d.text = "ack" /\ "found" \in sentFrom[d.to] /\ <<d.from, d.to>> \in answered

Proper(d) == (d.to \in Servers /\ Request(d)) \/ (d.to \in Ports /\ Answer(d))

WireInv == \A d \in BagToSet(net) : Proper(d)

\* What the programs keep of the datagrams they have taken.
TakenInv ==
  /\ \A s \in Servers : client[s] \in Ports => buf[s] \in sentFrom[client[s]]
  /\ \A c \in Clients : cbuff[c] = "ack" => \E t \in Servers : <<t, Port(c)>> \in answered

\* The servers that are about to answer a; those that owe nobody an answer are
\* the ones whose form_len was not set.
Owing(a) == {s \in Servers : spc[s] = "reply" /\ form_len[s] = "full" /\ from[s] = a}
Servers49 == {s \in Servers : Server(s, "49")}
Corrected == {s \in Servers49 : form_len[s] # "short"}

\* An answer given or owed belongs to a request; one that goes nowhere belongs to
\* a server whose form_len was corrected on that occasion.
OweInv ==
  /\ \A s \in Servers : spc[s] = "reply" => s \in Servers49 /\ form_len[s] # "short"
  /\ \A s \in Servers : spc[s] = "reply" /\ from[s] \in Ports => "found" \in sentFrom[from[s]]
  /\ \A p \in Ports : acks[p] + Cardinality(Owing(p)) <= asked[p]
  /\ acks[Nobody] + Cardinality(Owing(Nobody)) <= Cardinality(Corrected)

IInv ==
  /\ TypeOK /\ WireInv /\ TakenInv /\ OweInv
  /\ FoundMeansServer /\ PrintsOwnPort

-----------------------------------------------------------------------------
(* The bag and the mix. *)

\* A send puts its datagrams under way, and nothing else.
LEMMA NetGrows ==
  ASSUME NEW D, net' = With(D)
  PROVE  BagToSet(net)' = BagToSet(net) \cup D
  BY DEF With, BagToSet, SetToBag, (+)

\* Taking a datagram puts nothing under way.
LEMMA NetShrinks ==
  ASSUME NEW d, net' = Without(d)
  PROVE  BagToSet(net)' \subseteq BagToSet(net)
  BY DEF Without, BagToSet, SetToBag, (-)

\* What has been proper stays so: ports only send more and get more answers.
LEMMA ProperKept ==
  ASSUME NEW d, Proper(d),
         mix' = mix, answered \subseteq answered',
         \A p \in Ports : sentFrom[p] \subseteq sentFrom'[p]
  PROVE  Proper(d)'
  BY DEF Proper, Request, Answer, Server

\* What the servers receive.
LEMMA ArrivedRequest ==
  ASSUME WireInv, NEW s \in Servers, NEW d \in Arrived(s)
  PROVE  d \in BagToSet(net) /\ Request(d)
  BY UdpAssumption DEF WireInv, Proper, Arrived

LEMMA ArrivedAnswer ==
  ASSUME WireInv, NEW p \in Ports, NEW d \in Arrived(p)
  PROVE  d \in BagToSet(net) /\ d.to = p /\ Answer(d)
  BY UdpAssumption DEF WireInv, Proper, Arrived

LEMMA PortType == ASSUME TypeOK, NEW c \in Clients PROVE Port(c) \in Ports
  BY UdpAssumption DEF TypeOK, Port

LEMMA RequestType ==
  ASSUME TypeOK, NEW d, Request(d)
  PROVE  /\ d.from \in Ports \cup {Outsider} /\ d.text \in Texts
         /\ d.text = "found" => d.from \in Ports /\ "found" \in sentFrom[d.from]
         /\ d.text = "empty" => d.from = Outsider
         /\ d.text # "ack"
  BY UdpAssumption DEF TypeOK, Request, Sent, Texts

LEMMA AnswerType ==
  ASSUME TypeOK, NEW d, d.to \in Ports, Answer(d)
  PROVE  /\ d.text \in Texts /\ d.from \in Servers
         /\ d.text = "ack" => <<d.from, d.to>> \in answered
  BY DEF TypeOK, Answer, Sent, Texts

-----------------------------------------------------------------------------
(* Types. *)

LEMMA InitType == Init => TypeOK
<1> SUFFICES ASSUME Init PROVE TypeOK
  OBVIOUS
<1>1. spc \in [Servers -> {"recv", "reply", "echo", "off", "done"}]
  BY DEF Init, UdpInit
<1>2. form_len \in [Servers -> {"full", "short", "negative"}]
  BY DiscoveryAssumption DEF Init, FoundInit
<1>3. sbuff \in [Servers -> Texts] /\ cbuff \in [Clients -> Texts] /\ buf \in [Servers -> Texts]
  BY DEF Init, FoundInit, EchoInit, Texts, Sent
<1>4. from_len \in [Clients -> {"full", "short", "negative"}]
  BY DiscoveryAssumption DEF Init, FoundInit
<1>5. found \in [Clients -> SUBSET (Servers \cup {Nobody})] /\ answered \in SUBSET (Servers \X Ports)
  BY DEF Init, FoundInit
<1> QED
  BY <1>1, <1>2, <1>3, <1>4, <1>5 DEF Init, UdpInit, FoundInit, EchoInit, TypeOK

LEMMA SendToType ==
  ASSUME TypeOK, NEW c \in Clients, NEW to, NEW text \in Sent, SendTo(to, c, text)
  PROVE  /\ sentFrom' \in [Ports -> SUBSET Sent]
         /\ sentFrom' = [sentFrom EXCEPT ![Port(c)] = @ \cup {text}]
  BY PortType DEF TypeOK, SendTo

LEMMA TypeStep ==
  ASSUME TypeOK, WireInv, [Next]_vars
  PROVE  TypeOK'
<1>1. CASE UNCHANGED vars
  BY <1>1 DEF TypeOK, vars, udpVars, foundVars, echoVars, netHist, sVars, cVars, hVars
<1>2. CASE Network /\ UNCHANGED <<foundVars, echoVars>>
  BY <1>2 DEF TypeOK, Network, Lose, Duplicate, ForeignSend, foundVars, echoVars,
     sVars, cVars, hVars
<1>3. ASSUME NEW s \in Servers, ServerRecv(s), UNCHANGED echoVars
      PROVE  TypeOK'
  <2>1. PICK d \in Arrived(s) :
          /\ from' = [from EXCEPT ![s] = AddrAfterRecv(s, d)]
          /\ sbuff' = [sbuff EXCEPT ![s] = BuffAfterRecv(s, d)]
          /\ spc' = [spc EXCEPT ![s] = IF IsRequest(BuffAfterRecv(s, d)) THEN "reply" ELSE "recv"]
          /\ asked' = IF d.text = "found" THEN [asked EXCEPT ![d.from] = @ + 1] ELSE asked
    BY <1>3 DEF ServerRecv
  <2>2. /\ d.from \in Ports \cup {Outsider} /\ d.text \in Texts
        /\ d.text = "found" => d.from \in Ports
    BY ArrivedRequest, RequestType
  <2>3. asked' \in [Ports -> Nat]
    BY <2>1, <2>2 DEF TypeOK
  <2>4. /\ from' \in [Servers -> Ports \cup {Outsider, Nobody}]
        /\ sbuff' \in [Servers -> Texts]
    BY <2>1, <2>2 DEF TypeOK, AddrAfterRecv, BuffAfterRecv
  <2>5. spc' \in [Servers -> {"recv", "reply", "echo", "off", "done"}]
    BY <2>1 DEF TypeOK
  <2>6. form_len' \in [Servers -> {"full", "short", "negative"}]
    BY <1>3 DEF ServerRecv, LenAfterRecv, TypeOK
  <2> QED
    BY <1>3, <2>3, <2>4, <2>5, <2>6 DEF ServerRecv, TypeOK, netHist, cVars, echoVars
<1>4. ASSUME NEW s \in Servers, ServerReply(s), UNCHANGED echoVars
      PROVE  TypeOK'
  <2>1. from[s] \in Ports \cup {Outsider, Nobody}
    BY DEF TypeOK
  <2>2. acks' \in [Ports \cup {Outsider, Nobody} -> Nat]
    BY <1>4, <2>1 DEF ServerReply, TypeOK
  <2>3. sbuff' \in [Servers -> Texts] /\ spc' \in [Servers -> {"recv", "reply", "echo", "off", "done"}]
    BY <1>4 DEF ServerReply, TypeOK, Texts
  <2>4. answered' \in SUBSET (Servers \X Ports)
    BY <1>4 DEF ServerReply, TypeOK
  <2> QED
    BY <1>4, <2>2, <2>3, <2>4 DEF ServerReply, TypeOK, netHist, cVars, echoVars
<1>5. ASSUME NEW c \in Clients, Start50(c) \/ SendFails(c) \/ Tick(c) \/ ClientTimeout(c),
             UNCHANGED echoVars
      PROVE  TypeOK'
  BY <1>5 DEF Start50, SendFails, Tick, ClientTimeout, NextRound, TypeOK, netHist, foundVars, sVars,
     cVars, hVars, udpVars, echoVars
<1>6. ASSUME NEW c \in Clients, ClientSend(c), UNCHANGED echoVars
      PROVE  TypeOK'
  <2>1. sentFrom' \in [Ports -> SUBSET Sent]
    BY <1>6, SendToType DEF ClientSend, Sent
  <2> QED
    BY <1>6, <2>1 DEF ClientSend, TypeOK, foundVars, sVars, cVars, hVars, echoVars
<1>7. ASSUME NEW c \in Clients, ClientRecv(c), UNCHANGED echoVars
      PROVE  TypeOK'
  <2>1. PICK d \in Arrived(Port(c)) :
          /\ cbuff' = [cbuff EXCEPT ![c] = CBuffAfterRecv(c, d)]
          /\ found' = IF IsAck(CBuffAfterRecv(c, d))
                      THEN [found EXCEPT ![c] = @ \cup {Reported(c, d)}]
                      ELSE found
          /\ from_len' = [from_len EXCEPT ![c] = LenAfterRecv(@)]
    BY <1>7 DEF ClientRecv
  <2>2. d.text \in Texts /\ d.from \in Servers
    <3>1. Port(c) \in Ports
      BY PortType
    <3>2. d.to = Port(c) /\ Answer(d)
      BY <3>1, ArrivedAnswer
    <3> QED
      BY <3>1, <3>2, AnswerType
  <2>3. cbuff' \in [Clients -> Texts] /\ found' \in [Clients -> SUBSET (Servers \cup {Nobody})]
    BY <2>1, <2>2 DEF TypeOK, CBuffAfterRecv, Reported, Texts
  <2>4. from_len' \in [Clients -> {"full", "short", "negative"}]
    BY <2>1 DEF TypeOK, LenAfterRecv
  <2> QED
    BY <1>7, <2>3, <2>4 DEF ClientRecv, NextRound, TypeOK, netHist, sVars, hVars, echoVars
<1>8. ASSUME NEW s \in Servers, EchoRecv(s), UNCHANGED foundVars
      PROVE  TypeOK'
  <2>1. PICK d \in Arrived(s) :
          client' = [client EXCEPT ![s] = Sender(s, d)] /\ buf' = [buf EXCEPT ![s] = d.text]
    BY <1>8 DEF EchoRecv
  <2>2. d.from \in Ports \cup {Outsider} /\ d.text \in Texts
    BY ArrivedRequest, RequestType
  <2> QED
    BY <1>8, <2>1, <2>2 DEF EchoRecv, Sender, TypeOK, netHist, foundVars, sVars, cVars, hVars
<1>9. ASSUME NEW s \in Servers, EchoSend(s) \/ RecvOnce(s), UNCHANGED foundVars
      PROVE  TypeOK'
  BY <1>9 DEF EchoSend, RecvOnce, TypeOK, netHist, foundVars, sVars, cVars, hVars, echoVars
<1>10. ASSUME NEW c \in Clients, SendText(c), UNCHANGED foundVars
       PROVE  TypeOK'
  <2>1. Text(c) \in Sent
    BY DEF Text, Sent
  <2>2. sentFrom' \in [Ports -> SUBSET Sent]
    BY <1>10, <2>1, SendToType DEF SendText, TypeOK
  <2> QED
    BY <1>10, <2>2 DEF SendText, TypeOK, foundVars, sVars, cVars, hVars, echoVars
<1>11. ASSUME NEW c \in Clients, RecvAnswer(c), UNCHANGED foundVars
       PROVE  TypeOK'
  <2>1. PICK d \in Arrived(Port(c)) : printed' = [printed EXCEPT ![c] = d.text]
    BY <1>11 DEF RecvAnswer
  <2>2. d.text \in Texts
    <3>1. Port(c) \in Ports
      BY PortType
    <3>2. d.to = Port(c) /\ Answer(d)
      BY <3>1, ArrivedAnswer
    <3> QED
      BY <3>1, <3>2, AnswerType
  <2> QED
    BY <1>11, <2>1, <2>2 DEF RecvAnswer, TypeOK, netHist, foundVars, sVars, cVars, hVars
<1> QED
  BY <1>1, <1>2, <1>3, <1>4, <1>5, <1>6, <1>7, <1>8, <1>9, <1>10, <1>11
  DEF Next, FoundNext, EchoNext, Server49, Client50, ServerEcho

-----------------------------------------------------------------------------
(* What is under way and what was taken. *)

\* Ports only send more, servers only answer more, and nobody changes programs.
LEMMA Grows ==
  ASSUME TypeOK, [Next]_vars
  PROVE  /\ mix' = mix
         /\ \A p \in Ports : sentFrom[p] \subseteq sentFrom'[p]
         /\ answered \subseteq answered'
<1>1. ASSUME NEW c \in Clients, NEW to, NEW text, SendTo(to, c, text)
      PROVE  \A p \in Ports : sentFrom[p] \subseteq sentFrom'[p]
  BY <1>1 DEF SendTo, TypeOK
<1>2. CASE UNCHANGED <<mix, answered>>
  <2>1. \A p \in Ports : sentFrom[p] \subseteq sentFrom'[p]
    BY <1>1, <1>2 DEF Next, vars, udpVars, netHist, Network, Lose, Duplicate, ForeignSend, FoundNext,
       EchoNext, Server49, Client50, ServerEcho, ServerRecv, ServerReply, Start50, ClientSend,
       SendFails, ClientRecv, Tick, ClientTimeout, EchoRecv, EchoSend, RecvOnce, SendText, RecvAnswer
  <2> QED
    BY <1>2, <2>1 DEF TypeOK
<1>3. ASSUME NEW s \in Servers, ServerReply(s)
      PROVE  /\ mix' = mix /\ sentFrom' = sentFrom
             /\ answered \subseteq answered'
  BY <1>3 DEF ServerReply, TypeOK, netHist
<1> QED
  BY <1>2, <1>3 DEF Next, vars, udpVars, foundVars, hVars, Network, Lose, Duplicate, ForeignSend, FoundNext,
     EchoNext, Server49, Client50, ServerEcho, ServerRecv, Start50, ClientSend,
     SendFails, ClientRecv, Tick, ClientTimeout, EchoRecv, EchoSend, RecvOnce, SendText, RecvAnswer

LEMMA WireKept ==
  ASSUME TypeOK, WireInv, [Next]_vars, NEW D,
         BagToSet(net)' \subseteq BagToSet(net) \cup D, \A d \in D : Proper(d)'
  PROVE  WireInv'
<1>1. \A d \in BagToSet(net) : Proper(d)'
  BY Grows, ProperKept DEF WireInv
<1> QED
  BY <1>1 DEF WireInv

LEMMA SendToProper ==
  ASSUME TypeOK, WireInv, [Next]_vars, NEW c \in Clients, NEW to \in SUBSET Servers, NEW text \in Sent,
         SendTo(to, c, text)
  PROVE  WireInv'
<1> DEFINE D == {Datagram(s, Port(c), text) : s \in to \cap Bound}
<1>1. Port(c) \in Ports /\ text \in sentFrom'[Port(c)]
  BY PortType, SendToType DEF SendTo, TypeOK
<1>2. BagToSet(net)' = BagToSet(net) \cup D
  BY NetGrows DEF SendTo
<1>3. \A d \in D : Proper(d)'
  <2> SUFFICES ASSUME NEW d \in D PROVE Proper(d)'
    OBVIOUS
  <2>1. PICK s \in Servers : d = Datagram(s, Port(c), text)
    OBVIOUS
  <2>2. d.to \in Servers /\ d.from = Port(c) /\ d.text = text
    BY <2>1 DEF Datagram
  <2> QED
    BY <1>1, <2>2 DEF Proper, Request
<1> QED
  BY <1>2, <1>3, WireKept

\* Every datagram under way stays proper, and every new one is.
LEMMA WireStep ==
  ASSUME TypeOK, WireInv, TakenInv, OweInv, [Next]_vars
  PROVE  WireInv'
<1>1. CASE BagToSet(net)' \subseteq BagToSet(net)
  <2> DEFINE D == {}
  <2>1. \A d \in D : Proper(d)'
    OBVIOUS
  <2>2. BagToSet(net)' \subseteq BagToSet(net) \cup D
    BY <1>1
  <2> HIDE DEF D
  <2> QED
    BY <2>1, <2>2, WireKept
<1>2. CASE Duplicate
  <2>1. PICK d \in BagToSet(net) : net' = With({d})
    BY <1>2 DEF Duplicate
  <2> QED
    BY <1>1, <2>1, NetGrows
<1>3. CASE ForeignSend
  <2>1. PICK s \in Servers, text \in {"other", "empty"} :
          net' = With({Datagram(s, Outsider, text)})
    BY <1>3 DEF ForeignSend, Bound
  <2>2. Proper(Datagram(s, Outsider, text))'
    BY DEF Proper, Request, Datagram
  <2> QED
    BY <2>1, <2>2, NetGrows, WireKept
<1>4. ASSUME NEW s \in Servers, ServerReply(s), BagToSet(net)' # BagToSet(net)
      PROVE  WireInv'
  <2>1. /\ from[s] \in Ports /\ answered' = answered \cup {<<s, from[s]>>}
        /\ net' = With({Datagram(from[s], s, "ack")})
    BY <1>4 DEF ServerReply
  <2>2. PICK p \in Ports : p = from[s]
    BY <2>1
  <2>3. "found" \in sentFrom'[p] /\ <<s, p>> \in answered'
    BY <1>4, <2>1, <2>2 DEF OweInv, ServerReply, netHist
  <2>4. Proper(Datagram(p, s, "ack"))'
    BY <2>3 DEF Proper, Answer, Datagram
  <2> QED
    BY <2>1, <2>2, <2>4, NetGrows, WireKept
<1>5. ASSUME NEW s \in Servers, EchoSend(s), BagToSet(net)' # BagToSet(net)
      PROVE  WireInv'
  <2>1. client[s] \in Ports /\ net' = With({Echoed(s)})
    BY <1>5 DEF EchoSend
  <2>2. PICK p \in Ports, t \in Texts : p = client[s] /\ t = buf[s]
    BY <2>1 DEF TypeOK
  <2>3. Proper(Datagram(p, s, t))'
    BY <1>5, <2>1, <2>2 DEF Proper, Answer, Datagram, Server, TakenInv, EchoSend, netHist
  <2> QED
    BY <2>1, <2>2, <2>3, NetGrows, WireKept DEF Echoed
<1>6. ASSUME NEW c \in Clients, ClientSend(c)
      PROVE  WireInv'
  BY <1>6, SendToProper DEF ClientSend, Sent
<1>7. ASSUME NEW c \in Clients, SendText(c)
      PROVE  WireInv'
  <2>1. CASE SendTo({Local}, c, Text(c))
    <3>1. Text(c) \in Sent /\ {Local} \in SUBSET Servers
      BY UdpAssumption DEF Text, Sent
    <3> QED
      BY <2>1, <3>1, SendToProper
  <2> QED
    BY <1>1, <1>7, <2>1 DEF SendText
<1>8. ASSUME NEW d, net' = Without(d)
      PROVE  WireInv'
  BY <1>1, <1>8, NetShrinks
<1>9. CASE UNCHANGED net
  BY <1>1, <1>9
<1> QED
  <2>1. CASE Network
    BY <1>2, <1>3, <1>8, <2>1 DEF Network, Lose
  <2>2. CASE FoundNext
    BY <1>1, <1>4, <1>6, <1>8, <1>9, <2>2 DEF FoundNext, Server49, Client50, ServerRecv,
       Start50, SendFails, ClientRecv, Tick, ClientTimeout, udpVars
  <2>3. CASE EchoNext
    BY <1>1, <1>5, <1>7, <1>8, <2>3 DEF EchoNext, ServerEcho, EchoRecv, RecvOnce, RecvAnswer
  <2> QED
    BY <1>9, <2>1, <2>2, <2>3 DEF Next, vars, udpVars

\* What servers and clients have taken was proper when they took it.
LEMMA TakenStep ==
  ASSUME TypeOK, WireInv, TakenInv, [Next]_vars
  PROVE  TakenInv'
<1>2. ASSUME NEW s \in Servers, EchoRecv(s)
      PROVE  \A t \in Servers : client'[t] \in Ports => buf'[t] \in sentFrom'[client'[t]]
  <2>1. PICK d \in Arrived(s) :
          client' = [client EXCEPT ![s] = d.from] /\ buf' = [buf EXCEPT ![s] = d.text]
    BY <1>2 DEF EchoRecv, Sender
  <2>2. d.from \in Ports => d.text \in sentFrom[d.from]
    BY ArrivedRequest, UdpAssumption DEF Request
  <2> QED
    BY <1>2, <2>1, <2>2 DEF TakenInv, TypeOK, EchoRecv, netHist
<1>3. ASSUME UNCHANGED <<client, buf>>
      PROVE  \A t \in Servers : client'[t] \in Ports => buf'[t] \in sentFrom'[client'[t]]
  BY <1>3, Grows DEF TakenInv
<1>4. ASSUME NEW c \in Clients, ClientRecv(c)
      PROVE  \A e \in Clients : cbuff'[e] = "ack" => \E t \in Servers : <<t, Port(e)>> \in answered'
  <2>1. PICK d \in Arrived(Port(c)) : cbuff' = [cbuff EXCEPT ![c] = CBuffAfterRecv(c, d)]
    BY <1>4 DEF ClientRecv
  <2>2. d.text = "ack" => d.from \in Servers /\ <<d.from, Port(c)>> \in answered
    BY PortType, ArrivedAnswer, AnswerType
  <2>3. CBuffAfterRecv(c, d) = "ack" => \E t \in Servers : <<t, Port(c)>> \in answered
    BY <2>2 DEF CBuffAfterRecv, TakenInv
  <2> QED
    BY <1>4, <2>1, <2>3 DEF TakenInv, TypeOK, ClientRecv, hVars
<1>5. ASSUME UNCHANGED cbuff
      PROVE  \A e \in Clients : cbuff'[e] = "ack" => \E t \in Servers : <<t, Port(e)>> \in answered'
  BY <1>5, Grows DEF TakenInv
<1>6. \A s \in Servers : client'[s] \in Ports => buf'[s] \in sentFrom'[client'[s]]
  BY <1>2, <1>3 DEF Next, vars, FoundNext, EchoNext, ServerEcho, EchoSend, RecvOnce, SendText,
     RecvAnswer, echoVars
<1>7. \A e \in Clients : cbuff'[e] = "ack" => \E t \in Servers : <<t, Port(e)>> \in answered'
  BY <1>4, <1>5 DEF Next, vars, FoundNext, EchoNext, Server49, Client50, ServerRecv, ServerReply,
     Start50, ClientSend, SendFails, Tick, ClientTimeout, foundVars, cVars
<1>8. \A e \in Clients : Port(e)' = Port(e)
  BY Grows DEF Port
<1> QED
  BY <1>6, <1>7, <1>8 DEF TakenInv

-----------------------------------------------------------------------------
(* Answers owed. *)

LEMMA OwingFinite ==
  ASSUME NEW a PROVE IsFiniteSet(Owing(a)) /\ Cardinality(Owing(a)) \in Nat
  BY UdpAssumption, FS_Subset, FS_CardinalityType DEF Owing

LEMMA CorrectedFinite ==
  /\ IsFiniteSet(Corrected) /\ Cardinality(Corrected) \in Nat
  /\ Cardinality(Corrected) <= Cardinality(Servers49)
<1>1. Corrected \in SUBSET Servers49 /\ Servers49 \in SUBSET Servers
  BY DEF Corrected, Servers49
<1> QED
  BY <1>1, UdpAssumption, FS_Subset, FS_CardinalityType

\* Steps that leave the servers of discovery alone.
LEMMA OweSame ==
  ASSUME TypeOK, OweInv, [Next]_vars, UNCHANGED <<form_len, from, asked, acks>>,
         \A s \in Servers : spc'[s] = "reply" <=> spc[s] = "reply"
  PROVE  OweInv'
<1>1. mix' = mix /\ Servers49' = Servers49 /\ Corrected' = Corrected
  BY Grows DEF Servers49, Corrected, Server
<1>2. ASSUME NEW a \in Ports \cup {Nobody} PROVE Owing(a)' = Owing(a)
  BY DEF Owing
<1>3. \A s \in Servers : spc'[s] = "reply" /\ from'[s] \in Ports => "found" \in sentFrom'[from'[s]]
  BY Grows DEF OweInv
<1> QED
  BY <1>1, <1>2, <1>3 DEF OweInv

\* A request makes a server owe one answer more.
LEMMA OweRecv ==
  ASSUME TypeOK, WireInv, OweInv, [Next]_vars, NEW s \in Servers, ServerRecv(s)
  PROVE  OweInv'
<1>1. PICK d \in Arrived(s) :
        /\ from' = [from EXCEPT ![s] = AddrAfterRecv(s, d)]
        /\ form_len' = [form_len EXCEPT ![s] = LenAfterRecv(form_len[s])]
        /\ spc' = [spc EXCEPT ![s] = IF IsRequest(BuffAfterRecv(s, d)) THEN "reply" ELSE "recv"]
        /\ asked' = IF d.text = "found" THEN [asked EXCEPT ![d.from] = @ + 1] ELSE asked
  BY DEF ServerRecv
<1>2. /\ d.from \in Ports \cup {Outsider}
      /\ d.text = "found" => d.from \in Ports /\ "found" \in sentFrom[d.from]
      /\ d.text = "empty" => d.from = Outsider
      /\ d.text # "ack"
  BY ArrivedRequest, RequestType
<1>3. /\ spc[s] = "recv" /\ s \in Servers49 /\ acks' = acks
      /\ mix' = mix /\ sentFrom' = sentFrom
  BY DEF ServerRecv, Servers49, netHist
<1>4. /\ from'[s] = AddrAfterRecv(s, d) /\ form_len'[s] = LenAfterRecv(form_len[s])
      /\ spc'[s] = "reply" => d.text = "found" \/ d.from = Outsider
      /\ \A t \in Servers \ {s} : from'[t] = from[t] /\ form_len'[t] = form_len[t] /\ spc'[t] = spc[t]
  BY <1>1, <1>2 DEF TypeOK, BuffAfterRecv, IsRequest
<1>5. form_len'[s] # "short"
  BY <1>4 DEF LenAfterRecv
<1>6. \A t \in Servers : spc'[t] = "reply" => t \in Servers49' /\ form_len'[t] # "short"
  BY <1>3, <1>4, <1>5 DEF OweInv, Servers49, Server
<1>7. \A t \in Servers : spc'[t] = "reply" /\ from'[t] \in Ports => "found" \in sentFrom'[from'[t]]
  BY <1>2, <1>3, <1>4, UdpAssumption, DiscoveryAssumption DEF OweInv, AddrAfterRecv
<1>8. ASSUME NEW a \in Ports \cup {Nobody}
      PROVE  \/ Owing(a)' = Owing(a)
             \/ /\ Owing(a)' = Owing(a) \cup {s}
                /\ spc'[s] = "reply" /\ form_len'[s] = "full" /\ from'[s] = a
  BY <1>3, <1>4 DEF Owing
<1>9. \A p \in Ports : acks'[p] + Cardinality(Owing(p)') <= asked'[p]
  <2> SUFFICES ASSUME NEW p \in Ports PROVE acks'[p] + Cardinality(Owing(p)') <= asked'[p]
    OBVIOUS
  <2>1. /\ acks[p] \in Nat /\ asked[p] \in Nat /\ asked'[p] \in Nat /\ asked[p] <= asked'[p]
        /\ acks[p] + Cardinality(Owing(p)) <= asked[p]
    BY <1>1, <1>2 DEF TypeOK, OweInv
  <2>2. CASE Owing(p)' = Owing(p)
    BY <1>3, <2>1, <2>2, OwingFinite
  <2>3. CASE /\ Owing(p)' = Owing(p) \cup {s}
             /\ spc'[s] = "reply" /\ form_len'[s] = "full" /\ from'[s] = p
    <3>1. d.from = p /\ d.text = "found"
      BY <1>2, <1>4, <2>3, UdpAssumption, DiscoveryAssumption DEF AddrAfterRecv
    <3>2. asked'[p] = asked[p] + 1
      BY <1>1, <3>1 DEF TypeOK
    <3>3. Cardinality(Owing(p)') <= Cardinality(Owing(p)) + 1 /\ Cardinality(Owing(p)') \in Nat
      BY <2>3, OwingFinite, FS_AddElement, FS_CardinalityType
    <3> QED
      BY <1>3, <2>1, <3>2, <3>3, OwingFinite
  <2> QED
    BY <1>8, <2>2, <2>3
<1>10. acks'[Nobody] + Cardinality(Owing(Nobody)') <= Cardinality(Corrected')
  <2>1. /\ acks[Nobody] \in Nat
        /\ acks[Nobody] + Cardinality(Owing(Nobody)) <= Cardinality(Corrected)
    BY DEF TypeOK, OweInv
  <2>2. CASE form_len[s] = "short"
    <3>1. Corrected' = Corrected \cup {s} /\ s \notin Corrected
      BY <1>3, <1>4, <1>5, <2>2 DEF Corrected, Servers49, Server
    <3>2. Cardinality(Corrected') = Cardinality(Corrected) + 1
      BY <3>1, CorrectedFinite, FS_AddElement
    <3>3. Cardinality(Owing(Nobody)') <= Cardinality(Owing(Nobody)) + 1 /\ Cardinality(Owing(Nobody)') \in Nat
      <4>1. Owing(Nobody)' = Owing(Nobody) \/ Owing(Nobody)' = Owing(Nobody) \cup {s}
        BY <1>8
      <4>2. CASE Owing(Nobody)' = Owing(Nobody)
        BY <4>2, OwingFinite
      <4>3. CASE Owing(Nobody)' = Owing(Nobody) \cup {s}
        <5>1. IsFiniteSet(Owing(Nobody)) /\ Cardinality(Owing(Nobody)) \in Nat
          BY OwingFinite
        <5>2. Cardinality(Owing(Nobody) \cup {s}) \in {Cardinality(Owing(Nobody)), Cardinality(Owing(Nobody)) + 1}
          BY <5>1, FS_AddElement
        <5> QED
          BY <4>3, <5>1, <5>2
      <4> QED
        BY <4>1, <4>2, <4>3
    <3> QED
      BY <1>3, <2>1, <3>2, <3>3, CorrectedFinite, OwingFinite
  <2>3. CASE form_len[s] # "short"
    <3>1. Corrected' = Corrected
      BY <1>3, <1>4, <1>5, <2>3 DEF Corrected, Servers49, Server
    <3>2. Owing(Nobody)' = Owing(Nobody)
      BY <1>2, <1>4, <1>8, <2>3, DiscoveryAssumption DEF AddrAfterRecv, LenAfterRecv, TypeOK
    <3> QED
      BY <1>3, <2>1, <3>1, <3>2
  <2> QED
    BY <2>2, <2>3
<1> QED
  BY <1>6, <1>7, <1>9, <1>10 DEF OweInv

\* An answer is owed no longer.
LEMMA OweReply ==
  ASSUME TypeOK, OweInv, NEW s \in Servers, ServerReply(s)
  PROVE  OweInv'
<1>1. /\ spc[s] = "reply" /\ spc' = [spc EXCEPT ![s] = "recv"]
      /\ mix' = mix /\ UNCHANGED <<form_len, from, asked, sentFrom>>
  BY DEF ServerReply, netHist
<1>2. Corrected' = Corrected /\ Servers49' = Servers49
  BY <1>1 DEF Corrected, Servers49, Server
<1>3. /\ \A t \in Servers : spc'[t] = "reply" => t \in Servers49' /\ form_len'[t] # "short"
      /\ \A t \in Servers : spc'[t] = "reply" /\ from'[t] \in Ports => "found" \in sentFrom'[from'[t]]
  BY <1>1, <1>2 DEF OweInv, TypeOK
<1>4. ASSUME NEW a \in Ports \cup {Nobody}
      PROVE  /\ acks'[a] \in Nat /\ Cardinality(Owing(a)') \in Nat
             /\ acks'[a] + Cardinality(Owing(a)') <= acks[a] + Cardinality(Owing(a))
  <2>1. acks[a] \in Nat
    BY DEF TypeOK
  <2>2. CASE form_len[s] = "full" /\ from[s] = a
    <3>1. Owing(a)' = Owing(a) \ {s} /\ s \in Owing(a)
      BY <1>1, <2>2 DEF Owing, TypeOK
    <3>2. acks'[a] = acks[a] + 1
      BY <2>2 DEF ServerReply, TypeOK
    <3>3. Cardinality(Owing(a)') = Cardinality(Owing(a)) - 1
      BY <3>1, OwingFinite, FS_RemoveElement
    <3>4. Cardinality(Owing(a)') \in Nat
      BY <3>1, OwingFinite, FS_RemoveElement, FS_CardinalityType
    <3> QED
      BY <2>1, <3>2, <3>3, <3>4, OwingFinite
  <2>3. CASE ~(form_len[s] = "full" /\ from[s] = a)
    <3>1. Owing(a)' = Owing(a)
      BY <1>1, <2>3 DEF Owing, TypeOK
    <3>2. acks'[a] = acks[a]
      BY <2>3 DEF ServerReply, TypeOK
    <3> QED
      BY <2>1, <3>1, <3>2, OwingFinite
  <2> QED
    BY <2>2, <2>3
<1>5. \A p \in Ports : acks'[p] + Cardinality(Owing(p)') <= asked'[p]
  <2> SUFFICES ASSUME NEW p \in Ports PROVE acks'[p] + Cardinality(Owing(p)') <= asked'[p]
    OBVIOUS
  <2>1. asked'[p] = asked[p] /\ asked[p] \in Nat /\ acks[p] \in Nat
    BY <1>1 DEF TypeOK
  <2> QED
    BY <1>4, <2>1, OwingFinite DEF OweInv
<1>6. acks'[Nobody] + Cardinality(Owing(Nobody)') <= Cardinality(Corrected')
  <2>1. acks[Nobody] \in Nat /\ acks[Nobody] + Cardinality(Owing(Nobody)) <= Cardinality(Corrected)
    BY DEF TypeOK, OweInv
  <2> QED
    BY <1>2, <1>4, <2>1, OwingFinite, CorrectedFinite
<1> QED
  BY <1>3, <1>5, <1>6 DEF OweInv

LEMMA OweStep ==
  ASSUME TypeOK, WireInv, OweInv, [Next]_vars
  PROVE  OweInv'
<1>1. CASE /\ UNCHANGED <<form_len, from, asked, acks>>
           /\ \A s \in Servers : spc'[s] = "reply" <=> spc[s] = "reply"
  BY <1>1, OweSame
<1>2. CASE UNCHANGED <<form_len, from, asked, acks, spc>>
  BY <1>1, <1>2
<1>3. CASE EchoNext /\ UNCHANGED foundVars
  BY <1>1, <1>2, <1>3 DEF EchoNext, ServerEcho, EchoRecv, EchoSend, RecvOnce, SendText, RecvAnswer,
     foundVars, sVars, hVars, TypeOK
<1>4. CASE Network /\ UNCHANGED <<foundVars, echoVars>>
  BY <1>2, <1>4 DEF Network, Lose, Duplicate, ForeignSend, foundVars, sVars, hVars
<1>5. CASE FoundNext
  BY <1>2, <1>5, OweRecv, OweReply DEF FoundNext, Server49, Client50, Start50, ClientSend, SendFails,
     ClientRecv, Tick, ClientTimeout, foundVars, sVars, hVars, udpVars
<1> QED
  BY <1>2, <1>3, <1>4, <1>5 DEF Next, vars, udpVars, foundVars, sVars, hVars

-----------------------------------------------------------------------------
(* The invariant and its consequences. *)

\* What a client reports or prints was on its port.
LEMMA CountStep ==
  ASSUME IInv, [Next]_vars
  PROVE  FoundMeansServer' /\ PrintsOwnPort'
<1>1. \A c \in Clients : Port(c)' = Port(c) /\ Port(c) \in Ports
  BY Grows, PortType DEF Port, IInv
<1>2. mix' = mix /\ answered \subseteq answered'
  BY Grows DEF IInv
<1>3. \A p \in Ports : sentFrom[p] \subseteq sentFrom'[p]
  BY Grows DEF IInv
<1>4. ASSUME NEW c \in Clients, NEW s \in found'[c] \ {Nobody}
      PROVE  \/ <<s, Port(c)>> \in answered'
             \/ /\ Server(s, "42")' /\ "found" \in sentFrom'[Port(c)]
                /\ \E t \in Servers : <<t, Port(c)>> \in answered'
  <2>1. CASE s \in found[c]
    BY <1>1, <1>2, <1>3, <1>4, <2>1 DEF IInv, FoundMeansServer, Server
  <2>2. CASE s \notin found[c]
    <3>1. ClientRecv(c)
      <4>1. ASSUME NEW e \in Clients, ClientRecv(e) PROVE e = c
        BY <1>4, <2>2, <4>1 DEF ClientRecv, IInv, TypeOK
      <4>2. PICK e \in Clients : ClientRecv(e)
        BY <1>4, <2>2 DEF Next, vars, FoundNext, Server49, Client50, ServerRecv, ServerReply, Start50,
           ClientSend, SendFails, Tick, ClientTimeout, foundVars, cVars
      <4> QED
        BY <4>1, <4>2
    <3>2. PICK d \in Arrived(Port(c)) :
            found' = IF IsAck(CBuffAfterRecv(c, d))
                     THEN [found EXCEPT ![c] = @ \cup {Reported(c, d)}]
                     ELSE found
      BY <3>1 DEF ClientRecv
    <3>3. d.to = Port(c) /\ Answer(d)
      BY <1>1, ArrivedAnswer DEF IInv
    <3>4. IsAck(CBuffAfterRecv(c, d)) /\ s = d.from
      BY <1>4, <2>2, <3>2 DEF IInv, TypeOK, Reported
    <3>5. CASE d.text = "ack"
      BY <1>1, <1>2, <3>3, <3>4, <3>5, AnswerType DEF IInv
    <3>6. CASE d.text # "ack"
      <4>1. d.text = "found" /\ cbuff[c] = "ack"
        BY <3>4, <3>6 DEF IsAck, CBuffAfterRecv
      <4> QED
        BY <1>1, <1>2, <1>3, <3>3, <3>4, <4>1 DEF IInv, TakenInv, Answer, Server
    <3> QED
      BY <3>5, <3>6
  <2> QED
    BY <2>1, <2>2
<1>5. ASSUME NEW c \in Clients, printed'[c] # "nothing"
      PROVE  \/ printed'[c] \in sentFrom'[Port(c)]
             \/ printed'[c] = "ack" /\ "found" \in sentFrom'[Port(c)]
  <2>1. CASE printed'[c] = printed[c]
    BY <1>1, <1>3, <1>5, <2>1 DEF IInv, PrintsOwnPort
  <2>2. CASE printed'[c] # printed[c]
    <3>1. RecvAnswer(c)
      <4>1. ASSUME NEW e \in Clients, RecvAnswer(e) PROVE e = c
        BY <2>2, <4>1 DEF RecvAnswer, IInv, TypeOK
      <4>2. PICK e \in Clients : RecvAnswer(e)
        BY <2>2 DEF Next, vars, EchoNext, ServerEcho, EchoRecv, EchoSend, RecvOnce, SendText, echoVars
      <4> QED
        BY <4>1, <4>2
    <3>2. PICK d \in Arrived(Port(c)) : printed' = [printed EXCEPT ![c] = d.text]
      BY <3>1 DEF RecvAnswer
    <3>3. printed'[c] = d.text
      BY <3>2 DEF IInv, TypeOK
    <3>4. d.to = Port(c) /\ Answer(d)
      BY <1>1, ArrivedAnswer DEF IInv
    <3> QED
      BY <1>1, <1>3, <3>3, <3>4 DEF Answer
  <2> QED
    BY <2>1, <2>2
<1>6. FoundMeansServer'
  BY <1>1, <1>4 DEF FoundMeansServer
<1>7. PrintsOwnPort'
  BY <1>1, <1>5 DEF PrintsOwnPort
<1> QED
  BY <1>6, <1>7

LEMMA InitIInv == Init => IInv
<1> SUFFICES ASSUME Init PROVE IInv
  OBVIOUS
<1>1. TypeOK
  BY InitType
<1>2. BagToSet(net) = {}
  BY DEF Init, UdpInit, EmptyBag, SetToBag, BagToSet
<1>3. \A s \in Servers : spc[s] # "reply"
  BY DEF Init, UdpInit
<1>4. ASSUME NEW a PROVE Cardinality(Owing(a)) = 0
  BY <1>3, FS_EmptySet DEF Owing
<1>5. OweInv
  <2>1. \A p \in Ports : acks[p] = 0 /\ asked[p] = 0
    BY DEF Init, FoundInit
  <2>2. acks[Nobody] = 0
    BY DEF Init, FoundInit
  <2> QED
    BY <1>3, <1>4, <2>1, <2>2, CorrectedFinite DEF OweInv
<1>6. TakenInv
  BY UdpAssumption DEF Init, FoundInit, EchoInit, TakenInv
<1>7. FoundMeansServer /\ PrintsOwnPort
  BY DEF Init, FoundInit, EchoInit, FoundMeansServer, PrintsOwnPort
<1> QED
  BY <1>1, <1>2, <1>5, <1>6, <1>7 DEF IInv, WireInv

LEMMA StepIInv == IInv /\ [Next]_vars => IInv'
  BY TypeStep, WireStep, TakenStep, OweStep, CountStep DEF IInv

LEMMA Invariant == Spec => []IInv
  BY InitIInv, StepIInv, PTL DEF Spec

\* The variables keep their types: no text appears that nobody sends, and an
\* address is a port, another program's or nobody's.
THEOREM TypeCorrect == Spec => []TypeOK
<1>1. IInv => TypeOK
  BY DEF IInv
<1> QED
  BY <1>1, Invariant, PTL

\* HandleIPFound: however datagrams are lost, doubled and mixed with empty ones, a
\* port gets no more answers than requests were heard from it, and at most one
\* answer of each server goes nowhere.
THEOREM OnlyRequestsAnswered == Spec => []AnswersOnlyRequests
<1>1. IInv => AnswersOnlyRequests
  <2> SUFFICES ASSUME IInv PROVE AnswersOnlyRequests
    OBVIOUS
  <2>1. ASSUME NEW p \in Ports PROVE acks[p] <= asked[p]
    <3>1. acks[p] \in Nat /\ asked[p] \in Nat /\ acks[p] + Cardinality(Owing(p)) <= asked[p]
      BY DEF IInv, TypeOK, OweInv
    <3> QED
      BY <3>1, OwingFinite
  <2>2. acks[Nobody] <= Cardinality(Servers49)
    <3>1. acks[Nobody] \in Nat /\ acks[Nobody] + Cardinality(Owing(Nobody)) <= Cardinality(Corrected)
      BY DEF IInv, TypeOK, OweInv
    <3>2. Cardinality(Servers49) \in Nat
      BY UdpAssumption, FS_Subset, FS_CardinalityType DEF Servers49
    <3> QED
      BY <3>1, <3>2, OwingFinite, CorrectedFinite
  <2> QED
    BY <2>1, <2>2 DEF AnswersOnlyRequests, Servers49
<1> QED
  BY <1>1, Invariant, PTL

\* IPFound: an address that a client reports as a server's is that of a 49 which
\* has answered the client's port, or of a 42 that sent the port's own request
\* back after some 49 had answered it, or nothing has written it.
THEOREM ReportedServersAnswered == Spec => []FoundMeansServer
<1>1. IInv => FoundMeansServer
  BY DEF IInv
<1> QED
  BY <1>1, Invariant, PTL

\* udpclie_echo prints nothing that was not sent from its own port or answered to it.
THEOREM PrintedFromOwnPort == Spec => []PrintsOwnPort
<1>1. IInv => PrintsOwnPort
  BY DEF IInv
<1> QED
  BY <1>1, Invariant, PTL
=============================================================================
