----------------------------- MODULE Discovery ------------------------------
(***************************************************************************)
(* broadcast.c: HandleIPFound, the server (49), answers the IP_FOUND of    *)
(* IPFound, the clients (50), that broadcast it ten times.  Both sides     *)
(* declare a two second timeout once, before their loop, and select counts *)
(* it down.  Their buffers outlive the datagrams.                          *)
(***************************************************************************)
EXTENDS Udp

CONSTANTS
  Nobody,     \* what an address that was not written names
  Times,      \* times, 10 in IPFound
  Timeout,    \* tv_sec of both sides, in ticks
  FormLens    \* what the uninitialised form_len and from_len can hold

ASSUME DiscoveryAssumption ==
  /\ Nobody \notin Ports \cup Servers \cup {Outsider}
  /\ Times \in Nat \ {0} /\ Timeout \in Nat
  /\ FormLens # {} /\ FormLens \subseteq {"full", "short", "negative"}

VARIABLES
  form_len, from, sbuff,   \* per server; sbuff is the text strstr finds first
  i, left, cbuff,          \* per client: rounds, rest of the timeout, its buffer
  from_len, found,         \* and the addresses that it has printed as servers
  asked, acks,             \* history: IP_FOUND heard per port; answers per address
  answered                 \* history: pairs of a server and a port that it has answered

sVars == <<form_len, from, sbuff>>
cVars == <<i, left, cbuff, from_len, found>>
hVars == <<asked, acks, answered>>
foundVars == <<sVars, cVars, hVars>>

FoundInit ==
  /\ form_len \in [Servers -> FormLens]
  /\ \A s \in Servers : ~Server(s, "49") => form_len[s] = CHOOSE f \in FormLens : TRUE
  /\ from = [s \in Servers |-> Nobody]
  /\ \E t \in {"other", "found"} : sbuff = [s \in Servers |-> t]   \* buff is not initialised
  /\ i = [c \in Clients |-> 0]
  /\ left = [c \in Clients |-> Timeout]
  /\ cbuff = [c \in Clients |-> "other"]   \* nor is this one; chance does not spell _ACK there
  /\ from_len \in [Clients -> FormLens]
  /\ \A c \in Clients : ~Client(c, "50") => from_len[c] = CHOOSE f \in FormLens : TRUE
  /\ found = [c \in Clients |-> {}] /\ answered = {}
  /\ asked = [p \in Ports |-> 0] /\ acks = [a \in Ports \cup {Outsider, Nobody} |-> 0]

-----------------------------------------------------------------------------
(* The server. *)

\* What recvfrom leaves in form_len or from_len: the length of the address, unless
\* it was negative; then the call fails after it has taken the datagram.
LenAfterRecv(len) == IF len = "negative" THEN "negative" ELSE "full"

\* The address that recvfrom writes, cut to form_len bytes.
AddrOfRequest(s, d) == IF d.text = "found" THEN d.from ELSE from[s]
AddrAfterRecv(s, d) == IF form_len[s] = "full" THEN d.from ELSE Nobody

\* strstr of IP_FOUND: it also finds IP_FOUND_ACK, and an empty datagram leaves
\* the text of the one before.
BuffAfterRecv(s, d) == IF d.text = "empty" THEN sbuff[s] ELSE d.text
IsRequest(text) == text \in {"found", "ack"}

ServerRecv(s) ==
  /\ Server(s, "49") /\ spc[s] = "recv"
  /\ \E d \in Arrived(s) :
       /\ net' = Without(d)
       /\ from' = [from EXCEPT ![s] = AddrAfterRecv(s, d)]
       /\ form_len' = [form_len EXCEPT ![s] = LenAfterRecv(form_len[s])]
       /\ sbuff' = [sbuff EXCEPT ![s] = BuffAfterRecv(s, d)]
       /\ spc' = [spc EXCEPT ![s] = IF IsRequest(BuffAfterRecv(s, d)) THEN "reply" ELSE "recv"]
       /\ asked' = IF d.text = "found" THEN [asked EXCEPT ![d.from] = @ + 1] ELSE asked
  /\ UNCHANGED <<mix, cpc, netHist, cVars, acks, answered>>

ServerReply(s) ==
  /\ Server(s, "49") /\ spc[s] = "reply"
  /\ spc' = [spc EXCEPT ![s] = "recv"]
  /\ sbuff' = [sbuff EXCEPT ![s] = "ack"]
  /\ IF form_len[s] = "full"
     THEN /\ acks' = [acks EXCEPT ![from[s]] = @ + 1]
          /\ IF from[s] \in Ports
             THEN /\ net' = With({Datagram(from[s], s, "ack")})
                  /\ answered' = answered \cup {<<s, from[s]>>}
             ELSE UNCHANGED <<net, answered>>
     ELSE UNCHANGED <<net, acks, answered>>
  /\ UNCHANGED <<mix, cpc, netHist, form_len, from, cVars, asked>>

-----------------------------------------------------------------------------
(* A client. *)

\* There may be no interface br0: then it ends at once.
Start50(c) ==
  /\ Client(c, "50") /\ cpc[c] = "start" /\ PortFree(c)
  /\ cpc' \in {[cpc EXCEPT ![c] = "send"], [cpc EXCEPT ![c] = "done"]}
  /\ UNCHANGED <<mix, net, spc, netHist, foundVars>>

\* The next round, or the end.
NextRound(c) ==
  /\ i' = [i EXCEPT ![c] = @ + 1]
  /\ cpc' = [cpc EXCEPT ![c] = IF i[c] + 1 < Times THEN "send" ELSE "done"]

\* The broadcast reaches the server of every host.
ClientSend(c) ==
  /\ Client(c, "50") /\ cpc[c] = "send"
  /\ SendTo(Servers, c, "found")
  /\ cpc' = [cpc EXCEPT ![c] = "select"]
  /\ UNCHANGED <<mix, spc, faults, foundVars>>

SendFails(c) ==
  /\ Client(c, "50") /\ cpc[c] = "send"
  /\ NextRound(c)
  /\ UNCHANGED <<mix, net, spc, netHist, sVars, left, cbuff, from_len, found, hVars>>

\* Neither text comes with its 0: the shorter IP_FOUND leaves the _ACK of an
\* IP_FOUND_ACK before it.
CBuffAfterRecv(c, d) == IF d.text = "found" /\ cbuff[c] = "ack" THEN "ack" ELSE d.text

IsFound(text) == text \in {"found", "ack"}
IsAck(text) == text = "ack"

\* The address in from_addr, which nothing has written before the first datagram.
Reported(c, d) == IF from_len[c] = "full" THEN d.from ELSE Nobody

\* select finds a datagram, from whomever; what is left of the timeout stays.
ClientRecv(c) ==
  /\ Client(c, "50") /\ cpc[c] = "select"
  /\ \E d \in Arrived(Port(c)) :
       /\ net' = Without(d)
       /\ cbuff' = [cbuff EXCEPT ![c] = CBuffAfterRecv(c, d)]
       /\ found' = IF IsAck(CBuffAfterRecv(c, d))
                   THEN [found EXCEPT ![c] = @ \cup {Reported(c, d)}]
                   ELSE found
       /\ from_len' = [from_len EXCEPT ![c] = LenAfterRecv(@)]
  /\ NextRound(c)
  /\ UNCHANGED <<mix, spc, netHist, sVars, left, hVars>>

\* A tick passes while select waits.
Tick(c) ==
  /\ Client(c, "50") /\ cpc[c] = "select" /\ left[c] > 0
  /\ left' = [left EXCEPT ![c] = @ - 1]
  /\ UNCHANGED <<udpVars, sVars, i, cbuff, from_len, found, hVars>>

\* Nothing came: the next select returns at once, for the timeout is not set
\* again.
NeverTimesOut(c) == FALSE
TimesOut(c) == left[c] = 0

ClientTimeout(c) ==
  /\ Client(c, "50") /\ cpc[c] = "select" /\ TimesOut(c) /\ Arrived(Port(c)) = {}
  /\ NextRound(c)
  /\ UNCHANGED <<mix, net, spc, netHist, sVars, left, cbuff, from_len, found, hVars>>

-----------------------------------------------------------------------------

Server49(s) == ServerRecv(s) \/ ServerReply(s)
Client50(c) == ClientSend(c) \/ SendFails(c) \/ ClientRecv(c) \/ Tick(c) \/ ClientTimeout(c)

FoundNext ==
  \/ \E s \in Servers : Server49(s)
  \/ \E c \in Clients : Start50(c) \/ Client50(c)

-----------------------------------------------------------------------------
(* Properties. *)

\* A port is answered at most once per request that was heard from it, though a
\* server's buffer and sender address outlive the datagram they came with: the
\* stale answer to an empty datagram goes to whoever sent that.  An
\* uninitialised form_len costs a server one answer at most: recvfrom corrects it.
AnswersOnlyRequests ==
  /\ \A p \in Ports : acks[p] <= asked[p]
  /\ acks[Nobody] <= Cardinality({s \in Servers : Server(s, "49")})

\* The address that a client prints as a server's is that of a 49 which has
\* answered its port.  There are two exceptions: a 42 sent it its own IP_FOUND
\* back, behind which its buffer still held the end of the answer of a 49; or its
\* uninitialised from_len kept recvfrom from writing an address.
FoundMeansServer ==
  \A c \in Clients : \A s \in found[c] \ {Nobody} :
    \/ <<s, Port(c)>> \in answered
    \/ /\ Server(s, "42") /\ "found" \in sentFrom[Port(c)]
       /\ \E t \in Servers : <<t, Port(c)>> \in answered
=============================================================================
