-------------------------------- MODULE Udp ---------------------------------
(***************************************************************************)
(* The programs that use UDP port 9999: the servers 40, 42 and 49 and the  *)
(* clients 41, 43 and 50, on a network that loses, duplicates and          *)
(* reorders.  41 and 43 send to 127.0.0.1, the server Local; 50 broadcasts *)
(* to the servers of all hosts.  A client has a port of the kernel's       *)
(* choice, which may have been another's before: a late answer to that one *)
(* reaches the new owner.  mix says who runs, with which port, and bounds  *)
(* the datagrams duplicated and those that other programs send.            *)
(***************************************************************************)
EXTENDS Integers, FiniteSets, Bags

CONSTANTS
  Servers, Clients, Ports,
  Local,      \* the server of the host that 41 and 43 run on
  Outsider,   \* another program on the network
  Mixes       \* records: program per server and client ("none": not started), port per
              \* client; bounds on duplicated datagrams and those of other programs

ASSUME UdpAssumption ==
  /\ IsFiniteSet(Servers) /\ Local \in Servers
  /\ Servers \cap Ports = {} /\ Outsider \notin Servers \cup Ports
  /\ Mixes \subseteq [server : [Servers -> {"none", "40", "42", "49"}],
                      client : [Clients -> {"none", "41", "43", "50"}],
                      port : [Clients -> Ports],
                      maxDups : 0..1, maxForeign : 0..1]

VARIABLES
  mix,
  net,                  \* datagrams under way, a bag
  spc, cpc,             \* control of the servers and the clients
  sentFrom,             \* history: texts ever sent from each port
  foreign, dups, lost   \* history: lost says whether some datagram was lost

faults == <<foreign, dups, lost>>
netHist == <<sentFrom, faults>>
udpVars == <<mix, net, spc, cpc, netHist>>

Datagram(to, from, text) == [to |-> to, from |-> from, text |-> text]

With(D) == net (+) SetToBag(D)
Without(d) == net (-) SetToBag({d})
Arrived(at) == {d \in BagToSet(net) : d.to = at}

UdpInit ==
  /\ mix \in Mixes
  /\ net = EmptyBag
  /\ spc \in [Servers -> {"recv", "off"}]   \* off: bind failed, the port was taken
  /\ \A s \in Servers : mix.server[s] = "none" => spc[s] = "off"
  /\ cpc = [c \in Clients |-> "start"]
  /\ sentFrom = [p \in Ports |-> {}]
  /\ foreign = 0 /\ dups = 0 /\ lost = FALSE

\* The servers with a socket: a datagram for any other is dropped.
Bound == {s \in Servers : spc[s] \notin {"off", "done"}}

Server(s, program) == mix.server[s] = program
Client(c, program) == mix.client[c] = program
Port(c) == mix.port[c]

\* The port is free: whoever had it has closed its socket.
PortFree(c) == \A o \in Clients \ {c} : Port(o) = Port(c) => cpc[o] \in {"start", "done"}

\* sendto: a copy for each of the servers that listen.
SendTo(to, c, text) ==
  /\ net' = With({Datagram(s, Port(c), text) : s \in to \cap Bound})
  /\ sentFrom' = [sentFrom EXCEPT ![Port(c)] = @ \cup {text}]

-----------------------------------------------------------------------------
(* The network. *)

\* A datagram for a port that nobody has is lost too.
Lose ==
  /\ \E d \in BagToSet(net) : net' = Without(d)
  /\ lost' = TRUE
  /\ UNCHANGED <<mix, spc, cpc, sentFrom, foreign, dups>>

Duplicate ==
  /\ dups < mix.maxDups /\ dups' = dups + 1
  /\ \E d \in BagToSet(net) : net' = With({d})
  /\ UNCHANGED <<mix, spc, cpc, sentFrom, foreign, lost>>

ForeignSend ==
  /\ foreign < mix.maxForeign /\ foreign' = foreign + 1
  /\ \E s \in Bound, text \in {"other", "empty"} :
       net' = With({Datagram(s, Outsider, text)})
  /\ UNCHANGED <<mix, spc, cpc, sentFrom, dups, lost>>

Network == Lose \/ Duplicate \/ ForeignSend
=============================================================================
