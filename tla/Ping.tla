-------------------------------- MODULE Ping --------------------------------
(***************************************************************************)
(* 57-socket_raw_ping.c: a ping built from a sending thread, a receiving   *)
(* thread, a SIGINT handler and a main thread that joins the first two and *)
(* prints the statistics.  The threads share, without a lock, the table    *)
(* pingpacket of outstanding probes, the flag alive and the counters.      *)
(*                                                                         *)
(* One iteration of icmp_send is an "attempt"; attempts are numbered from  *)
(* 1 and the number stands for the time gettimeofday returns in it.  A     *)
(* message on the wire carries, besides the fields of the ICMP header, two *)
(* ghost fields: att, the attempt that sent the probe, and slot, the table *)
(* entry the probe was saved in (Slots when there was none).  A struct     *)
(* timeval is two members, each stored and loaded on its own; each holds   *)
(* the number of the attempt whose time it is part of.                     *)
(***************************************************************************)
EXTENDS Integers, FiniteSets

CONSTANTS
  Slots,        \* entries of pingpacket (128 in the code)
  ShortMod,     \* values of a 16-bit integer (2^16)
  Pid,          \* getpid(), an int
  IdMod,        \* values of the 16-bit icmp_id field (2^16)
  Foreign,      \* packets of others that the raw socket also delivers
  MaxAttempts,  \* bound: iterations of icmp_send
  MaxFails,     \* bound: calls of sendto that fail
  MaxDups,      \* bound: replies the network duplicates
  MaxTwins,     \* bound: answers to a ping whose pid ends in the same 16 bits
  MaxSigs       \* bound: SIGINTs delivered

Half == ShortMod \div 2
Index == 0 .. Slots - 1

\* An int stored in a u_int16_t, and in a short.
ToU16(n) == n % ShortMod
ToShort(n) == ((n + Half) % ShortMod) - Half

Message == [type: {"none", "reply", "echo"}, id: 0 .. IdMod - 1, seq: 0 .. ShortMod - 1,
            att: Nat, slot: 0 .. Slots]
NoMessage == [type |-> "none", id |-> 0, seq |-> 0, att |-> 0, slot |-> Slots]

\* icmp_unpack's test for an answer to this process.
OwnAnyType(m) == m.id = Pid
Own(m) == m.type = "reply" /\ m.id = Pid

\* An answer to somebody else's probe that carries this process's id.
Twin(m) == m \in Foreign /\ m.type = "reply" /\ m.id = Pid

ASSUME PingAssumption ==
  /\ Slots \in Nat \ {0}
  /\ ShortMod \in Nat /\ ShortMod >= 2 /\ ShortMod = 2 * Half
  /\ IdMod \in Nat \ {0} /\ Pid \in Nat
  /\ {MaxAttempts, MaxFails, MaxDups, MaxTwins, MaxSigs} \subseteq Nat
  /\ Foreign \subseteq Message
  /\ \A m \in Foreign : m.att = 0

VARIABLES
  mpc, spc, rpc,            \* control of main, icmp_send and icmp_recv
  alive,                    \* the flag both loops test
  pingpacket,               \* the table: seq, flag and tv_begin (sec, usec)
  packet_send, packet_recv, \* the two shorts that are printed
  tv_begin, tv_interval,    \* start of icmp_send; what the handler computes
  att, si,                  \* icmp_send: current attempt; scan index, then slot
  cur, ri, eintr,           \* icmp_recv: packet in hand; scan index, then slot; errno = EINTR
  tv_send,                  \* icmp_unpack: the seconds it has copied, 0 for none
  wire,                     \* replies that the socket may still deliver
  fails, dups, twins, sigs, \* environment events so far
  sent, counted             \* history: attempts sent; attempts whose reply was counted

mainVars == <<mpc, alive>>
sendVars == <<spc, si, att, packet_send, tv_begin>>
recvVars == <<rpc, cur, ri, eintr, tv_send, packet_recv>>
ghostVars == <<fails, dups, twins, sigs, sent, counted>>
vars == <<mainVars, sendVars, recvVars, ghostVars, pingpacket, tv_interval, wire>>

Entry == [seq: -Half .. Half - 1, flag: {0, 1}, sec: Nat, usec: Nat]
EmptyEntry == [seq |-> 0, flag |-> 0, sec |-> 0, usec |-> 0]

Init ==
  /\ mpc = "setup" /\ spc = "none" /\ rpc = "none"
  /\ alive = 0
  /\ pingpacket = [i \in Index |-> EmptyEntry]
  /\ packet_send = 0 /\ packet_recv = 0
  /\ tv_begin = 0 /\ tv_interval = "none"
  /\ att = 0 /\ si = 0
  /\ cur = NoMessage /\ ri = 0 /\ eintr = FALSE /\ tv_send = 0
  /\ wire = {}
  /\ fails = 0 /\ dups = 0 /\ twins = 0 /\ sigs = 0
  /\ sent = {} /\ counted = {}

-----------------------------------------------------------------------------
(* The main thread. *)

\* Arguments, protocol, raw socket and address; ends with signal(SIGINT, ...).
\* Any of these may fail, and main then returns.
M_Setup ==
  /\ mpc = "setup"
  /\ mpc' \in {"boot", "exit"}
  /\ UNCHANGED <<alive, sendVars, recvVars, ghostVars, pingpacket, tv_interval, wire>>

\* alive = 1, after the handler has been installed.
M_Arm ==
  /\ mpc = "boot"
  /\ mpc' = "armed" /\ alive' = 1
  /\ UNCHANGED <<sendVars, recvVars, ghostVars, pingpacket, tv_interval, wire>>

\* pthread_create reports a failure by a positive number, and err < 0 does not
\* see it: main goes on, without the thread.
M_StartSend ==
  /\ mpc = "armed"
  /\ mpc' = "send_up" /\ spc' \in {"begin", "none"}
  /\ UNCHANGED <<alive, si, att, packet_send, tv_begin,
                 recvVars, ghostVars, pingpacket, tv_interval, wire>>

M_StartRecv ==
  /\ mpc = "send_up"
  /\ mpc' = "join" /\ rpc' \in {"loop", "none"}
  /\ UNCHANGED <<alive, sendVars, cur, ri, eintr, tv_send, packet_recv,
                 ghostVars, pingpacket, tv_interval, wire>>

\* The threads main has waited for when both pthread_join calls have returned.
\* For a thread that was never created the call may just return an error.
JoinedNone == TRUE
JoinedRecvOnly == rpc \in {"end", "none"}
Joined == spc \in {"end", "none"} /\ rpc \in {"end", "none"}

M_Join ==
  /\ mpc = "join" /\ Joined
  /\ mpc' = "stats"
  /\ UNCHANGED <<alive, sendVars, recvVars, ghostVars, pingpacket, tv_interval, wire>>

\* The call reads an uninitialised pthread_t: it may also never return, or fault
\* and take the other thread down with it.
M_JoinMissing ==
  /\ mpc = "join" /\ (spc = "none" \/ (spc = "end" /\ rpc = "none"))
  /\ \/ mpc' = "stuck" /\ UNCHANGED <<spc, rpc>>
     \/ mpc' = "segv" /\ spc' = "killed" /\ rpc' = "killed"
  /\ UNCHANGED <<alive, si, att, packet_send, tv_begin, cur, ri, eintr, tv_send,
                 packet_recv, ghostVars, pingpacket, tv_interval, wire>>

\* icmp_statistics divides by packet_send: SIGFPE when it is 0.
M_Stats ==
  /\ mpc = "stats"
  /\ mpc' = IF packet_send = 0 THEN "crash" ELSE "done"
  /\ UNCHANGED <<alive, sendVars, recvVars, ghostVars, pingpacket, tv_interval, wire>>

Main == M_Setup \/ M_Arm \/ M_StartSend \/ M_StartRecv \/ M_Join
        \/ M_JoinMissing \/ M_Stats

-----------------------------------------------------------------------------
(* The SIGINT handler, on whichever thread the kernel picks.  A select that *)
(* it interrupts returns -1 and leaves EINTR in that thread's errno.        *)

\* icmp_sigint's assignment to alive.
AliveKept == alive
AliveAfterSigint == 0

SigInt(thread) ==
  /\ mpc \notin {"setup", "exit", "crash", "done", "segv"}
  /\ sigs < MaxSigs /\ sigs' = sigs + 1
  /\ alive' = AliveAfterSigint
  /\ tv_interval' = IF tv_begin = 0 THEN "epoch" ELSE "run"
  /\ IF thread = "recv" /\ rpc = "select"
     THEN eintr' = TRUE /\ rpc' = "loop"
     ELSE UNCHANGED <<eintr, rpc>>
  /\ UNCHANGED <<mpc, sendVars, cur, ri, tv_send, packet_recv,
                 fails, dups, twins, sent, counted, pingpacket, wire>>

-----------------------------------------------------------------------------
\* The test of both thread loops, while(alive).
AlwaysAlive == TRUE
Alive == alive = 1

(* The sending thread, icmp_send. *)

\* A SIGINT between the two stores of tv_begin would compute a wrong interval, but
\* then, as with one before both, no probe is sent and nothing is printed.
S_Begin ==
  /\ spc = "begin"
  /\ spc' = "loop" /\ tv_begin' = 1
  /\ UNCHANGED <<mainVars, si, att, packet_send, recvVars, ghostVars,
                 pingpacket, tv_interval, wire>>

S_Loop ==
  /\ spc = "loop"
  /\ \/ /\ Alive /\ att < MaxAttempts
        /\ spc' = "scan" /\ si' = 0 /\ att' = att + 1
     \/ /\ ~Alive
        /\ spc' = "end" /\ UNCHANGED <<si, att>>
  /\ UNCHANGED <<mainVars, packet_send, tv_begin, recvVars, ghostVars,
                 pingpacket, tv_interval, wire>>

\* icmp_findpacket(-1) looks at one entry per step: icmp_recv frees entries
\* meanwhile.
FreeEntryAny(i) == TRUE
FreeEntry(i) == pingpacket[i].flag = 0

S_Scan ==
  /\ spc = "scan"
  /\ \/ si = Slots /\ spc' = "sendto" /\ UNCHANGED si
     \/ si < Slots /\ FreeEntry(si) /\ spc' = "seq" /\ UNCHANGED si
     \/ si < Slots /\ ~FreeEntry(si) /\ si' = si + 1 /\ UNCHANGED spc
  /\ UNCHANGED <<mainVars, att, packet_send, tv_begin, recvVars, ghostVars,
                 pingpacket, tv_interval, wire>>

\* Stores to one member of an entry.  The four that save the probe are each
\* visible to icmp_recv on its own: gettimeofday stores the two of tv_begin.
SetSeq(e, n) == [e EXCEPT !.seq = n]
SetFlag(e, n) == [e EXCEPT !.flag = n]
SetSec(e, n) == [e EXCEPT !.sec = n]
SetUsec(e, n) == [e EXCEPT !.usec = n]

S_SetSeq ==
  /\ spc = "seq"
  /\ spc' = "flag"
  /\ pingpacket' = [pingpacket EXCEPT ![si] = SetSeq(@, packet_send)]
  /\ UNCHANGED <<mainVars, si, att, packet_send, tv_begin, recvVars, ghostVars,
                 tv_interval, wire>>

S_SetFlag ==
  /\ spc = "flag"
  /\ spc' = "sec"
  /\ pingpacket' = [pingpacket EXCEPT ![si] = SetFlag(@, 1)]
  /\ UNCHANGED <<mainVars, si, att, packet_send, tv_begin, recvVars, ghostVars,
                 tv_interval, wire>>

S_SetSec ==
  /\ spc = "sec"
  /\ spc' = "usec"
  /\ pingpacket' = [pingpacket EXCEPT ![si] = SetSec(@, att)]
  /\ UNCHANGED <<mainVars, si, att, packet_send, tv_begin, recvVars, ghostVars,
                 tv_interval, wire>>

S_SetUsec ==
  /\ spc = "usec"
  /\ spc' = "sendto"
  /\ pingpacket' = [pingpacket EXCEPT ![si] = SetUsec(@, att)]
  /\ UNCHANGED <<mainVars, si, att, packet_send, tv_begin, recvVars, ghostVars,
                 tv_interval, wire>>

\* icmp_pack truncates pid to 16 bits; the reply echoes id and seq.
ReplyTo(n) == [type |-> "reply", id |-> Pid % IdMod, seq |-> ToU16(packet_send),
               att |-> n, slot |-> si]

\* A failed sendto goes back to the loop: no sleep, no increment, and the
\* entry stays taken.  A lost probe or reply is one the socket never delivers.
S_Sendto ==
  /\ spc = "sendto"
  /\ \/ /\ spc' = "inc"
        /\ wire' = wire \cup {ReplyTo(att)}
        /\ sent' = sent \cup {att}
        /\ UNCHANGED fails
     \/ /\ fails < MaxFails /\ fails' = fails + 1
        /\ spc' = "loop"
        /\ UNCHANGED <<wire, sent>>
  /\ UNCHANGED <<mainVars, si, att, packet_send, tv_begin, recvVars,
                 dups, twins, sigs, counted, pingpacket, tv_interval>>

\* packet_send++ and sleep(1).
S_Inc ==
  /\ spc = "inc"
  /\ spc' = "loop"
  /\ packet_send' = ToShort(packet_send + 1)
  /\ UNCHANGED <<mainVars, si, att, tv_begin, recvVars, ghostVars,
                 pingpacket, tv_interval, wire>>

Sender == S_Begin \/ S_Loop \/ S_Scan \/ S_SetSeq \/ S_SetFlag \/ S_SetSec
          \/ S_SetUsec \/ S_Sendto \/ S_Inc

-----------------------------------------------------------------------------
(* The receiving thread, icmp_recv and icmp_unpack. *)

R_Loop ==
  /\ rpc = "loop"
  /\ rpc' = IF Alive THEN "select" ELSE "end"
  /\ UNCHANGED <<mainVars, sendVars, cur, ri, eintr, tv_send, packet_recv,
                 ghostVars,
                 pingpacket, tv_interval, wire>>

R_Timeout ==
  /\ rpc = "select"
  /\ rpc' = "loop"
  /\ UNCHANGED <<mainVars, sendVars, cur, ri, eintr, tv_send, packet_recv,
                 ghostVars,
                 pingpacket, tv_interval, wire>>

\* select reports the socket readable and recv takes a packet, in any order
\* and perhaps not for the last time.  errno is tested although recv succeeded.
R_Recv(m) ==
  /\ rpc = "select"
  /\ \/ wire' = wire \ {m} /\ UNCHANGED dups
     \/ m \in wire /\ dups < MaxDups /\ dups' = dups + 1 /\ UNCHANGED wire
  /\ IF Twin(m) THEN twins < MaxTwins /\ twins' = twins + 1 ELSE UNCHANGED twins
  /\ IF ~eintr /\ Own(m)
     THEN rpc' = "scan" /\ cur' = m /\ ri' = 0
     ELSE rpc' = "loop" /\ UNCHANGED <<cur, ri>>
  /\ UNCHANGED <<mainVars, sendVars, eintr, tv_send, packet_recv, fails, sigs, sent,
                 counted, pingpacket, tv_interval>>

\* icmp_findpacket(icmp_seq): a short against a u_int16_t, both widened to int;
\* flag is not looked at.
MatchesAlways(i) == TRUE
Matches(i) == pingpacket[i].seq = cur.seq

R_Scan ==
  /\ rpc = "scan"
  /\ \/ ri = Slots /\ rpc' = "loop" /\ UNCHANGED ri
     \/ ri < Slots /\ Matches(ri) /\ rpc' = "free" /\ UNCHANGED ri
     \/ ri < Slots /\ ~Matches(ri) /\ ri' = ri + 1 /\ UNCHANGED rpc
  /\ UNCHANGED <<mainVars, sendVars, cur, eintr, tv_send, packet_recv, ghostVars,
                 pingpacket, tv_interval, wire>>

FlagKept(i) == pingpacket[i].flag
FlagAfterReply(i) == 0

R_Free ==
  /\ rpc = "free"
  /\ rpc' = "sec"
  /\ pingpacket' = [pingpacket EXCEPT ![ri] = SetFlag(@, FlagAfterReply(ri))]
  /\ UNCHANGED <<mainVars, sendVars, cur, ri, eintr, tv_send, packet_recv,
                 ghostVars, tv_interval, wire>>

\* tv_begin is copied after the entry was released, in two loads; then
\* packet_recv++.
R_ReadSec ==
  /\ rpc = "sec"
  /\ rpc' = "usec" /\ tv_send' = pingpacket[ri].sec
  /\ UNCHANGED <<mainVars, sendVars, cur, ri, eintr, packet_recv, ghostVars,
                 pingpacket, tv_interval, wire>>

R_Count ==
  /\ rpc = "usec"
  /\ rpc' = "loop" /\ tv_send' = 0
  /\ packet_recv' = ToShort(packet_recv + 1)
  /\ counted' = counted \cup {cur.att}
  /\ UNCHANGED <<mainVars, sendVars, cur, ri, eintr, fails, dups, twins, sigs,
                 sent, pingpacket, tv_interval, wire>>

Receiver == R_Loop \/ R_Timeout \/ (\E m \in wire \cup Foreign : R_Recv(m))
            \/ R_Scan \/ R_Free \/ R_ReadSec \/ R_Count

-----------------------------------------------------------------------------

Next == Main \/ Sender \/ Receiver \/ (\E t \in {"recv", "other"} : SigInt(t))

Fairness == WF_vars(Main) /\ WF_vars(Sender) /\ WF_vars(Receiver)
Spec == Init /\ [][Next]_vars
FairSpec == Spec /\ Fairness
=============================================================================
