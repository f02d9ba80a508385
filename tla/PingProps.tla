----------------------------- MODULE PingProps ------------------------------
(***************************************************************************)
(* What 57-socket_raw_ping.c guarantees, and on which conditions.          *)
(***************************************************************************)
EXTENDS Ping

\* Every variable has its type; packet_send, packet_recv and the seq of an
\* entry are shorts.
TypeOK ==
  /\ mpc \in {"setup", "boot", "armed", "send_up", "join", "stats", "done",
              "crash", "exit", "stuck", "segv"}
  /\ spc \in {"none", "begin", "loop", "scan", "seq", "flag", "sec", "usec",
              "sendto", "inc", "end", "killed"}
  /\ rpc \in {"none", "loop", "select", "scan", "free", "sec", "usec", "end",
              "killed"}
  /\ alive \in {0, 1}
  /\ pingpacket \in [Index -> Entry]
  /\ packet_send \in -Half .. Half - 1 /\ packet_recv \in -Half .. Half - 1
  /\ tv_begin \in {0, 1} /\ tv_interval \in {"none", "epoch", "run"}
  /\ att \in Nat /\ si \in 0 .. Slots /\ ri \in 0 .. Slots
  /\ (spc \in {"seq", "flag", "sec", "usec"} => si < Slots)
  /\ (rpc \in {"free", "sec", "usec"} => ri < Slots)
  /\ cur \in Message /\ eintr \in BOOLEAN /\ tv_send \in Nat
  /\ wire \subseteq Message
  /\ fails \in Nat /\ dups \in Nat /\ twins \in Nat /\ sigs \in Nat
  /\ sent \subseteq Nat /\ counted \subseteq Nat

-----------------------------------------------------------------------------
(* Properties of every execution. *)

\* icmp_recv tests errno after a recv that succeeded, and nothing resets errno:
\* an EINTR left by an interrupted select would make it throw away every later
\* packet.  It never does, because the only handler also ends the loop.
NoStaleEintr == rpc = "select" => ~eintr

\* Whatever the raw socket delivers, packet_recv is never more than the probes
\* transmitted, plus one for each reply the network duplicated and each answer to
\* a ping whose pid ends in the same 16 bits: echo requests, the answers of other
\* pings and what the table does not know add nothing.
ReceivedAccounted ==
  att + dups + twins < Half => packet_recv <= Cardinality(sent) + dups + twins

\* When a summary is printed, the time it shows was measured from the start of
\* icmp_send, although SIGINT may come before that start is recorded.
SummaryTimeMeasured == mpc = "done" => tv_interval = "run"

\* The summary counts each transmitted probe once and each answered probe once,
\* so that the loss it prints is not negative: given that the network
\* duplicated no reply, no other ping has the same 16 bits of pid and the shorts
\* did not wrap.
SummaryExact ==
  mpc = "done" /\ dups = 0 /\ twins = 0 /\ att < Half =>
    /\ packet_send = Cardinality(sent)
    /\ packet_recv = Cardinality(counted)
    /\ packet_recv <= packet_send

\* icmp_statistics divides by packet_send.  It dies of that only when SIGINT came
\* before anything was transmitted: the count of a transmitted probe, which is
\* made after its sendto, is never missing when main reads it.
DividesByZeroOnlyUnsent == mpc = "crash" /\ att < Half => sent = {}

\* However SIGINT finds the threads, the two numbers of the summary are the right
\* ones, and there is a summary unless nothing was transmitted.
SummaryRight == SummaryExact /\ DividesByZeroOnlyUnsent

-----------------------------------------------------------------------------
(* Properties of the table, as long as no sendto failed, no reply was        *)
(* duplicated, no other ping's answers carry this one's id, the 16-bit       *)
(* sequence number did not wrap and the process id fits in icmp_id.          *)

Clean == fails = 0 /\ dups = 0 /\ twins = 0 /\ att <= Half /\ Pid < IdMod

\* The answers to saved probes that icmp_recv has still to find in the table.
Unmatched == wire \cup (IF rpc = "scan" THEN {cur} ELSE {})
SavedUnmatched == {m \in Unmatched : m.slot < Slots}

\* An entry that holds a probe whose answer may still come is not given to
\* another probe: it stays taken, with the probe's number and send time.
TableKeepsProbes ==
  Clean => \A m \in SavedUnmatched :
             pingpacket[m.slot]
               = [seq |-> m.seq, flag |-> 1, sec |-> m.att, usec |-> m.att]

\* A taken entry belongs to a probe: the one being sent, one whose answer may
\* still come, or one whose answer is in icmp_recv's hands.
NoEntryLeak ==
  Clean => \A i \in Index :
             pingpacket[i].flag = 1 =>
               \/ spc \in {"sec", "usec", "sendto"} /\ si = i
               \/ \E m \in SavedUnmatched : m.slot = i
               \/ rpc = "free" /\ ri = i

\* A sendto that fails leaves its entry taken, and the retry, which has the same
\* number, takes another; an answer to that number then frees whichever comes
\* first.  All the same no more than one entry per failure is lost for good.
AtHand == (IF spc \in {"sec", "usec", "sendto"} THEN 1 ELSE 0)
          + (IF rpc = "free" THEN 1 ELSE 0)
LeaksOnlyOnFailure ==
  dups = 0 /\ twins = 0 /\ att <= Half /\ Pid < IdMod =>
    Cardinality({i \in Index : pingpacket[i].flag = 1})
      <= Cardinality(SavedUnmatched) + fails + AtHand

\* icmp_unpack discards an answer to this process only when icmp_send had found
\* the table full for that probe.
DiscardsOnlyUnsaved == Clean /\ rpc = "scan" /\ ri = Slots => cur.slot = Slots

\* The two loads of tv_begin, after its entry was released, find the time of the
\* probe that is answered, or, when icmp_send has taken the entry meanwhile, of a
\* later one in either member; never that of an earlier one.  As long as the number
\* in the entry is that of the answer, neither member is another probe's.
RttNeverFromEarlierProbe ==
  Clean /\ rpc \in {"sec", "usec"} =>
    LET sec == IF rpc = "sec" THEN pingpacket[ri].sec ELSE tv_send
        usec == pingpacket[ri].usec
    IN  /\ sec >= cur.att /\ usec >= cur.att
        /\ pingpacket[ri].seq = cur.seq => sec = cur.att /\ usec = cur.att

\* Every answer is matched with its own probe, or with none if that was not saved.
AnswersMatched == DiscardsOnlyUnsaved /\ RttNeverFromEarlierProbe

-----------------------------------------------------------------------------
(* Liveness. *)

\* A SIGINT that finds both threads created ends the program.
Created == spc # "none" /\ rpc # "none"
StopsAfterSigint ==
  (mpc = "join" /\ Created /\ alive = 0) ~> (mpc \in {"done", "crash"})

-----------------------------------------------------------------------------
(* Refinement: without duplicated replies, answers that only look like this  *)
(* ping's, and wrapped counters, ping implements PingAbs.                    *)

Abs == INSTANCE PingAbs WITH
         Probes <- 1 .. MaxAttempts,
         report <- IF mpc = "done" THEN <<packet_send, packet_recv>> ELSE <<>>

AbsSpec == Abs!Spec

-----------------------------------------------------------------------------
(* A comment of the source that the code does not honour.                    *)

\* 57-socket_raw_ping.c:152, on the signal call: on SIGINT the program releases
\* its resources and exits.  A thread that could not be created is not held against
\* it here.
SigintExits ==
  (sigs > 0) ~> (mpc \in {"done", "crash", "segv"} \/ (mpc = "stuck" /\ ~Created))
=============================================================================
