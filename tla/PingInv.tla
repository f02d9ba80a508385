------------------------------ MODULE PingInv -------------------------------
(***************************************************************************)
(* The inductive invariants behind the properties of Ping.                 *)
(***************************************************************************)
EXTENDS PingProps

Starting == {"setup", "boot", "armed", "exit"}
Sending == {"scan", "seq", "flag", "sec", "usec", "sendto"}
Matching == {"scan", "free", "sec", "usec"}

\* Which threads run in which phase of main, and what an ended thread implies
\* of alive.  alive = 0 is final once icmp_send has started.
ControlInv ==
  /\ (mpc \in Starting => spc = "none")
  /\ (mpc \in Starting \cup {"send_up"} => rpc = "none")
  /\ (mpc \in {"stats", "done", "crash"} => Joined)
  /\ (mpc = "segv" <=> spc = "killed") /\ (mpc = "segv" <=> rpc = "killed")
  /\ (spc = "end" \/ rpc = "end" => alive = 0)
  /\ (eintr => alive = 0 /\ rpc \in {"loop", "end", "killed"})

\* Before its first attempt icmp_send has transmitted nothing; a SIGINT that
\* stops it after that finds tv_begin set.
TimeInv ==
  /\ (spc \in {"none", "begin"} => tv_begin = 0)
  /\ (tv_begin = 0 => spc \in {"none", "begin", "killed"})
  /\ (tv_begin = 0 => att = 0)
  /\ (att = 0 => packet_send = 0)
  /\ (spc \in Sending \cup {"inc"} => att > 0)
  /\ (att > 0 /\ alive = 0 => tv_interval = "run")
  /\ (mpc = "done" => packet_send # 0)
  /\ (mpc = "crash" => packet_send = 0)

\* Messages on the wire answer probes that were sent, and so does the one being
\* matched, if it is not a twin's.
WireInv ==
  /\ sent \subseteq 1 .. att
  /\ (spc \in Sending => att \notin sent)
  /\ (spc = "inc" => att \in sent)
  /\ \A m \in wire : m.att \in sent /\ m.type = "reply" /\ m.id = Pid % IdMod
  /\ (twins = 0 => (rpc \in Matching => cur.att \in sent) /\ counted \subseteq sent)

\* Without duplicates each answer is matched at most once.
NoDupInv ==
  dups = 0 /\ twins = 0 =>
    /\ \A m \in wire : m.att \notin counted
    /\ \A m, n \in wire : m.att = n.att => m = n
    /\ (rpc \in Matching =>
          cur.att \notin counted /\ \A m \in wire : m.att # cur.att)

\* Without wrap the counters are the sizes of the two sets.
CountInv ==
  /\ (att < Half =>
        packet_send = Cardinality(sent) - (IF spc = "inc" THEN 1 ELSE 0))
  /\ (att < Half /\ dups = 0 /\ twins = 0 => packet_recv = Cardinality(counted))

SummaryInv == ControlInv /\ TimeInv /\ WireInv /\ NoDupInv /\ CountInv

\* What was counted, is being matched or may still come: each answers a probe of
\* its own, or is a duplicate or a twin.
BeingMatched == IF rpc \in Matching THEN 1 ELSE 0
AccountInv ==
  /\ IsFiniteSet(wire)
  /\ att + dups + twins < Half =>
       /\ packet_recv >= 0
       /\ packet_recv + BeingMatched + Cardinality(wire) <= Cardinality(sent) + dups + twins

-----------------------------------------------------------------------------
(* The table, in a Clean execution. *)

\* The messages whose answer has not been released yet.
Held == wire \cup (IF rpc \in {"scan", "free"} THEN {cur} ELSE {})

\* The probe of attempt n carries the number n - 1.
NumberInv ==
  /\ (spc \in Sending \cup {"inc"} => packet_send = att - 1)
  /\ (spc \notin Sending \cup {"inc"} /\ att < Half => packet_send = att)
  /\ \A m \in Held : m.seq = m.att - 1
  /\ (rpc \in Matching => cur.seq = cur.att - 1)

\* No two entries hold the same number, but for the 0 they all start with.
SeqInv ==
  /\ \A i \in Index : pingpacket[i].seq = 0 \/ pingpacket[i].seq \in 1 .. att - 1
  /\ (spc \in {"scan", "seq"} \/ (spc = "sendto" /\ si = Slots) =>
        \A i \in Index : pingpacket[i].seq = 0 \/ pingpacket[i].seq < att - 1)
  /\ \A i, j \in Index : pingpacket[i].seq = pingpacket[j].seq =>
                           i = j \/ pingpacket[i].seq = 0

\* The first probe finds the table empty and takes entry 0.
FirstInv ==
  /\ (att = 0 \/ (att = 1 /\ spc \in {"scan", "seq"}) =>
        \A i \in Index : pingpacket[i].flag = 0)
  /\ (att = 1 /\ spc \in Sending => si = 0)
  /\ \A m \in Held : m.seq = 0 => m.slot = 0

\* The entry icmp_send is about to fill, or has filled.
SlotInv ==
  /\ (spc \in {"seq", "flag"} => pingpacket[si].flag = 0)
  /\ (spc \in {"flag", "sec", "usec", "sendto"} /\ si < Slots =>
        pingpacket[si].seq = att - 1)
  /\ (spc \in {"sec", "usec", "sendto"} /\ si < Slots =>
        pingpacket[si].flag = 1 /\ \A m \in Held : m.slot # si)
  /\ (spc \in {"usec", "sendto"} /\ si < Slots => pingpacket[si].sec = att)
  /\ (spc = "sendto" /\ si < Slots => pingpacket[si].usec = att)

\* Entries of probes that are not released are kept; probes that were not saved
\* match no entry.
HeldInv ==
  \A m \in Held :
    /\ (m.slot < Slots =>
          pingpacket[m.slot]
            = [seq |-> m.seq, flag |-> 1, sec |-> m.att, usec |-> m.att])
    /\ (m.slot = Slots => \A i \in Index : pingpacket[i].seq # m.seq)

\* icmp_recv's scan stops at the entry of its probe.
ScanInv ==
  /\ (rpc = "scan" => ri <= cur.slot)
  /\ (rpc = "free" => ri = cur.slot)
  /\ (rpc \in {"sec", "usec"} =>
        LET sec == IF rpc = "sec" THEN pingpacket[ri].sec ELSE tv_send
            usec == pingpacket[ri].usec
        IN  /\ sec >= cur.att /\ usec >= cur.att
            /\ pingpacket[ri].seq = cur.seq => sec = cur.att /\ usec = cur.att)

\* A taken entry is being sent or is held.
TakenInv ==
  \A i \in Index :
    pingpacket[i].flag = 1 =>
      \/ spc \in {"sec", "usec", "sendto"} /\ si = i
      \/ \E m \in Held : m.slot = i

TableInv ==
  Clean => /\ NumberInv /\ SeqInv /\ FirstInv
           /\ SlotInv /\ HeldInv /\ ScanInv /\ TakenInv

-----------------------------------------------------------------------------
(* The table when a sendto may fail: its retry has the same number.  An      *)
(* entry with that number is then taken, whichever attempt took it, until    *)
(* the answer to the number releases the first of them.                      *)

Undisturbed == dups = 0 /\ twins = 0 /\ att <= Half /\ Pid < IdMod

\* packet_send has not wrapped.
Countable == att < Half \/ spc \in Sending \cup {"inc"}

RetryNumberInv ==
  /\ Countable =>
       /\ packet_send \in 0 .. att /\ (spc \in Sending \cup {"inc"} => packet_send < att)
       /\ \A i \in Index : pingpacket[i].seq \in 0 .. packet_send
       /\ \A m \in Held : m.seq <= packet_send /\ (spc # "inc" => m.seq # packet_send)
  /\ \A m, n \in Held : m.seq = n.seq => m = n

\* The entries of a number that is not answered are taken.  They all start with
\* number 0: of that, the entries icmp_send has looked at.
RetryTakenInv ==
  /\ Countable /\ spc # "inc" =>
       \A i \in Index :
         /\ pingpacket[i].seq = packet_send
         /\ packet_send = 0 => spc \in Sending /\ i < si
         /\ ~(spc = "flag" /\ i = si)
         => pingpacket[i].flag = 1
  /\ \A m \in Held, i \in Index :
       pingpacket[i].seq = m.seq /\ (m.seq = 0 => i <= m.slot) => pingpacket[i].flag = 1

RetrySlotInv ==
  /\ (spc \in {"seq", "flag"} => pingpacket[si].flag = 0)
  /\ (spc \in {"flag", "sec", "usec", "sendto"} /\ si < Slots => pingpacket[si].seq = packet_send)
  /\ (spc \in {"sec", "usec", "sendto"} /\ si < Slots => pingpacket[si].flag = 1)
  /\ \A m \in Held : m.slot < Slots => pingpacket[m.slot].seq = m.seq
  /\ (rpc \in {"scan", "free"} => ri <= cur.slot)
  /\ (rpc = "free" => pingpacket[ri].seq = cur.seq)

\* A taken entry has a probe that is held, a failure, or the attempt under way.
TakenEntries == {i \in Index : pingpacket[i].flag = 1}
SavedHeld == {m \in Held : m.slot < Slots}
UnderWay == IF spc \in {"sec", "usec", "sendto"} /\ si < Slots THEN 1 ELSE 0
TakenCount == Cardinality(TakenEntries) <= Cardinality(SavedHeld) + fails + UnderWay

RetryInv ==
  /\ IsFiniteSet(wire)
  /\ Undisturbed => RetryNumberInv /\ RetryTakenInv /\ RetrySlotInv /\ TakenCount
=============================================================================
