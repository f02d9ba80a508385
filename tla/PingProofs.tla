----------------------------- MODULE PingProofs -----------------------------
(***************************************************************************)
(* Theorems about Ping, for every size of the table, every width of the    *)
(* integers and every number of probes, failures, duplicates and signals:  *)
(* first the summary, then the table of outstanding probes and the         *)
(* refinement of PingAbs, then the arithmetic.                             *)
(***************************************************************************)
EXTENDS PingInv, PingArith, FiniteSetTheorems, TLAPS

-----------------------------------------------------------------------------
(* The 16-bit conversions. *)

\* Half is a positive natural number.
LEMMA HalfType == Half \in Nat /\ Half >= 1 /\ ShortMod = Half + Half
  BY PingAssumption DEF Half

\* An int stored in a short has the range of a short.
LEMMA ToShortType == ASSUME NEW n \in Int PROVE ToShort(n) \in -Half .. Half - 1
<1>1. ShortMod \in Nat /\ ShortMod > 0
  BY PingAssumption
<1>2. (n + Half) % ShortMod \in 0 .. ShortMod - 1
  BY <1>1, HalfType
<1> QED
  BY <1>1, <1>2, HalfType DEF ToShort

\* A value that fits is stored unchanged.
LEMMA ToShortSmall == ASSUME NEW n \in Nat, n < Half PROVE ToShort(n) = n
<1>1. n + Half \in Nat /\ n + Half < ShortMod
  BY HalfType
<1>2. (n + Half) % ShortMod = n + Half
  BY <1>1, PingAssumption
<1> QED
  BY <1>2, HalfType DEF ToShort

\* The icmp_seq field has the range of a u_int16_t.
LEMMA ToU16Type == ASSUME NEW n \in Int PROVE ToU16(n) \in 0 .. ShortMod - 1
  BY PingAssumption DEF ToU16

LEMMA ToU16Small == ASSUME NEW n \in Nat, n < ShortMod PROVE ToU16(n) = n
  BY PingAssumption DEF ToU16

\* A message put on the wire is well formed.
LEMMA ReplyType == ASSUME TypeOK, NEW n \in Nat PROVE ReplyTo(n) \in Message
<1>1. Pid % IdMod \in 0 .. IdMod - 1
  BY PingAssumption
<1>2. packet_send \in Int
  BY HalfType DEF TypeOK
<1> QED
  BY <1>1, <1>2, ToU16Type DEF ReplyTo, Message, TypeOK

\* A store to one member of an entry leaves the others alone.
LEMMA SetSeqLaw ==
  ASSUME NEW e \in Entry, NEW n \in -Half .. Half - 1
  PROVE  SetSeq(e, n) = [seq |-> n, flag |-> e.flag, sec |-> e.sec, usec |-> e.usec]
  BY DEF Entry, SetSeq

LEMMA SetFlagLaw ==
  ASSUME NEW e \in Entry, NEW n \in {0, 1}
  PROVE  SetFlag(e, n) = [seq |-> e.seq, flag |-> n, sec |-> e.sec, usec |-> e.usec]
  BY DEF Entry, SetFlag

LEMMA SetSecLaw ==
  ASSUME NEW e \in Entry, NEW n \in Nat
  PROVE  SetSec(e, n) = [seq |-> e.seq, flag |-> e.flag, sec |-> n, usec |-> e.usec]
  BY DEF Entry, SetSec

LEMMA SetUsecLaw ==
  ASSUME NEW e \in Entry, NEW n \in Nat
  PROVE  SetUsec(e, n) = [seq |-> e.seq, flag |-> e.flag, sec |-> e.sec, usec |-> n]
  BY DEF Entry, SetUsec

-----------------------------------------------------------------------------
(* Type correctness. *)

LEMMA InitType == Init => TypeOK
<1> SUFFICES ASSUME Init PROVE TypeOK
  OBVIOUS
<1>1. EmptyEntry \in Entry
  BY HalfType DEF EmptyEntry, Entry
<1>2. NoMessage \in Message
  BY PingAssumption DEF NoMessage, Message
<1>3. 0 \in 0 .. Slots /\ 0 \in -Half .. Half - 1
  BY PingAssumption, HalfType
<1> QED
  BY <1>1, <1>2, <1>3 DEF Init, TypeOK

LEMMA MainType == TypeOK /\ Main => TypeOK'
<1> SUFFICES ASSUME TypeOK, Main PROVE TypeOK'
  OBVIOUS
<1> USE DEF TypeOK, sendVars, recvVars, ghostVars
<1>1. CASE M_Setup
  BY <1>1 DEF M_Setup
<1>2. CASE M_Arm
  BY <1>2 DEF M_Arm
<1>3. CASE M_StartSend
  BY <1>3 DEF M_StartSend
<1>4. CASE M_StartRecv
  BY <1>4 DEF M_StartRecv
<1>5. CASE M_Join
  BY <1>5 DEF M_Join
<1>7. CASE M_JoinMissing
  <2>1. mpc' \in {"stuck", "segv"} /\ spc' \in {spc, "killed"} /\ rpc' \in {rpc, "killed"}
    BY <1>7 DEF M_JoinMissing
  <2> QED
    BY <1>7, <2>1 DEF M_JoinMissing
<1>6. CASE M_Stats
  BY <1>6 DEF M_Stats
<1> QED
  BY <1>1, <1>2, <1>3, <1>4, <1>5, <1>6, <1>7 DEF Main

LEMMA SigIntType == ASSUME TypeOK, NEW t, SigInt(t) PROVE TypeOK'
<1> USE DEF TypeOK, sendVars
<1>1. alive' \in {0, 1} /\ tv_interval' \in {"epoch", "run"} /\ sigs' \in Nat
  BY DEF SigInt, AliveAfterSigint
<1>2. /\ rpc' \in {rpc, "loop"} /\ eintr' \in BOOLEAN
      /\ rpc' \in {"free", "sec", "usec"} => rpc' = rpc
  BY DEF SigInt
<1> QED
  BY <1>1, <1>2 DEF SigInt

LEMMA SenderType == TypeOK /\ Sender => TypeOK'
<1> SUFFICES ASSUME TypeOK, Sender PROVE TypeOK'
  OBVIOUS
<1> USE DEF TypeOK, mainVars, recvVars, ghostVars
<1>0. Slots \in Nat
  BY PingAssumption
<1>1. CASE S_Begin
  BY <1>1 DEF S_Begin
<1>2. CASE S_Loop
  BY <1>2, <1>0 DEF S_Loop
<1>3. CASE S_Scan
  BY <1>3, <1>0 DEF S_Scan
<1>4. CASE S_SetSeq
  <2>1. si \in Index /\ pingpacket[si] \in Entry
    BY <1>4, <1>0 DEF S_SetSeq, Index
  <2>2. SetSeq(pingpacket[si], packet_send) \in Entry
    BY <2>1, SetSeqLaw DEF Entry
  <2> QED
    BY <1>4, <2>1, <2>2 DEF S_SetSeq
<1>5. CASE S_SetFlag
  <2>1. si \in Index /\ pingpacket[si] \in Entry
    BY <1>5, <1>0 DEF S_SetFlag, Index
  <2>2. SetFlag(pingpacket[si], 1) \in Entry
    BY <2>1, SetFlagLaw DEF Entry
  <2> QED
    BY <1>5, <2>1, <2>2 DEF S_SetFlag
<1>6. CASE S_SetSec \/ S_SetUsec
  <2>1. si \in Index /\ pingpacket[si] \in Entry
    BY <1>6, <1>0 DEF S_SetSec, S_SetUsec, Index
  <2>2. SetSec(pingpacket[si], att) \in Entry
    BY <2>1, SetSecLaw DEF Entry
  <2>3. SetUsec(pingpacket[si], att) \in Entry
    BY <2>1, SetUsecLaw DEF Entry
  <2>4. CASE S_SetSec
    BY <2>4, <2>1, <2>2 DEF S_SetSec
  <2>5. CASE S_SetUsec
    BY <2>5, <2>1, <2>3 DEF S_SetUsec
  <2> QED
    BY <1>6, <2>4, <2>5
<1>7. CASE S_Sendto
  <2>1. ReplyTo(att) \in Message
    BY ReplyType
  <2>2. wire' \subseteq Message
    BY <1>7, <2>1 DEF S_Sendto
  <2>3. sent' \subseteq Nat
    BY <1>7 DEF S_Sendto
  <2>4. fails' \in Nat
    BY <1>7 DEF S_Sendto
  <2>5. spc' \in {"inc", "loop"}
    BY <1>7 DEF S_Sendto
  <2> QED
    BY <1>7, <2>2, <2>3, <2>4, <2>5 DEF S_Sendto
<1>8. CASE S_Inc
  <2>1. ToShort(packet_send + 1) \in -Half .. Half - 1
    BY ToShortType, HalfType
  <2> QED
    BY <1>8, <2>1 DEF S_Inc
<1> QED
  BY <1>1, <1>2, <1>3, <1>4, <1>5, <1>6, <1>7, <1>8 DEF Sender

LEMMA ReceiverType == TypeOK /\ Receiver => TypeOK'
<1> SUFFICES ASSUME TypeOK, Receiver PROVE TypeOK'
  OBVIOUS
<1> USE DEF TypeOK, mainVars, sendVars, ghostVars
<1>0. Slots \in Nat /\ Foreign \subseteq Message
  BY PingAssumption
<1>1. CASE R_Loop
  BY <1>1 DEF R_Loop
<1>2. CASE R_Timeout
  BY <1>2 DEF R_Timeout
<1>3. ASSUME NEW m \in wire \cup Foreign, R_Recv(m) PROVE TypeOK'
  BY <1>3, <1>0 DEF R_Recv
<1>4. CASE R_Scan
  BY <1>4, <1>0 DEF R_Scan
<1>5. CASE R_Free
  <2>1. ri \in Index /\ pingpacket[ri] \in Entry
    BY <1>5, <1>0 DEF R_Free, Index
  <2>2. SetFlag(pingpacket[ri], FlagAfterReply(ri)) \in Entry
    BY <2>1, SetFlagLaw DEF Entry, FlagAfterReply
  <2> QED
    BY <1>5, <2>1, <2>2 DEF R_Free
<1>6. CASE R_ReadSec
  <2>1. ri \in Index /\ pingpacket[ri] \in Entry
    BY <1>6, <1>0 DEF R_ReadSec, Index
  <2>2. pingpacket[ri].sec \in Nat
    BY <2>1 DEF Entry
  <2> QED
    BY <1>6, <2>1, <2>2 DEF R_ReadSec
<1>7. CASE R_Count
  <2>1. ToShort(packet_recv + 1) \in -Half .. Half - 1
    BY ToShortType, HalfType
  <2>2. counted' \subseteq Nat
    BY <1>7 DEF R_Count, Message
  <2> QED
    BY <1>7, <2>1, <2>2 DEF R_Count
<1> QED
  BY <1>1, <1>2, <1>3, <1>4, <1>5, <1>6, <1>7 DEF Receiver

LEMMA NextType == TypeOK /\ [Next]_vars => TypeOK'
<1>1. TypeOK /\ UNCHANGED vars => TypeOK'
  BY DEF TypeOK, vars, mainVars, sendVars, recvVars, ghostVars
<1> QED
  BY <1>1, MainType, SenderType, ReceiverType, SigIntType DEF Next

\* Every variable of the ping keeps its type; in particular no index of the
\* table is out of bounds.
THEOREM TypeCorrect == Spec => []TypeOK
  BY InitType, NextType, PTL DEF Spec

-----------------------------------------------------------------------------
(* Control. *)

LEMMA InitControl == Init => ControlInv
  BY DEF Init, ControlInv, Starting

LEMMA ControlStep == TypeOK /\ ControlInv /\ [Next]_vars => ControlInv'
<1> SUFFICES ASSUME TypeOK, ControlInv, [Next]_vars PROVE ControlInv'
  OBVIOUS
<1> USE DEF TypeOK, ControlInv, Starting, Joined, mainVars, sendVars, recvVars, ghostVars
<1>1. CASE M_Setup
  BY <1>1 DEF M_Setup
<1>2. CASE M_Arm
  BY <1>2 DEF M_Arm
<1>3. CASE M_StartSend
  BY <1>3 DEF M_StartSend
<1>4. CASE M_StartRecv
  BY <1>4 DEF M_StartRecv
<1>5. CASE M_Join \/ M_JoinMissing
  BY <1>5 DEF M_Join, M_JoinMissing, Joined
<1>6. CASE M_Stats
  BY <1>6 DEF M_Stats
<1>7. CASE S_Begin
  BY <1>7 DEF S_Begin
<1>8. CASE S_Loop
  BY <1>8 DEF S_Loop, Alive
<1>9. CASE S_Scan
  BY <1>9 DEF S_Scan
<1>10. CASE S_SetSeq
  BY <1>10 DEF S_SetSeq
<1>11. CASE S_SetFlag
  BY <1>11 DEF S_SetFlag
<1>12. CASE S_SetSec \/ S_SetUsec
  BY <1>12 DEF S_SetSec, S_SetUsec
<1>13. CASE S_Sendto
  BY <1>13 DEF S_Sendto
<1>14. CASE S_Inc
  BY <1>14 DEF S_Inc
<1>15. CASE R_Loop
  BY <1>15 DEF R_Loop, Alive
<1>16. CASE R_Timeout
  BY <1>16 DEF R_Timeout
<1>17. ASSUME NEW m \in wire \cup Foreign, R_Recv(m) PROVE ControlInv'
  BY <1>17 DEF R_Recv
<1>18. CASE R_Scan
  BY <1>18 DEF R_Scan
<1>19. CASE R_Free \/ R_ReadSec
  BY <1>19 DEF R_Free, R_ReadSec
<1>20. CASE R_Count
  BY <1>20 DEF R_Count
<1>21. ASSUME NEW t \in {"recv", "other"}, SigInt(t) PROVE ControlInv'
  BY <1>21 DEF SigInt, AliveAfterSigint
<1>22. CASE UNCHANGED vars
  BY <1>22 DEF vars
<1> QED
  BY <1>1, <1>2, <1>3, <1>4, <1>5, <1>6, <1>7, <1>8, <1>9, <1>10, <1>11, <1>12, <1>13, <1>14, <1>15, <1>16, <1>17, <1>18, <1>19, <1>20, <1>21, <1>22
     DEF Next, Main, Sender, Receiver

-----------------------------------------------------------------------------
(* Times. *)

LEMMA InitTime == Init => TimeInv
  BY DEF Init, TimeInv, Sending

LEMMA TimeStep ==
  ASSUME TypeOK, ControlInv, TimeInv, [Next]_vars
  PROVE  TimeInv'
<1> USE DEF TypeOK, ControlInv, TimeInv, Starting, Joined, Sending, mainVars, sendVars, recvVars, ghostVars
<1>1. CASE M_Setup
  BY <1>1 DEF M_Setup
<1>2. CASE M_Arm
  BY <1>2 DEF M_Arm
<1>3. CASE M_StartSend
  BY <1>3 DEF M_StartSend
<1>4. CASE M_StartRecv
  BY <1>4 DEF M_StartRecv
<1>5. CASE M_Join \/ M_JoinMissing
  BY <1>5 DEF M_Join, M_JoinMissing, Joined
<1>6. CASE M_Stats
  BY <1>6 DEF M_Stats
<1>7. CASE S_Begin
  BY <1>7 DEF S_Begin
<1>8. CASE S_Loop
  BY <1>8 DEF S_Loop, Alive
<1>9. CASE S_Scan
  BY <1>9 DEF S_Scan
<1>10. CASE S_SetSeq
  BY <1>10 DEF S_SetSeq
<1>11. CASE S_SetFlag
  BY <1>11 DEF S_SetFlag
<1>12. CASE S_SetSec \/ S_SetUsec
  BY <1>12 DEF S_SetSec, S_SetUsec
<1>13. CASE S_Sendto
  BY <1>13 DEF S_Sendto
<1>14. CASE S_Inc
  BY <1>14 DEF S_Inc
<1>15. CASE R_Loop
  BY <1>15 DEF R_Loop, Alive
<1>16. CASE R_Timeout
  BY <1>16 DEF R_Timeout
<1>17. ASSUME NEW m \in wire \cup Foreign, R_Recv(m) PROVE TimeInv'
  BY <1>17 DEF R_Recv
<1>18. CASE R_Scan
  BY <1>18 DEF R_Scan
<1>19. CASE R_Free \/ R_ReadSec
  BY <1>19 DEF R_Free, R_ReadSec
<1>20. CASE R_Count
  BY <1>20 DEF R_Count
<1>21. ASSUME NEW t \in {"recv", "other"}, SigInt(t) PROVE TimeInv'
  BY <1>21 DEF SigInt, AliveAfterSigint
<1>22. CASE UNCHANGED vars
  BY <1>22 DEF vars
<1> QED
  BY <1>1, <1>2, <1>3, <1>4, <1>5, <1>6, <1>7, <1>8, <1>9, <1>10, <1>11, <1>12,
     <1>13, <1>14, <1>15, <1>16, <1>17, <1>18, <1>19, <1>20, <1>21, <1>22
     DEF Next, Main, Sender, Receiver

-----------------------------------------------------------------------------
(* Messages. *)

\* As long as there was no twin, a packet that icmp_unpack accepts is one of the
\* answers on the wire.
LEMMA OwnOnWire ==
  ASSUME TypeOK, NEW m \in wire \cup Foreign, R_Recv(m), twins' = 0
  PROVE  twins = 0 /\ (Own(m) => m \in wire)
  BY DEF TypeOK, R_Recv, Own, Twin

LEMMA InitWire == Init => WireInv
  BY DEF Init, WireInv, Sending, Matching

LEMMA WireStep ==
  ASSUME TypeOK, TimeInv, WireInv, [Next]_vars
  PROVE  WireInv'
<1> USE DEF TypeOK, TimeInv, WireInv, Sending, Matching, mainVars, sendVars, recvVars, ghostVars
<1>1. CASE M_Setup
  BY <1>1 DEF M_Setup
<1>2. CASE M_Arm
  BY <1>2 DEF M_Arm
<1>3. CASE M_StartSend
  BY <1>3 DEF M_StartSend
<1>4. CASE M_StartRecv
  BY <1>4 DEF M_StartRecv
<1>5. CASE M_Join \/ M_JoinMissing
  BY <1>5 DEF M_Join, M_JoinMissing
<1>6. CASE M_Stats
  BY <1>6 DEF M_Stats
<1>7. CASE S_Begin
  BY <1>7 DEF S_Begin
<1>8. CASE S_Loop
  BY <1>8 DEF S_Loop
<1>9. CASE S_Scan
  BY <1>9 DEF S_Scan
<1>10. CASE S_SetSeq
  BY <1>10 DEF S_SetSeq
<1>11. CASE S_SetFlag
  BY <1>11 DEF S_SetFlag
<1>12. CASE S_SetSec \/ S_SetUsec
  BY <1>12 DEF S_SetSec, S_SetUsec
<1>13. CASE S_Sendto
  <2>1. CASE spc' = "loop"
    BY <1>13, <2>1 DEF S_Sendto
  <2>2. CASE spc' = "inc"
    <3>1. /\ sent' = sent \cup {att} /\ wire' = wire \cup {ReplyTo(att)}
          /\ rpc' = rpc /\ cur' = cur /\ att' = att /\ counted' = counted
          /\ twins' = twins
      BY <1>13, <2>2 DEF S_Sendto
    <3>2. ReplyTo(att).att = att /\ ReplyTo(att).type = "reply"
          /\ ReplyTo(att).id = Pid % IdMod
      BY DEF ReplyTo
    <3>3. att \in 1 .. att
      BY <1>13 DEF S_Sendto
    <3> QED
      BY <2>2, <3>1, <3>2, <3>3
  <2> QED
    BY <1>13, <2>1, <2>2 DEF S_Sendto
<1>14. CASE S_Inc
  BY <1>14 DEF S_Inc
<1>15. CASE R_Loop
  BY <1>15 DEF R_Loop
<1>16. CASE R_Timeout
  BY <1>16 DEF R_Timeout
<1>17. ASSUME NEW m \in wire \cup Foreign, R_Recv(m) PROVE WireInv'
  BY <1>17, OwnOnWire DEF R_Recv
<1>18. CASE R_Scan
  BY <1>18 DEF R_Scan
<1>19. CASE R_Free \/ R_ReadSec
  BY <1>19 DEF R_Free, R_ReadSec
<1>20. CASE R_Count
  BY <1>20 DEF R_Count
<1>21. ASSUME NEW t \in {"recv", "other"}, SigInt(t) PROVE WireInv'
  BY <1>21 DEF SigInt
<1>22. CASE UNCHANGED vars
  BY <1>22 DEF vars
<1> QED
  BY <1>1, <1>2, <1>3, <1>4, <1>5, <1>6, <1>7, <1>8, <1>9, <1>10, <1>11, <1>12,
     <1>13, <1>14, <1>15, <1>16, <1>17, <1>18, <1>19, <1>20, <1>21, <1>22
     DEF Next, Main, Sender, Receiver

-----------------------------------------------------------------------------
(* Duplicates. *)

LEMMA InitNoDup == Init => NoDupInv
  BY DEF Init, NoDupInv, Matching

LEMMA NoDupStep ==
  ASSUME TypeOK, WireInv, NoDupInv, [Next]_vars
  PROVE  NoDupInv'
<1> USE DEF TypeOK, WireInv, NoDupInv, Matching, mainVars, sendVars, recvVars, ghostVars
<1>1. CASE M_Setup
  BY <1>1 DEF M_Setup
<1>2. CASE M_Arm
  BY <1>2 DEF M_Arm
<1>3. CASE M_StartSend
  BY <1>3 DEF M_StartSend
<1>4. CASE M_StartRecv
  BY <1>4 DEF M_StartRecv
<1>5. CASE M_Join \/ M_JoinMissing
  BY <1>5 DEF M_Join, M_JoinMissing
<1>6. CASE M_Stats
  BY <1>6 DEF M_Stats
<1>7. CASE S_Begin
  BY <1>7 DEF S_Begin
<1>8. CASE S_Loop
  BY <1>8 DEF S_Loop
<1>9. CASE S_Scan
  BY <1>9 DEF S_Scan
<1>10. CASE S_SetSeq
  BY <1>10 DEF S_SetSeq
<1>11. CASE S_SetFlag
  BY <1>11 DEF S_SetFlag
<1>12. CASE S_SetSec \/ S_SetUsec
  BY <1>12 DEF S_SetSec, S_SetUsec
<1>13. CASE S_Sendto
  BY <1>13 DEF S_Sendto, ReplyTo, Sending
<1>14. CASE S_Inc
  BY <1>14 DEF S_Inc
<1>15. CASE R_Loop
  BY <1>15 DEF R_Loop
<1>16. CASE R_Timeout
  BY <1>16 DEF R_Timeout
<1>17. ASSUME NEW m \in wire \cup Foreign, R_Recv(m) PROVE NoDupInv'
  BY <1>17, OwnOnWire DEF R_Recv
<1>18. CASE R_Scan
  BY <1>18 DEF R_Scan
<1>19. CASE R_Free \/ R_ReadSec
  BY <1>19 DEF R_Free, R_ReadSec
<1>20. CASE R_Count
  BY <1>20 DEF R_Count
<1>21. ASSUME NEW t \in {"recv", "other"}, SigInt(t) PROVE NoDupInv'
  BY <1>21 DEF SigInt
<1>22. CASE UNCHANGED vars
  BY <1>22 DEF vars
<1> QED
  BY <1>1, <1>2, <1>3, <1>4, <1>5, <1>6, <1>7, <1>8, <1>9, <1>10, <1>11, <1>12,
     <1>13, <1>14, <1>15, <1>16, <1>17, <1>18, <1>19, <1>20, <1>21, <1>22
     DEF Next, Main, Sender, Receiver

-----------------------------------------------------------------------------
(* Counters. *)

\* At most one probe per attempt was transmitted, and at most one answer per
\* probe was counted.
LEMMA SizeBounds ==
  ASSUME TypeOK, TimeInv, WireInv
  PROVE  /\ IsFiniteSet(sent) /\ Cardinality(sent) \in Nat
         /\ twins = 0 => /\ IsFiniteSet(counted) /\ Cardinality(counted) \in Nat
                         /\ Cardinality(counted) <= Cardinality(sent)
         /\ Cardinality(sent) <= att
         /\ (spc \in Sending => Cardinality(sent) < att)
<1> USE DEF TypeOK, WireInv, Sending
<1>1. \A n \in Nat : IsFiniteSet(1 .. n) /\ Cardinality(1 .. n) = n
  BY FS_Interval
<1>2. \A n \in Nat : sent \subseteq 1 .. n =>
                      IsFiniteSet(sent) /\ Cardinality(sent) <= n
  <2> SUFFICES ASSUME NEW n \in Nat, sent \subseteq 1 .. n
               PROVE  IsFiniteSet(sent) /\ Cardinality(sent) <= n
    OBVIOUS
  <2>1. sent \in SUBSET (1 .. n)
    OBVIOUS
  <2>2. IsFiniteSet(sent) /\ Cardinality(sent) <= Cardinality(1 .. n)
    BY <1>1, <2>1, FS_Subset
  <2> QED
    BY <1>1, <2>2
<1>3. IsFiniteSet(sent) /\ Cardinality(sent) <= att
  BY <1>2
<1>4. twins = 0 => IsFiniteSet(counted) /\ Cardinality(counted) <= Cardinality(sent)
  BY <1>3, FS_Subset
<1>5. Cardinality(sent) \in Nat
  BY <1>3, FS_CardinalityType
<1>6. ASSUME spc \in Sending PROVE Cardinality(sent) < att
  <2>1. att # 0 => sent \subseteq 1 .. (att - 1)
    BY <1>6
  <2>2. att # 0
    BY <1>6 DEF TimeInv
  <2>3. att - 1 \in Nat
    BY <2>2
  <2>4. Cardinality(sent) <= att - 1
    <3> DEFINE n == att - 1
    <3>1. n \in Nat /\ sent \subseteq 1 .. n
      BY <2>1, <2>2, <2>3
    <3> HIDE DEF n
    <3>2. Cardinality(sent) <= n
      BY <3>1, <1>2
    <3> QED
      BY <3>2 DEF n
  <2> QED
    BY <2>4, <2>3, <1>5
<1> QED
  BY <1>3, <1>4, <1>5, <1>6, FS_CardinalityType

LEMMA InitCount == Init => CountInv
  BY FS_EmptySet DEF Init, CountInv

LEMMA CountStep ==
  ASSUME TypeOK, ControlInv, TimeInv, WireInv, NoDupInv, CountInv, [Next]_vars
  PROVE  CountInv'
<1> USE DEF TypeOK, CountInv, mainVars, sendVars, recvVars, ghostVars
<1>1. CASE M_Setup
  BY <1>1 DEF M_Setup
<1>2. CASE M_Arm
  BY <1>2 DEF M_Arm
<1>3. CASE M_StartSend
  BY <1>3 DEF M_StartSend, ControlInv, Starting
<1>4. CASE M_StartRecv
  BY <1>4 DEF M_StartRecv
<1>5. CASE M_Join \/ M_JoinMissing
  BY <1>5 DEF M_Join, M_JoinMissing
<1>6. CASE M_Stats
  BY <1>6 DEF M_Stats
<1>7. CASE S_Begin
  BY <1>7 DEF S_Begin
<1>8. CASE S_Loop
  BY <1>8, HalfType DEF S_Loop
<1>9. CASE S_Scan
  BY <1>9 DEF S_Scan
<1>10. CASE S_SetSeq
  BY <1>10 DEF S_SetSeq
<1>11. CASE S_SetFlag
  BY <1>11 DEF S_SetFlag
<1>12. CASE S_SetSec \/ S_SetUsec
  BY <1>12 DEF S_SetSec, S_SetUsec
<1>13. CASE S_Sendto
  <2>1. CASE spc' = "loop"
    BY <1>13, <2>1 DEF S_Sendto
  <2>2. CASE spc' = "inc"
    <3>1. /\ sent' = sent \cup {att} /\ att' = att /\ counted' = counted
          /\ packet_send' = packet_send /\ packet_recv' = packet_recv
          /\ dups' = dups /\ twins' = twins /\ spc # "inc"
      BY <1>13, <2>2 DEF S_Sendto
    <3>2. att \notin sent
      BY <1>13 DEF S_Sendto, WireInv, Sending
    <3>3. Cardinality(sent') = Cardinality(sent) + 1
      BY <3>1, <3>2, SizeBounds, FS_AddElement
    <3> QED
      BY <2>2, <3>1, <3>3, SizeBounds
  <2> QED
    BY <1>13, <2>1, <2>2 DEF S_Sendto
<1>14. CASE S_Inc
  <2>1. att < Half => ToShort(packet_send + 1) = packet_send + 1
    <3> SUFFICES ASSUME att < Half PROVE ToShort(packet_send + 1) = packet_send + 1
      OBVIOUS
    <3>1. packet_send + 1 = Cardinality(sent)
      BY <1>14, SizeBounds, HalfType DEF S_Inc
    <3> QED
      BY <3>1, ToShortSmall, SizeBounds, HalfType
  <2>2. /\ att' = att /\ sent' = sent /\ counted' = counted /\ dups' = dups
        /\ twins' = twins /\ packet_recv' = packet_recv /\ spc = "inc" /\ spc' = "loop"
        /\ packet_send' = ToShort(packet_send + 1)
    BY <1>14 DEF S_Inc
  <2> QED
    BY <2>1, <2>2, SizeBounds, HalfType
<1>15. CASE R_Loop
  BY <1>15 DEF R_Loop
<1>16. CASE R_Timeout
  BY <1>16 DEF R_Timeout
<1>17. ASSUME NEW m \in wire \cup Foreign, R_Recv(m) PROVE CountInv'
  BY <1>17 DEF R_Recv
<1>18. CASE R_Scan
  BY <1>18 DEF R_Scan
<1>19. CASE R_Free \/ R_ReadSec
  BY <1>19 DEF R_Free, R_ReadSec
<1>20. CASE R_Count
  <2>1. /\ att' = att /\ sent' = sent /\ counted' = counted \cup {cur.att}
        /\ dups' = dups /\ twins' = twins /\ packet_recv' = ToShort(packet_recv + 1)
        /\ spc' = spc /\ packet_send' = packet_send
    BY <1>20 DEF R_Count
  <2>2. att < Half /\ dups = 0 /\ twins = 0 => packet_recv' = Cardinality(counted')
    <3> SUFFICES ASSUME att < Half, dups = 0, twins = 0 PROVE packet_recv' = Cardinality(counted')
      OBVIOUS
    <3>1. cur.att \notin counted /\ cur.att \in sent
      BY <1>20 DEF R_Count, NoDupInv, WireInv, Matching
    <3>2. Cardinality(counted') = Cardinality(counted) + 1
      BY <2>1, <3>1, SizeBounds, FS_AddElement
    <3>3. counted' \in SUBSET sent
      BY <2>1, <3>1 DEF WireInv
    <3>4. Cardinality(counted') <= Cardinality(sent)
      BY <3>3, SizeBounds, FS_Subset
    <3>5. packet_recv + 1 \in Nat /\ packet_recv + 1 < Half
      BY <3>2, <3>4, SizeBounds, HalfType
    <3> QED
      BY <2>1, <3>2, <3>5, ToShortSmall
  <2> QED
    BY <2>1, <2>2, SizeBounds
<1>21. ASSUME NEW t \in {"recv", "other"}, SigInt(t) PROVE CountInv'
  BY <1>21 DEF SigInt
<1>22. CASE UNCHANGED vars
  BY <1>22 DEF vars
<1> QED
  BY <1>1, <1>2, <1>3, <1>4, <1>5, <1>6, <1>7, <1>8, <1>9, <1>10, <1>11, <1>12,
     <1>13, <1>14, <1>15, <1>16, <1>17, <1>18, <1>19, <1>20, <1>21, <1>22
     DEF Next, Main, Sender, Receiver

-----------------------------------------------------------------------------
(* Every count of an answer has a cause. *)

\* Neither an answer nor a cause is counted when it is taken back: the left side of
\* AccountInv grows only with a probe, a duplicate or a twin.
LEMMA AccountStep ==
  ASSUME TypeOK, SummaryInv, AccountInv, [Next]_vars
  PROVE  AccountInv'
<1> USE DEF mainVars, sendVars, recvVars, ghostVars
<1>0. /\ Half \in Nat /\ att \in Nat /\ dups \in Nat /\ twins \in Nat /\ packet_recv \in Int
      /\ Cardinality(sent) \in Nat /\ IsFiniteSet(sent)
      /\ IsFiniteSet(wire) /\ Cardinality(wire) \in Nat
      /\ BeingMatched \in {0, 1} /\ BeingMatched' \in {0, 1}
  BY HalfType, SizeBounds, FS_CardinalityType
  DEF TypeOK, SummaryInv, AccountInv, BeingMatched
<1> DEFINE goal == /\ IsFiniteSet(wire')
                   /\ att' + dups' + twins' < Half =>
                        /\ packet_recv' >= 0
                        /\ packet_recv' + BeingMatched' + Cardinality(wire')
                             <= Cardinality(sent') + dups' + twins'
<1>a. SUFFICES goal
  BY DEF AccountInv
\* Enough that the left side grows no more than the right side does.
<1>b. ASSUME IsFiniteSet(wire'), Cardinality(wire') \in Nat, Cardinality(sent') \in Nat,
             att' \in {att, att + 1}, packet_recv' = packet_recv,
             NEW d \in {0, 1}, dups' = dups + d, NEW z \in {0, 1}, twins' = twins + z,
             BeingMatched' + Cardinality(wire') + Cardinality(sent)
               <= BeingMatched + Cardinality(wire) + Cardinality(sent') + d + z
      PROVE  goal
  <2>1. PICK a, a1, e, e1, t, t1 \in Nat :
          /\ a = att /\ a1 = att' /\ e = dups /\ e1 = dups' /\ t = twins /\ t1 = twins'
    BY <1>0, <1>b
  <2>2. a <= a1 /\ e1 = e + d /\ t1 = t + z
    BY <1>0, <1>b, <2>1
  <2>3. PICK p, b, b1, k, k1, c, c1 \in Int :
          /\ p = packet_recv /\ b = BeingMatched /\ b1 = BeingMatched'
          /\ k = Cardinality(wire) /\ k1 = Cardinality(wire')
          /\ c = Cardinality(sent) /\ c1 = Cardinality(sent')
    BY <1>0, <1>b
  <2>4. b1 + k1 + c <= b + k + c1 + d + z /\ packet_recv' = p
    BY <1>b, <2>3
  <2>5. CASE a1 + e1 + t1 < Half
    <3>1. a + e + t < Half
      BY <1>0, <2>2, <2>5
    <3>2. p >= 0 /\ p + b + k <= c + e + t
      BY <2>1, <2>3, <3>1 DEF AccountInv
    <3>3. p + b1 + k1 <= c1 + e1 + t1
      BY <2>2, <2>4, <3>2
    <3> QED
      BY <1>b, <2>1, <2>3, <2>4, <3>2, <3>3
  <2> QED
    BY <1>b, <2>1, <2>5
<1> HIDE DEF goal
<1>c. ASSUME UNCHANGED <<packet_recv, wire, sent, dups, twins>>, att' \in {att, att + 1},
             rpc' \in Matching => rpc \in Matching
      PROVE  goal
  <2>1. BeingMatched' \in {0, BeingMatched}
    BY <1>c DEF BeingMatched, Matching
  <2>2. /\ Cardinality(wire') = Cardinality(wire) /\ Cardinality(sent') = Cardinality(sent)
        /\ IsFiniteSet(wire') /\ dups' = dups + 0 /\ twins' = twins + 0
    BY <1>0, <1>c
  <2>3. BeingMatched' + Cardinality(wire') + Cardinality(sent)
          <= BeingMatched + Cardinality(wire) + Cardinality(sent') + 0 + 0
    BY <1>0, <2>1, <2>2
  <2> QED
    BY <1>0, <1>b, <1>c, <2>2, <2>3
<1>1. CASE Main
  <2>1. /\ UNCHANGED <<packet_recv, wire, sent, att, dups, twins>>
        /\ rpc' \in Matching => rpc \in Matching
    BY <1>1 DEF Main, M_Setup, M_Arm, M_StartSend, M_StartRecv, M_Join, M_JoinMissing,
                M_Stats, Matching
  <2> QED
    BY <1>c, <2>1
<1>2. CASE S_Begin \/ S_Loop \/ S_Scan \/ S_SetSeq \/ S_SetFlag \/ S_SetSec \/ S_SetUsec \/ S_Inc
  <2>1. /\ UNCHANGED <<packet_recv, wire, sent, dups, twins, rpc>>
        /\ att' \in {att, att + 1}
    BY <1>2 DEF S_Begin, S_Loop, S_Scan, S_SetSeq, S_SetFlag, S_SetSec, S_SetUsec, S_Inc
  <2> QED
    BY <1>c, <2>1
<1>4. CASE S_Sendto
  <2>1. UNCHANGED <<packet_recv, att, dups, twins, rpc>>
    BY <1>4 DEF S_Sendto
  <2>2. CASE spc' = "inc"
    <3>1. wire' = wire \cup {ReplyTo(att)} /\ sent' = sent \cup {att} /\ att \notin sent
      BY <1>4, <2>2 DEF S_Sendto, SummaryInv, WireInv, Sending
    <3>2. Cardinality(sent') = Cardinality(sent) + 1
      BY <1>0, <3>1, FS_AddElement
    <3>3. /\ IsFiniteSet(wire') /\ Cardinality(wire') \in Nat
          /\ Cardinality(wire') \in {Cardinality(wire), Cardinality(wire) + 1}
      BY <1>0, <3>1, FS_AddElement, FS_CardinalityType
    <3>4. BeingMatched' = BeingMatched /\ dups' = dups + 0 /\ twins' = twins + 0
      BY <1>0, <2>1 DEF BeingMatched
    <3>5. BeingMatched' + Cardinality(wire') + Cardinality(sent)
            <= BeingMatched + Cardinality(wire) + Cardinality(sent') + 0 + 0
      BY <1>0, <3>2, <3>3, <3>4
    <3>6. Cardinality(sent') \in Nat /\ att' \in {att, att + 1} /\ packet_recv' = packet_recv
      BY <1>0, <2>1, <3>2
    <3> QED
      BY <1>b, <3>3, <3>4, <3>5, <3>6
  <2>3. CASE spc' = "loop"
    <3>1. UNCHANGED <<wire, sent>>
      BY <1>4, <2>3 DEF S_Sendto
    <3> QED
      BY <1>c, <2>1, <3>1
  <2> QED
    BY <1>4, <2>2, <2>3 DEF S_Sendto
<1>5. CASE R_Loop \/ R_Timeout \/ R_Scan \/ R_Free \/ R_ReadSec
  <2>1. /\ UNCHANGED <<packet_recv, wire, sent, att, dups, twins>>
        /\ rpc' \in Matching => rpc \in Matching
    BY <1>5 DEF R_Loop, R_Timeout, R_Scan, R_Free, R_ReadSec, Matching
  <2> QED
    BY <1>c, <2>1
<1>6. ASSUME NEW m \in wire \cup Foreign, R_Recv(m) PROVE goal
  <2>1. UNCHANGED <<packet_recv, sent, att>> /\ BeingMatched = 0
    BY <1>6 DEF R_Recv, BeingMatched, Matching
  <2>2. BeingMatched' = 1 => m \in wire \/ twins' = twins + 1
    BY <1>6 DEF R_Recv, Own, Twin, BeingMatched, Matching
  <2>3. PICK z \in {0, 1} : twins' = twins + z
    <3>1. twins' = twins + 0 \/ twins' = twins + 1
      BY <1>0, <1>6 DEF R_Recv
    <3> QED
      BY <3>1
  <2>4. Cardinality(sent') = Cardinality(sent)
    BY <2>1
  <2>5. CASE wire' = wire \ {m} /\ dups' = dups
    <3>1. IsFiniteSet(wire') /\ Cardinality(wire') \in Nat
      BY <1>0, <2>5, FS_RemoveElement, FS_CardinalityType
    <3>2. BeingMatched' + Cardinality(wire') <= Cardinality(wire) + z
      <4>1. CASE m \in wire
        <5>1. Cardinality(wire') = Cardinality(wire) - 1
          BY <1>0, <2>5, <4>1, FS_RemoveElement
        <5> QED
          BY <1>0, <2>3, <5>1
      <4>2. CASE m \notin wire
        <5>1. wire' = wire
          BY <2>5, <4>2
        <5>2. BeingMatched' = 0 \/ z = 1
          BY <1>0, <2>2, <2>3, <4>2
        <5> QED
          BY <1>0, <2>3, <5>1, <5>2
      <4> QED
        BY <4>1, <4>2
    <3>3. BeingMatched' + Cardinality(wire') + Cardinality(sent)
            <= BeingMatched + Cardinality(wire) + Cardinality(sent') + 0 + z
      BY <1>0, <2>1, <2>3, <2>4, <3>1, <3>2
    <3>4. dups' = dups + 0
      BY <1>0, <2>5
    <3> QED
      BY <1>0, <1>b, <2>1, <2>3, <2>4, <3>1, <3>3, <3>4
  <2>6. CASE wire' = wire /\ dups' = dups + 1
    <3>1. Cardinality(wire') = Cardinality(wire)
      BY <2>6
    <3>2. BeingMatched' + Cardinality(wire') + Cardinality(sent)
            <= BeingMatched + Cardinality(wire) + Cardinality(sent') + 1 + z
      BY <1>0, <2>1, <2>3, <2>4, <3>1
    <3> QED
      BY <1>0, <1>b, <2>1, <2>3, <2>4, <2>6, <3>2
  <2> QED
    BY <1>6, <2>5, <2>6 DEF R_Recv
<1>7. CASE R_Count
  <2>1. /\ UNCHANGED <<wire, sent, att, dups, twins>>
        /\ BeingMatched = 1 /\ BeingMatched' = 0
        /\ packet_recv' = ToShort(packet_recv + 1)
    BY <1>7 DEF R_Count, BeingMatched, Matching
  <2>2. CASE att + dups + twins < Half
    <3>1. /\ packet_recv >= 0
          /\ packet_recv + 1 + Cardinality(wire) <= Cardinality(sent) + dups + twins
      BY <2>1, <2>2 DEF AccountInv
    <3>2. Cardinality(sent) <= att
      BY SizeBounds DEF SummaryInv
    <3>3. packet_recv + 1 \in Nat /\ packet_recv + 1 < Half
      BY <1>0, <2>2, <3>1, <3>2
    <3>4. packet_recv' = packet_recv + 1
      BY <2>1, <3>3, ToShortSmall
    <3> QED
      BY <1>0, <2>1, <3>1, <3>4 DEF goal
  <2> QED
    BY <1>0, <2>1, <2>2 DEF goal
<1>8. ASSUME NEW t \in {"recv", "other"}, SigInt(t) PROVE goal
  <2>1. /\ UNCHANGED <<packet_recv, wire, sent, att, dups, twins>>
        /\ rpc' \in Matching => rpc \in Matching
    BY <1>8 DEF SigInt, Matching
  <2> QED
    BY <1>c, <2>1
<1>9. CASE UNCHANGED vars
  BY <1>c, <1>9 DEF vars
<1> QED
  BY <1>1, <1>2, <1>4, <1>5, <1>6, <1>7, <1>8, <1>9 DEF Next, Sender, Receiver

-----------------------------------------------------------------------------

LEMMA SummaryInvariant == Spec => [](TypeOK /\ SummaryInv)
<1>1. Init => TypeOK /\ SummaryInv
  BY InitType, InitControl, InitTime, InitWire, InitNoDup, InitCount
  DEF SummaryInv
<1>2. TypeOK /\ SummaryInv /\ [Next]_vars => (TypeOK /\ SummaryInv)'
  BY NextType, ControlStep, TimeStep, WireStep, NoDupStep, CountStep
  DEF SummaryInv
<1> QED
  BY <1>1, <1>2, PTL DEF Spec

\* icmp_recv never throws a packet away on account of an old EINTR.
THEOREM NeverStaleEintr == Spec => []NoStaleEintr
<1>1. TypeOK /\ SummaryInv => NoStaleEintr
  BY DEF SummaryInv, ControlInv, NoStaleEintr
<1> QED
  BY <1>1, SummaryInvariant, PTL

\* packet_recv never exceeds the probes, duplicates and twins there have been.
THEOREM ReceivedIsAccounted == Spec => []ReceivedAccounted
<1>1. Init => AccountInv
  BY FS_EmptySet, PingAssumption DEF Init, AccountInv, BeingMatched, Matching
<1>2. TypeOK /\ SummaryInv /\ AccountInv /\ [Next]_vars => AccountInv'
  BY AccountStep
<1>3. ASSUME TypeOK, SummaryInv, AccountInv PROVE ReceivedAccounted
  <2>1. Cardinality(wire) \in Nat /\ Cardinality(sent) \in Nat /\ BeingMatched \in {0, 1}
    BY <1>3, SizeBounds, FS_CardinalityType DEF AccountInv, SummaryInv, BeingMatched
  <2> QED
    BY <1>3, <2>1 DEF AccountInv, ReceivedAccounted, TypeOK
<1> QED
  BY <1>1, <1>2, <1>3, SummaryInvariant, PTL DEF Spec

\* A printed summary shows a time measured from the start of icmp_send.
THEOREM SummaryTime == Spec => []SummaryTimeMeasured
<1>1. TypeOK /\ SummaryInv => SummaryTimeMeasured
  BY DEF TypeOK, SummaryInv, ControlInv, TimeInv, Joined, Sending, SummaryTimeMeasured
<1> QED
  BY <1>1, SummaryInvariant, PTL

\* A printed summary counts transmitted and answered probes exactly, when no
\* reply was duplicated, no other ping has this one's 16 bits of pid and no short
\* wrapped.
THEOREM SummaryCounts == Spec => []SummaryExact
<1>1. ASSUME TypeOK, SummaryInv PROVE SummaryExact
  BY <1>1, SizeBounds
  DEF SummaryInv, ControlInv, CountInv, Joined, SummaryExact
<1> QED
  BY <1>1, SummaryInvariant, PTL

\* icmp_statistics divides by zero only if no probe was transmitted, when no
\* short wrapped.
THEOREM CrashUnsent == Spec => []DividesByZeroOnlyUnsent
<1>1. ASSUME TypeOK, SummaryInv PROVE DividesByZeroOnlyUnsent
  <2> SUFFICES ASSUME mpc = "crash", att < Half PROVE sent = {}
    BY DEF DividesByZeroOnlyUnsent
  <2>1. packet_send = 0 /\ spc # "inc"
    BY <1>1 DEF SummaryInv, ControlInv, TimeInv, Joined
  <2>2. Cardinality(sent) = 0
    BY <1>1, <2>1, SizeBounds DEF SummaryInv, CountInv
  <2> QED
    BY <1>1, <2>2, SizeBounds, FS_EmptySet DEF SummaryInv
<1> QED
  BY <1>1, SummaryInvariant, PTL

\* The summary is right, and there is one, wherever SIGINT found the threads.
THEOREM SummaryIsRight == Spec => []SummaryRight
<1>1. SummaryExact /\ DividesByZeroOnlyUnsent => SummaryRight
  BY DEF SummaryRight
<1> QED
  BY <1>1, SummaryCounts, CrashUnsent, PTL

-----------------------------------------------------------------------------
(* What the five stores do to the table. *)

LEMMA StoreSeq ==
  ASSUME TypeOK, S_SetSeq
  PROVE  /\ si \in Index /\ pingpacket \in [Index -> Entry]
         /\ pingpacket' = [pingpacket EXCEPT ![si] =
                [seq |-> packet_send, flag |-> pingpacket[si].flag,
                 sec |-> pingpacket[si].sec, usec |-> pingpacket[si].usec]]
<1>1. si \in Index /\ pingpacket \in [Index -> Entry]
  BY PingAssumption DEF TypeOK, S_SetSeq, Index
<1>2. packet_send \in -Half .. Half - 1
  BY DEF TypeOK
<1> QED
  BY <1>1, <1>2, SetSeqLaw DEF S_SetSeq

LEMMA StoreFlag ==
  ASSUME TypeOK, S_SetFlag
  PROVE  /\ si \in Index /\ pingpacket \in [Index -> Entry]
         /\ pingpacket' = [pingpacket EXCEPT ![si] =
                [seq |-> pingpacket[si].seq, flag |-> 1,
                 sec |-> pingpacket[si].sec, usec |-> pingpacket[si].usec]]
<1>1. si \in Index /\ pingpacket \in [Index -> Entry]
  BY PingAssumption DEF TypeOK, S_SetFlag, Index
<1> QED
  BY <1>1, SetFlagLaw DEF S_SetFlag

LEMMA StoreSec ==
  ASSUME TypeOK, S_SetSec
  PROVE  /\ si \in Index /\ pingpacket \in [Index -> Entry]
         /\ pingpacket' = [pingpacket EXCEPT ![si] =
                [seq |-> pingpacket[si].seq, flag |-> pingpacket[si].flag,
                 sec |-> att, usec |-> pingpacket[si].usec]]
<1>1. si \in Index /\ pingpacket \in [Index -> Entry] /\ att \in Nat
  BY PingAssumption DEF TypeOK, S_SetSec, Index
<1> QED
  BY <1>1, SetSecLaw DEF S_SetSec

LEMMA StoreUsec ==
  ASSUME TypeOK, S_SetUsec
  PROVE  /\ si \in Index /\ pingpacket \in [Index -> Entry]
         /\ pingpacket' = [pingpacket EXCEPT ![si] =
                [seq |-> pingpacket[si].seq, flag |-> pingpacket[si].flag,
                 sec |-> pingpacket[si].sec, usec |-> att]]
<1>1. si \in Index /\ pingpacket \in [Index -> Entry] /\ att \in Nat
  BY PingAssumption DEF TypeOK, S_SetUsec, Index
<1> QED
  BY <1>1, SetUsecLaw DEF S_SetUsec

LEMMA Release ==
  ASSUME TypeOK, R_Free
  PROVE  /\ ri \in Index /\ pingpacket \in [Index -> Entry]
         /\ pingpacket' = [pingpacket EXCEPT ![ri] =
                [seq |-> pingpacket[ri].seq, flag |-> 0,
                 sec |-> pingpacket[ri].sec, usec |-> pingpacket[ri].usec]]
<1>1. ri \in Index /\ pingpacket \in [Index -> Entry]
  BY PingAssumption DEF TypeOK, R_Free, Index
<1> QED
  BY <1>1, SetFlagLaw DEF R_Free, FlagAfterReply

-----------------------------------------------------------------------------
(* Held messages. *)

\* A Clean state has Clean predecessors.
LEMMA CleanBefore ==
  ASSUME TypeOK, [Next]_vars, Clean'
  PROVE  Clean /\ dups' = dups /\ twins' = twins /\ fails' = fails
<1>1. dups' >= dups /\ twins' >= twins /\ fails' >= fails /\ att' >= att
  BY DEF TypeOK, Next, Main, M_Setup, M_Arm, M_StartSend, M_StartRecv, M_Join, M_JoinMissing,
         M_Stats, Sender, S_Begin, S_Loop, S_Scan, S_SetSeq, S_SetFlag, S_SetSec, S_SetUsec,
         S_Sendto, S_Inc, Receiver, R_Loop, R_Timeout, R_Recv, R_Scan, R_Free, R_ReadSec,
         R_Count, SigInt, vars, mainVars, sendVars, recvVars, ghostVars
<1> QED
  BY <1>1, NextType, HalfType DEF Clean, TypeOK

\* A held message answers a probe that was sent, and no two answer the same one.
LEMMA HeldFacts ==
  ASSUME TypeOK, SummaryInv, dups = 0, twins = 0
  PROVE  /\ \A m \in Held : /\ m \in Message /\ m.att \in sent
                            /\ m.att \in 1 .. att
                            /\ (spc \in Sending => m.att < att)
         /\ \A m, n \in Held : m.att = n.att => m = n
<1>1. \A m \in Held : m \in Message /\ m.att \in sent
  BY DEF TypeOK, SummaryInv, WireInv, Held, Matching
<1>2. \A n \in sent : n \in 1 .. att /\ (spc \in Sending => n < att)
  BY DEF TypeOK, SummaryInv, WireInv
<1>3. \A m, n \in Held : m.att = n.att => m = n
  BY DEF SummaryInv, NoDupInv, Held, Matching
<1> QED
  BY <1>1, <1>2, <1>3

\* A thread that main never created has sent nothing, so that nothing is in the
\* other's hands.
LEMMA MissingIdle ==
  ASSUME TypeOK, SummaryInv, twins = 0, M_JoinMissing
  PROVE  rpc \notin Matching /\ spc \in {"none", "end"}
<1>1. spc = "none" => att = 0
  BY DEF SummaryInv, TimeInv
<1>2. att = 0 => sent = {}
  BY DEF SummaryInv, WireInv
<1>3. rpc \in Matching => cur.att \in sent
  BY DEF SummaryInv, WireInv
<1> QED
  BY <1>1, <1>2, <1>3 DEF M_JoinMissing, Matching

\* Only a transmission adds a held message; only a release, or a scan that
\* found no entry, removes one.
LEMMA KeepsHeld ==
  ASSUME TypeOK, SummaryInv, Undisturbed, Undisturbed', [Next]_vars,
         ~(spc = "sendto" /\ spc' = "inc"), ~(rpc = "free" /\ rpc' = "sec"),
         ~(rpc = "scan" /\ rpc' = "loop")
  PROVE  Held' = Held
<1> USE DEF Held, mainVars, sendVars, recvVars, ghostVars
<1>1. ASSUME NEW m \in wire \cup Foreign, R_Recv(m) PROVE Held' = Held
  <2>1. ~eintr
    BY <1>1 DEF R_Recv, SummaryInv, ControlInv
  <2>2. wire' = wire \ {m}
    BY <1>1 DEF R_Recv, Undisturbed
  <2>3. CASE m \in wire
    <3>1. Pid % IdMod = Pid
      BY PingAssumption DEF Undisturbed
    <3>2. Own(m)
      BY <2>3, <3>1 DEF SummaryInv, WireInv, Own
    <3> QED
      BY <1>1, <2>1, <2>2, <2>3, <3>2 DEF R_Recv
  <2>4. CASE m \notin wire
    <3>1. ~Own(m)
      BY <1>1, <2>4, OwnOnWire DEF Undisturbed
    <3> QED
      BY <1>1, <2>2, <2>4, <3>1 DEF R_Recv
  <2> QED
    BY <2>3, <2>4
<1>2. CASE M_JoinMissing
  BY <1>2, MissingIdle DEF M_JoinMissing, Undisturbed, Matching
<1>m. CASE Main /\ ~M_JoinMissing
  BY <1>m DEF Main, M_Setup, M_Arm, M_StartSend, M_StartRecv, M_Join, M_Stats,
              SummaryInv, ControlInv, Starting
<1>3. CASE Sender
  BY <1>3 DEF Sender, S_Begin, S_Loop, S_Scan, S_SetSeq, S_SetFlag, S_SetSec, S_SetUsec,
              S_Sendto, S_Inc
<1>4. CASE R_Loop \/ R_Timeout \/ R_Scan \/ R_Free \/ R_ReadSec \/ R_Count
  BY <1>4 DEF R_Loop, R_Timeout, R_Scan, R_Free, R_ReadSec, R_Count
<1>5. ASSUME NEW t \in {"recv", "other"}, SigInt(t) PROVE Held' = Held
  BY <1>5 DEF SigInt
<1>6. CASE UNCHANGED vars
  BY <1>6 DEF vars
<1> QED
  BY <1>1, <1>2, <1>m, <1>3, <1>4, <1>5, <1>6 DEF Next, Receiver

LEMMA HeldSent ==
  ASSUME S_Sendto, spc' = "inc"
  PROVE  Held' = Held \cup {ReplyTo(att)}
  BY DEF S_Sendto, Held, mainVars, recvVars

LEMMA DropsHeld ==
  ASSUME TypeOK, SummaryInv, Undisturbed, R_Free \/ (R_Scan /\ rpc' = "loop")
  PROVE  Held' = Held \ {cur}
<1>1. cur \notin wire
  BY DEF R_Free, R_Scan, SummaryInv, NoDupInv, Matching, Undisturbed
<1> QED
  BY <1>1 DEF R_Free, R_Scan, Held, mainVars, sendVars

LEMMA HeldSame ==
  ASSUME TypeOK, SummaryInv, Clean, Clean', [Next]_vars,
         ~(spc = "sendto" /\ spc' = "inc"), ~(rpc = "free" /\ rpc' = "sec"),
         ~(rpc = "scan" /\ rpc' = "loop")
  PROVE  Held' = Held
  BY KeepsHeld DEF Clean, Undisturbed

LEMMA HeldReleased ==
  ASSUME TypeOK, SummaryInv, Clean, R_Free \/ (R_Scan /\ rpc' = "loop")
  PROVE  Held' = Held \ {cur}
  BY DropsHeld DEF Clean, Undisturbed

\* Whatever the step, a message held after it was held before or is the probe
\* just sent.
LEMMA HeldNext ==
  ASSUME TypeOK, SummaryInv, Clean, Clean', [Next]_vars, NEW m \in Held'
  PROVE  m \in Held \/ (S_Sendto /\ spc' = "inc" /\ m = ReplyTo(att))
<1>1. spc = "sendto" /\ spc' = "inc" => S_Sendto
  BY DEF Next, Main, M_Setup, M_Arm, M_StartSend, M_StartRecv, M_Join, M_JoinMissing, M_Stats,
         Sender, S_Begin, S_Loop, S_Scan, S_SetSeq, S_SetFlag, S_SetSec, S_SetUsec, S_Inc,
         Receiver, R_Loop, R_Timeout, R_Recv, R_Scan, R_Free, R_ReadSec, R_Count, SigInt,
         vars, mainVars, sendVars
<1>2. rpc = "free" /\ rpc' = "sec" => R_Free
  BY DEF Next, Main, M_Setup, M_Arm, M_StartSend, M_StartRecv, M_Join, M_JoinMissing, M_Stats,
         Sender, S_Begin, S_Loop, S_Scan, S_SetSeq, S_SetFlag, S_SetSec, S_SetUsec, S_Sendto,
         S_Inc, Receiver, R_Loop, R_Timeout, R_Recv, R_Scan, R_ReadSec, R_Count, SigInt,
         vars, recvVars
<1>3. rpc = "scan" /\ rpc' = "loop" => R_Scan
  BY DEF Next, Main, M_Setup, M_Arm, M_StartSend, M_StartRecv, M_Join, M_JoinMissing, M_Stats,
         Sender, S_Begin, S_Loop, S_Scan, S_SetSeq, S_SetFlag, S_SetSec, S_SetUsec, S_Sendto,
         S_Inc, Receiver, R_Loop, R_Timeout, R_Recv, R_Free, R_ReadSec, R_Count, SigInt,
         vars, recvVars, SummaryInv, ControlInv, Starting
<1> QED
  BY <1>1, <1>2, <1>3, HeldSame, HeldSent, HeldReleased

\* The number of the probe in hand, in the reply as in the sender.
LEMMA ReplyNumber ==
  ASSUME TypeOK, SummaryInv, Clean, NumberInv, S_Sendto
  PROVE  /\ ReplyTo(att).seq = att - 1 /\ ReplyTo(att).att = att
         /\ ReplyTo(att).slot = si /\ att - 1 \in Nat
<1>1. att \in Nat /\ att > 0 /\ att <= Half /\ packet_send = att - 1
  BY DEF S_Sendto, NumberInv, Sending, Clean, TypeOK, SummaryInv, TimeInv
<1>2. att - 1 \in Nat /\ att - 1 < ShortMod
  BY <1>1, HalfType
<1> QED
  BY <1>1, <1>2, ToU16Small DEF ReplyTo

-----------------------------------------------------------------------------
(* Probe numbers. *)

LEMMA NumberStep ==
  ASSUME TypeOK, SummaryInv, Clean, Clean', NumberInv, [Next]_vars
  PROVE  NumberInv'
<1> DEFINE Busy == spc \in Sending \cup {"inc"}
           Numbers == /\ (Busy => packet_send = att - 1)
                      /\ (~Busy /\ att < Half => packet_send = att)
           InHand == rpc \in Matching => cur.seq = cur.att - 1
<1> USE DEF mainVars, sendVars, recvVars, ghostVars
<1>1. Numbers'
  <2> USE DEF NumberInv, Sending, TypeOK
  <2>1. CASE S_Loop
    BY <2>1, HalfType DEF S_Loop, Clean
  <2>2. CASE S_Inc
    <3>1. packet_send = att - 1 /\ att > 0
      BY <2>2 DEF S_Inc, SummaryInv, TimeInv
    <3>2. att < Half => ToShort(packet_send + 1) = att
      BY <3>1, ToShortSmall, HalfType
    <3> QED
      BY <2>2, <3>2 DEF S_Inc
  <2>3. CASE S_Sendto
    <3>1. spc' = "inc"
      BY <2>3 DEF S_Sendto, Clean
    <3> QED
      BY <2>3, <3>1 DEF S_Sendto
  <2>4. CASE S_Begin \/ S_Scan \/ S_SetSeq \/ S_SetFlag \/ S_SetSec \/ S_SetUsec
    BY <2>4 DEF S_Begin, S_Scan, S_SetSeq, S_SetFlag, S_SetSec, S_SetUsec
  <2>5. CASE Main
    BY <2>5 DEF Main, M_Setup, M_Arm, M_StartSend, M_StartRecv, M_Join, M_JoinMissing, M_Stats,
                SummaryInv, ControlInv, Starting
  <2>6. CASE Receiver
    BY <2>6 DEF Receiver, R_Loop, R_Timeout, R_Recv, R_Scan, R_Free, R_ReadSec, R_Count
  <2>7. ASSUME NEW t \in {"recv", "other"}, SigInt(t) PROVE Numbers'
    BY <2>7 DEF SigInt
  <2>8. CASE UNCHANGED vars
    BY <2>8 DEF vars
  <2> QED
    BY <2>1, <2>2, <2>3, <2>4, <2>5, <2>6, <2>7, <2>8 DEF Next, Sender
<1>2. \A m \in Held' : m.seq = m.att - 1
  BY HeldNext, ReplyNumber DEF NumberInv
<1>3. InHand'
  <2> USE DEF NumberInv, Matching
  <2>1. ASSUME NEW m \in wire \cup Foreign, R_Recv(m) PROVE InHand'
    BY <2>1, OwnOnWire DEF R_Recv, Held, Clean
  <2>2. CASE R_Loop \/ R_Timeout \/ R_Scan \/ R_Free \/ R_ReadSec \/ R_Count
    BY <2>2 DEF R_Loop, R_Timeout, R_Scan, R_Free, R_ReadSec, R_Count
  <2>3. CASE Main
    BY <2>3 DEF Main, M_Setup, M_Arm, M_StartSend, M_StartRecv, M_Join, M_JoinMissing, M_Stats
  <2>4. CASE Sender
    BY <2>4 DEF Sender, S_Begin, S_Loop, S_Scan, S_SetSeq, S_SetFlag, S_SetSec, S_SetUsec,
                S_Sendto, S_Inc
  <2>5. ASSUME NEW t \in {"recv", "other"}, SigInt(t) PROVE InHand'
    BY <2>5 DEF SigInt
  <2>6. CASE UNCHANGED vars
    BY <2>6 DEF vars
  <2> QED
    BY <2>1, <2>2, <2>3, <2>4, <2>5, <2>6 DEF Next, Receiver
<1> QED
  BY <1>1, <1>2, <1>3 DEF NumberInv

\* The entry of a saved probe that is held.
LEMMA HeldEntry ==
  ASSUME TypeOK, HeldInv, NEW m \in Held, m.slot < Slots, m \in Message
  PROVE  /\ m.slot \in Index
         /\ pingpacket[m.slot] = [seq |-> m.seq, flag |-> 1, sec |-> m.att, usec |-> m.att]
         /\ pingpacket[m.slot].seq = m.seq /\ pingpacket[m.slot].flag = 1
<1>1. pingpacket[m.slot] = [seq |-> m.seq, flag |-> 1, sec |-> m.att, usec |-> m.att]
  BY DEF HeldInv
<1>2. m.slot \in Index
  BY PingAssumption DEF Message, Index
<1> QED
  BY <1>1, <1>2

-----------------------------------------------------------------------------
(* The steps that matter to the table; all others are quiet. *)

Quiet ==
  /\ pingpacket' = pingpacket /\ Held' = Held /\ att' = att /\ si' = si
  /\ fails' = fails
  /\ (packet_send' = packet_send /\ (spc = "inc" => spc' = "inc")) \/ S_Inc
  /\ spc' = spc \/ (spc \notin Sending /\ spc' \notin Sending \cup {"inc"})
  /\ \/ UNCHANGED <<rpc, cur, ri, tv_send>>
     \/ R_ReadSec
     \/ rpc' \notin Matching

StartAttempt == S_Loop /\ spc' = "scan"
StartMatch == rpc = "select" /\ rpc' = "scan" /\ ri' = 0 /\ cur' \in wire
              /\ Held' = Held /\ UNCHANGED <<pingpacket, sendVars, fails>>

LEMMA Steps ==
  ASSUME TypeOK, SummaryInv, Undisturbed, Undisturbed', [Next]_vars
  PROVE  \/ Quiet \/ StartAttempt \/ S_Scan \/ S_SetSeq \/ S_SetFlag \/ S_SetSec \/ S_SetUsec
         \/ S_Sendto \/ StartMatch \/ R_Scan \/ R_Free
<1> USE DEF mainVars, sendVars, recvVars, ghostVars
<1>1. CASE M_JoinMissing
  <2>1. rpc \notin Matching /\ spc \in {"none", "end"}
    BY <1>1, MissingIdle DEF Undisturbed
  <2>2. Held' = Held
    BY <1>1, <2>1, KeepsHeld DEF M_JoinMissing, Matching
  <2> QED
    BY <1>1, <2>1, <2>2 DEF M_JoinMissing, Quiet, Sending, Matching
<1>m. CASE Main /\ ~M_JoinMissing
  <2>1. Held' = Held
    BY <1>m, KeepsHeld DEF Main, M_Setup, M_Arm, M_StartSend, M_StartRecv, M_Join,
       M_Stats, SummaryInv, ControlInv, Starting
  <2> QED
    BY <1>m, <2>1 DEF Main, M_Setup, M_Arm, M_StartSend, M_StartRecv, M_Join,
       M_Stats, Quiet, Sending, Matching, SummaryInv, ControlInv, Starting
<1>2. CASE S_Begin \/ S_Loop \/ S_Inc
  <2>1. Held' = Held
    BY <1>2, KeepsHeld DEF S_Begin, S_Loop, S_Inc
  <2> QED
    BY <1>2, <2>1 DEF S_Begin, S_Loop, S_Inc, Quiet, StartAttempt, Sending
<1>3. CASE R_Loop \/ R_Timeout \/ R_ReadSec \/ R_Count
  <2>1. Held' = Held
    BY <1>3, KeepsHeld DEF R_Loop, R_Timeout, R_ReadSec, R_Count
  <2> QED
    BY <1>3, <2>1 DEF R_Loop, R_Timeout, R_ReadSec, R_Count, Quiet, Matching
<1>4. ASSUME NEW m \in wire \cup Foreign, R_Recv(m)
      PROVE  Quiet \/ StartMatch
  <2>1. Held' = Held
    BY <1>4, KeepsHeld DEF R_Recv
  <2> QED
    BY <1>4, <2>1, OwnOnWire DEF R_Recv, Undisturbed, Quiet, StartMatch, Matching
<1>5. ASSUME NEW t \in {"recv", "other"}, SigInt(t) PROVE Quiet
  <2>1. Held' = Held
    BY <1>5, KeepsHeld DEF SigInt
  <2> QED
    BY <1>5, <2>1 DEF SigInt, Quiet, Matching
<1>6. CASE UNCHANGED vars
  BY <1>6 DEF vars, Quiet, Held
<1> QED
  BY <1>1, <1>m, <1>2, <1>3, <1>4, <1>5, <1>6 DEF Next, Sender, Receiver

-----------------------------------------------------------------------------
(* Numbers in the table. *)

LEMMA SeqStep ==
  ASSUME TypeOK, SummaryInv, Clean, Clean', NumberInv, SeqInv, [Next]_vars
  PROVE  SeqInv'
<1> USE DEF SeqInv
<1>0. att \in Nat /\ pingpacket \in [Index -> Entry]
  BY DEF TypeOK
<1>1. CASE Quiet
  BY <1>1 DEF Quiet, Sending
<1>2. CASE StartAttempt
  BY <1>2, <1>0 DEF StartAttempt, S_Loop, Entry
<1>3. CASE S_Scan
  BY <1>3 DEF S_Scan, sendVars
<1>4. CASE S_SetSeq
  <2>1. packet_send = att - 1 /\ att > 0
    BY <1>4 DEF S_SetSeq, NumberInv, Sending, SummaryInv, TimeInv
  <2>2. si \in Index /\ pingpacket'[si].seq = att - 1
        /\ \A i \in Index : i # si => pingpacket'[i] = pingpacket[i]
    BY <1>4, <2>1, StoreSeq
  <2> QED
    BY <1>4, <1>0, <2>1, <2>2 DEF S_SetSeq
<1>5. CASE S_SetFlag
  <2>1. \A i \in Index : pingpacket'[i].seq = pingpacket[i].seq
    BY <1>5, StoreFlag
  <2> QED
    BY <1>5, <2>1 DEF S_SetFlag
<1>6. CASE S_SetSec \/ S_SetUsec
  <2>1. \A i \in Index : pingpacket'[i].seq = pingpacket[i].seq
    BY <1>6, StoreSec, StoreUsec
  <2>2. si # Slots
    BY <1>6, PingAssumption DEF TypeOK, S_SetSec, S_SetUsec
  <2> QED
    BY <1>6, <2>1, <2>2 DEF S_SetSec, S_SetUsec
<1>7. CASE S_Sendto
  BY <1>7 DEF S_Sendto
<1>8. CASE StartMatch
  BY <1>8 DEF StartMatch, sendVars
<1>9. CASE R_Scan
  BY <1>9 DEF R_Scan, sendVars
<1>10. CASE R_Free
  <2>1. \A i \in Index : pingpacket'[i].seq = pingpacket[i].seq
    BY <1>10, Release
  <2> QED
    BY <1>10, <2>1 DEF R_Free, sendVars
<1> QED
  BY <1>1, <1>2, <1>3, <1>4, <1>5, <1>6, <1>7, <1>8, <1>9, <1>10, Steps DEF Clean, Undisturbed

-----------------------------------------------------------------------------
(* The first probe. *)

LEMMA FirstStep ==
  ASSUME TypeOK, SummaryInv, Clean, Clean', NumberInv, FirstInv, [Next]_vars
  PROVE  FirstInv'
<1> USE DEF FirstInv
<1>0. att \in Nat /\ pingpacket \in [Index -> Entry] /\ 0 \in Index
      /\ Slots > 0 /\ (spc \in Sending => att > 0)
  BY PingAssumption DEF TypeOK, Index, SummaryInv, TimeInv
<1>1. CASE Quiet
  BY <1>1 DEF Quiet, Sending
<1>2. CASE StartAttempt
  <2>1. Held' = Held
    BY <1>2, HeldSame DEF StartAttempt, S_Loop, recvVars
  <2> QED
    BY <1>2, <1>0, <2>1 DEF StartAttempt, S_Loop
<1>3. CASE S_Scan
  <2>1. Held' = Held
    BY <1>3, HeldSame DEF S_Scan, recvVars
  <2> QED
    BY <1>3, <1>0, <2>1 DEF S_Scan, FreeEntry, Sending
<1>4. CASE S_SetSeq
  <2>1. Held' = Held
    BY <1>4, HeldSame DEF S_SetSeq, recvVars
  <2> QED
    BY <1>4, <1>0, <2>1 DEF S_SetSeq, Sending
<1>5. CASE S_SetFlag
  <2>1. Held' = Held
    BY <1>5, HeldSame DEF S_SetFlag, recvVars
  <2> QED
    BY <1>5, <1>0, <2>1 DEF S_SetFlag, Sending
<1>6. CASE S_SetSec \/ S_SetUsec
  <2>1. Held' = Held
    BY <1>6, HeldSame DEF S_SetSec, S_SetUsec, recvVars
  <2> QED
    BY <1>6, <1>0, <2>1 DEF S_SetSec, S_SetUsec, Sending
<1>7. CASE S_Sendto
  <2>1. spc' = "inc" /\ att' = att /\ spc = "sendto"
    BY <1>7 DEF S_Sendto, Clean
  <2>2. Held' = Held \cup {ReplyTo(att)}
    BY <1>7, <2>1, HeldSent
  <2>3. ReplyTo(att).seq = 0 => ReplyTo(att).slot = 0
    BY <1>7, <1>0, <2>1, ReplyNumber DEF Sending
  <2> QED
    BY <1>0, <2>1, <2>2, <2>3 DEF Sending
<1>8. CASE StartMatch
  BY <1>8 DEF StartMatch, sendVars
<1>9. CASE R_Scan
  <2>1. Held' \subseteq Held
    BY <1>9, HeldSame, HeldReleased DEF R_Scan, sendVars
  <2> QED
    BY <1>9, <2>1 DEF R_Scan, sendVars
<1>10. CASE R_Free
  <2>1. \A i \in Index : pingpacket[i].flag = 0 => pingpacket'[i].flag = 0
    BY <1>10, Release
  <2>2. Held' \subseteq Held
    BY <1>10, HeldReleased
  <2> QED
    BY <1>10, <2>1, <2>2 DEF R_Free, sendVars
<1> QED
  BY <1>1, <1>2, <1>3, <1>4, <1>5, <1>6, <1>7, <1>8, <1>9, <1>10, Steps DEF Clean, Undisturbed

-----------------------------------------------------------------------------
(* The sender's entry. *)

LEMMA SlotStep ==
  ASSUME TypeOK, SummaryInv, Clean, Clean', NumberInv, HeldInv, ScanInv, SlotInv,
         [Next]_vars
  PROVE  SlotInv'
<1> USE DEF SlotInv
<1>0. att \in Nat /\ pingpacket \in [Index -> Entry] /\ Slots \in Nat
      /\ si \in 0 .. Slots /\ (si < Slots => si \in Index)
  BY PingAssumption DEF TypeOK, Index
<1>1. CASE Quiet
  <2>1. /\ pingpacket' = pingpacket /\ Held' = Held /\ att' = att /\ si' = si
        /\ spc' = spc \/ spc' \notin Sending
    BY <1>1 DEF Quiet
  <2> QED
    BY <2>1 DEF Sending
<1>2. CASE StartAttempt
  BY <1>2 DEF StartAttempt
<1>3. CASE S_Scan
  BY <1>3, <1>0 DEF S_Scan, FreeEntry
<1>4. CASE S_SetSeq
  <2>1. packet_send = att - 1
    BY <1>4 DEF S_SetSeq, NumberInv, Sending
  <2>2. pingpacket'[si].seq = att - 1 /\ pingpacket'[si].flag = pingpacket[si].flag
    BY <1>4, <2>1, StoreSeq
  <2> QED
    BY <1>4, <2>2 DEF S_SetSeq
<1>5. CASE S_SetFlag
  <2>1. pingpacket'[si].seq = pingpacket[si].seq /\ pingpacket'[si].flag = 1
        /\ si \in Index
    BY <1>5, StoreFlag
  <2>2. Held' = Held
    BY <1>5, HeldSame DEF S_SetFlag, recvVars
  <2>3. \A m \in Held : m.slot # si
    <3> SUFFICES ASSUME NEW m \in Held, m.slot = si PROVE FALSE
      OBVIOUS
    <3>1. m \in Message /\ m.slot < Slots
      BY <1>0, <2>1, HeldFacts DEF Clean, Index
    <3>2. pingpacket[m.slot].flag = 1
      BY <3>1, HeldEntry
    <3> QED
      BY <1>5, <3>2 DEF S_SetFlag
  <2> QED
    BY <1>5, <2>1, <2>2, <2>3 DEF S_SetFlag
<1>6. CASE S_SetSec \/ S_SetUsec
  <2>1. /\ pingpacket'[si].seq = pingpacket[si].seq /\ si \in Index
        /\ pingpacket'[si].flag = pingpacket[si].flag
        /\ S_SetSec => pingpacket'[si].sec = att
        /\ S_SetUsec => pingpacket'[si].sec = pingpacket[si].sec
                       /\ pingpacket'[si].usec = att
    BY <1>6, StoreSec, StoreUsec
  <2>2. Held' = Held
    BY <1>6, HeldSame DEF S_SetSec, S_SetUsec, recvVars
  <2> QED
    BY <1>6, <2>1, <2>2 DEF S_SetSec, S_SetUsec
<1>7. CASE S_Sendto
  BY <1>7 DEF S_Sendto
<1>8. CASE StartMatch
  BY <1>8 DEF StartMatch, sendVars
<1>9. CASE R_Scan
  <2>1. Held' \subseteq Held
    BY <1>9, HeldSame, HeldReleased DEF R_Scan, sendVars
  <2> QED
    BY <1>9, <2>1 DEF R_Scan, sendVars
<1>10. CASE R_Free
  <2>1. /\ \A i \in Index : pingpacket'[i].seq = pingpacket[i].seq
                          /\ pingpacket'[i].sec = pingpacket[i].sec
                          /\ pingpacket'[i].usec = pingpacket[i].usec
        /\ \A i \in Index : pingpacket[i].flag = 0 => pingpacket'[i].flag = 0
        /\ \A i \in Index : i # ri => pingpacket'[i] = pingpacket[i]
    BY <1>10, Release
  <2>2. Held' \subseteq Held
    BY <1>10, HeldReleased
  <2>3. cur \in Held /\ ri = cur.slot
    BY <1>10 DEF R_Free, Held, ScanInv
  <2>4. spc \in {"seq", "flag", "sec", "usec"} => si < Slots
    BY DEF TypeOK
  <2> QED
    BY <1>10, <1>0, <2>1, <2>2, <2>3, <2>4 DEF R_Free, sendVars
<1> QED
  BY <1>1, <1>2, <1>3, <1>4, <1>5, <1>6, <1>7, <1>8, <1>9, <1>10, Steps DEF Clean, Undisturbed

-----------------------------------------------------------------------------
(* Entries of held messages. *)

\* A step that keeps the entries of the messages it leaves held, and stores no
\* number of an unsaved one, keeps HeldInv.
LEMMA HeldKept ==
  ASSUME HeldInv, Held' \subseteq Held,
         \A m \in Held' : m.slot < Slots => pingpacket'[m.slot] = pingpacket[m.slot],
         \A m \in Held' : m.slot = Slots => \A i \in Index : pingpacket'[i].seq # m.seq
  PROVE  HeldInv'
  BY DEF HeldInv

LEMMA HeldStep ==
  ASSUME TypeOK, SummaryInv, Clean, Clean', NumberInv, SeqInv, FirstInv, SlotInv,
         ScanInv, HeldInv, [Next]_vars
  PROVE  HeldInv'
<1>0. /\ att \in Nat /\ pingpacket \in [Index -> Entry] /\ Slots \in Nat /\ Slots > 0
      /\ Index = 0 .. Slots - 1
  BY PingAssumption DEF TypeOK, Index
<1>h. /\ \A m \in Held : /\ m \in Message /\ m.att \in 1 .. att /\ m.seq = m.att - 1
                         /\ m.slot \in 0 .. Slots
                         /\ (spc \in Sending => m.att < att)
      /\ \A m, n \in Held : m.att = n.att => m = n
  BY HeldFacts DEF NumberInv, Clean, Message
<1>e. \A m \in Held : m.slot < Slots =>
        /\ m.slot \in Index
        /\ pingpacket[m.slot].seq = m.seq /\ pingpacket[m.slot].flag = 1
  BY <1>h, HeldEntry
<1>n. \A m \in Held : m.slot = Slots => \A i \in Index : pingpacket[i].seq # m.seq
  BY DEF HeldInv
<1>1. CASE Quiet
  BY <1>1 DEF Quiet, HeldInv
<1>2. CASE StartAttempt
  <2>1. Held' = Held
    BY <1>2, HeldSame DEF StartAttempt, S_Loop, recvVars
  <2> QED
    BY <1>2, <2>1 DEF StartAttempt, S_Loop, HeldInv
<1>3. CASE S_Scan
  <2>1. Held' = Held
    BY <1>3, HeldSame DEF S_Scan, recvVars
  <2> QED
    BY <1>3, <2>1 DEF S_Scan, HeldInv
<1>4. CASE S_SetSeq
  <2>1. Held' = Held
    BY <1>4, HeldSame DEF S_SetSeq, recvVars
  <2>2. packet_send = att - 1 /\ pingpacket[si].flag = 0 /\ spc \in Sending
    BY <1>4 DEF S_SetSeq, NumberInv, Sending, SlotInv
  <2>3. si \in Index /\ pingpacket'[si].seq = att - 1
        /\ \A i \in Index : i # si => pingpacket'[i] = pingpacket[i]
    BY <1>4, <2>2, StoreSeq
  <2>4. \A m \in Held : m.slot < Slots => m.slot # si
    <3> SUFFICES ASSUME NEW m \in Held, m.slot < Slots, m.slot = si PROVE FALSE
      BY <1>e
    <3> QED
      BY <1>e, <2>2
  <2>5. \A m \in Held : m.seq # att - 1
    BY <1>0, <1>h, <2>2
  <2> QED
    BY <1>e, <1>n, <2>1, <2>3, <2>4, <2>5, HeldKept
<1>5. CASE S_SetFlag
  <2>1. Held' = Held
    BY <1>5, HeldSame DEF S_SetFlag, recvVars
  <2>2. pingpacket[si].flag = 0
    BY <1>5 DEF S_SetFlag, SlotInv
  <2>3. \A i \in Index : /\ pingpacket'[i].seq = pingpacket[i].seq
                        /\ (i # si => pingpacket'[i] = pingpacket[i])
    BY <1>5, StoreFlag
  <2>4. \A m \in Held : m.slot < Slots => m.slot # si
    <3> SUFFICES ASSUME NEW m \in Held, m.slot < Slots, m.slot = si PROVE FALSE
      BY <1>e
    <3> QED
      BY <1>e, <2>2
  <2> QED
    BY <1>e, <1>n, <2>1, <2>3, <2>4, HeldKept
<1>6. CASE S_SetSec \/ S_SetUsec
  <2>1. Held' = Held
    BY <1>6, HeldSame DEF S_SetSec, S_SetUsec, recvVars
  <2>2. \A m \in Held : m.slot # si
    BY <1>6 DEF S_SetSec, S_SetUsec, SlotInv, TypeOK
  <2>3. \A i \in Index : /\ pingpacket'[i].seq = pingpacket[i].seq
                        /\ (i # si => pingpacket'[i] = pingpacket[i])
    BY <1>6, StoreSec, StoreUsec
  <2> QED
    BY <1>e, <1>n, <2>1, <2>2, <2>3, HeldKept
<1>7. CASE S_Sendto
  <2>1. spc' = "inc" /\ pingpacket' = pingpacket /\ spc = "sendto"
    BY <1>7 DEF S_Sendto, Clean
  <2>2. Held' = Held \cup {ReplyTo(att)}
    BY <1>7, <2>1, HeldSent
  <2>3. /\ ReplyTo(att).seq = att - 1 /\ ReplyTo(att).att = att
        /\ ReplyTo(att).slot = si
    BY <1>7, ReplyNumber
  <2>4. si \in 0 .. Slots /\ (si < Slots => si \in Index)
    BY <1>0 DEF TypeOK
  <2>5. si < Slots => pingpacket[si] = [seq |-> att - 1, flag |-> 1, sec |-> att, usec |-> att]
    BY <1>0, <2>1, <2>4 DEF SlotInv, Entry
  <2>6. si = Slots => \A i \in Index : pingpacket[i].seq # att - 1
    <3>1. att = 1 => si = 0
      BY <2>1 DEF FirstInv, Sending
    <3>2. si = Slots => att - 1 # 0
      BY <1>0, <3>1
    <3>3. si = Slots => \A i \in Index : pingpacket[i].seq = 0
                                        \/ pingpacket[i].seq < att - 1
      BY <2>1 DEF SeqInv
    <3>4. \A i \in Index : pingpacket[i].seq \in Int
      BY <1>0, HalfType DEF Entry
    <3> QED
      BY <1>0, <3>2, <3>3, <3>4
  <2> QED
    BY <2>1, <2>2, <2>3, <2>5, <2>6 DEF HeldInv
<1>8. CASE StartMatch
  BY <1>8 DEF StartMatch, HeldInv
<1>9. CASE R_Scan
  <2>1. Held' \subseteq Held
    BY <1>9, HeldSame, HeldReleased DEF R_Scan, sendVars
  <2> QED
    BY <1>9, <2>1 DEF R_Scan, HeldInv
<1>10. CASE R_Free
  <2>1. /\ ri \in Index
        /\ \A i \in Index : /\ pingpacket'[i].seq = pingpacket[i].seq
                           /\ (i # ri => pingpacket'[i] = pingpacket[i])
    BY <1>10, Release
  <2>2. Held' = Held \ {cur}
    BY <1>10, HeldReleased
  <2>3. cur \in Held /\ ri = cur.slot
    BY <1>10 DEF R_Free, Held, ScanInv
  <2>4. \A m \in Held' : m.slot < Slots => m.slot \in Index /\ m.slot # ri
    <3> SUFFICES ASSUME NEW m \in Held', m.slot < Slots
                 PROVE  m.slot \in Index /\ m.slot # ri
      OBVIOUS
    <3>1. m.att # cur.att
      BY <1>h, <2>2, <2>3
    <3>2. m.seq # cur.seq
      BY <1>h, <2>2, <2>3, <3>1
    <3>3. pingpacket[m.slot].seq = m.seq
      BY <1>e, <2>2
    <3>4. pingpacket[ri].seq = cur.seq
      BY <1>0, <1>e, <2>1, <2>3
    <3> QED
      BY <1>e, <2>2, <3>2, <3>3, <3>4
  <2> QED
    BY <1>e, <1>n, <2>1, <2>2, <2>4, HeldKept
<1> QED
  BY <1>1, <1>2, <1>3, <1>4, <1>5, <1>6, <1>7, <1>8, <1>9, <1>10, Steps DEF Clean, Undisturbed

-----------------------------------------------------------------------------
(* The receiver's scan. *)

LEMMA ScanStep ==
  ASSUME TypeOK, SummaryInv, Clean, Clean', NumberInv, SeqInv, FirstInv, SlotInv,
         HeldInv, ScanInv, [Next]_vars
  PROVE  ScanInv'
<1> USE DEF ScanInv
<1>0. /\ att \in Nat /\ pingpacket \in [Index -> Entry] /\ Slots \in Nat
      /\ Index = 0 .. Slots - 1 /\ ri \in 0 .. Slots /\ cur.slot \in 0 .. Slots
      /\ (rpc \in {"sec", "usec"} => ri \in Index)
  <2>1. cur.slot \in 0 .. Slots
    BY DEF TypeOK, Message
  <2>2. /\ att \in Nat /\ pingpacket \in [Index -> Entry] /\ ri \in 0 .. Slots
        /\ (rpc \in {"sec", "usec"} => ri < Slots)
    BY DEF TypeOK
  <2> QED
    BY <2>1, <2>2, PingAssumption DEF Index
<1>c. rpc \in {"sec", "usec"} =>
        /\ cur.att \in 1 .. att /\ cur.seq = cur.att - 1
        /\ (spc \in Sending => cur.att < att)
  <2> SUFFICES ASSUME rpc \in {"sec", "usec"}
               PROVE  /\ cur.att \in 1 .. att /\ cur.seq = cur.att - 1
                      /\ (spc \in Sending => cur.att < att)
    OBVIOUS
  <2>1. cur.att \in sent /\ cur.seq = cur.att - 1
    BY DEF SummaryInv, WireInv, Matching, NumberInv, Clean
  <2>2. sent \subseteq 1 .. att /\ (spc \in Sending => att \notin sent)
    BY DEF SummaryInv, WireInv
  <2>3. cur.att \in 1 .. att
    BY <2>1, <2>2
  <2>4. spc \in Sending => cur.att # att
    BY <2>1, <2>2
  <2> QED
    BY <1>0, <2>1, <2>3, <2>4
<1>1. CASE Quiet
  BY <1>1 DEF Quiet, R_ReadSec, Matching
<1>2. CASE StartAttempt
  BY <1>2 DEF StartAttempt, S_Loop, recvVars
<1>3. CASE S_Scan
  BY <1>3 DEF S_Scan, recvVars
<1>4. CASE S_SetSeq
  <2>1. packet_send = att - 1 /\ spc \in Sending
    BY <1>4 DEF S_SetSeq, NumberInv, Sending
  <2>2. \A i \in Index : /\ pingpacket'[i].sec = pingpacket[i].sec
                        /\ pingpacket'[i].usec = pingpacket[i].usec
                        /\ pingpacket'[i].seq \in {pingpacket[i].seq, att - 1}
    BY <1>4, <2>1, StoreSeq
  <2> QED
    BY <1>4, <1>0, <1>c, <2>1, <2>2 DEF S_SetSeq, recvVars
<1>5. CASE S_SetFlag
  <2>1. \A i \in Index : /\ pingpacket'[i].sec = pingpacket[i].sec
                        /\ pingpacket'[i].usec = pingpacket[i].usec
                        /\ pingpacket'[i].seq = pingpacket[i].seq
    BY <1>5, StoreFlag
  <2> QED
    BY <1>5, <1>0, <2>1 DEF S_SetFlag, recvVars
<1>6. CASE S_SetSec \/ S_SetUsec
  <2>1. /\ si \in Index
        /\ pingpacket'[si].sec \in {pingpacket[si].sec, att}
        /\ pingpacket'[si].usec \in {pingpacket[si].usec, att}
        /\ \A i \in Index : /\ pingpacket'[i].seq = pingpacket[i].seq
                           /\ (i # si => pingpacket'[i] = pingpacket[i])
    BY <1>6, StoreSec, StoreUsec
  <2>2. pingpacket[si].seq = att - 1 /\ spc \in Sending
    BY <1>6, <1>0, <2>1 DEF S_SetSec, S_SetUsec, SlotInv, Sending
  <2> QED
    BY <1>6, <1>0, <1>c, <2>1, <2>2 DEF S_SetSec, S_SetUsec, recvVars
<1>7. CASE S_Sendto
  BY <1>7 DEF S_Sendto, recvVars
<1>8. CASE StartMatch
  <2>1. cur'.slot \in 0 .. Slots
    BY <1>8 DEF StartMatch, TypeOK, Message
  <2> QED
    BY <1>8, <2>1 DEF StartMatch
<1>9. CASE R_Scan
  <2>1. cur \in Held /\ ri <= cur.slot /\ cur' = cur /\ pingpacket' = pingpacket
    BY <1>9 DEF R_Scan, Held
  <2>2. cur.slot < Slots => pingpacket[cur.slot].seq = cur.seq
    BY <2>1, HeldEntry DEF TypeOK
  <2>3. cur.slot = Slots => \A i \in Index : pingpacket[i].seq # cur.seq
    BY <2>1 DEF HeldInv
  <2>4. CASE ri < Slots /\ Matches(ri) /\ rpc' = "free" /\ ri' = ri
    <3>1. ri \in Index /\ cur.slot \in Index /\ pingpacket[ri].seq = cur.seq
      BY <1>0, <2>3, <2>4 DEF Matches
    <3>2. ri = cur.slot \/ cur.seq = 0
      BY <1>0, <2>2, <3>1 DEF SeqInv
    <3>3. cur.seq = 0 => cur.slot = 0
      BY <2>1 DEF FirstInv
    <3> QED
      BY <1>0, <2>1, <2>4, <3>2, <3>3
  <2>5. CASE ri < Slots /\ ~Matches(ri) /\ ri' = ri + 1 /\ rpc' = "scan"
    BY <1>0, <2>1, <2>2, <2>5 DEF Matches
  <2> QED
    BY <1>9, <2>4, <2>5 DEF R_Scan
<1>10. CASE R_Free
  <2>1. ri \in Index /\ pingpacket'[ri].sec = pingpacket[ri].sec
        /\ pingpacket'[ri].usec = pingpacket[ri].usec
        /\ pingpacket'[ri].seq = pingpacket[ri].seq
    BY <1>10, Release
  <2>2. cur \in Held /\ ri = cur.slot
    BY <1>10 DEF R_Free, Held
  <2>3. pingpacket[ri] = [seq |-> cur.seq, flag |-> 1, sec |-> cur.att, usec |-> cur.att]
    BY <1>0, <2>1, <2>2 DEF HeldInv
  <2>4. cur.att \in Nat
    BY DEF TypeOK, Message
  <2> QED
    BY <1>10, <2>1, <2>3, <2>4 DEF R_Free
<1> QED
  BY <1>1, <1>2, <1>3, <1>4, <1>5, <1>6, <1>7, <1>8, <1>9, <1>10, Steps DEF Clean, Undisturbed

-----------------------------------------------------------------------------
(* Taken entries. *)

LEMMA TakenStep ==
  ASSUME TypeOK, SummaryInv, Clean, Clean', NumberInv, SlotInv, ScanInv, TakenInv,
         [Next]_vars
  PROVE  TakenInv'
<1> USE DEF TakenInv
<1>0. pingpacket \in [Index -> Entry] /\ Slots \in Nat /\ Index = 0 .. Slots - 1
  BY PingAssumption DEF TypeOK, Index
<1>1. CASE Quiet
  BY <1>1 DEF Quiet, Sending
<1>2. CASE StartAttempt
  <2>1. Held' = Held
    BY <1>2, HeldSame DEF StartAttempt, S_Loop, recvVars
  <2> QED
    BY <1>2, <2>1 DEF StartAttempt, S_Loop
<1>3. CASE S_Scan
  <2>1. Held' = Held
    BY <1>3, HeldSame DEF S_Scan, recvVars
  <2> QED
    BY <1>3, <2>1 DEF S_Scan
<1>4. CASE S_SetSeq
  <2>1. Held' = Held
    BY <1>4, HeldSame DEF S_SetSeq, recvVars
  <2>2. \A i \in Index : pingpacket'[i].flag = pingpacket[i].flag
    BY <1>4, StoreSeq
  <2> QED
    BY <1>4, <2>1, <2>2 DEF S_SetSeq
<1>5. CASE S_SetFlag
  <2>1. Held' = Held
    BY <1>5, HeldSame DEF S_SetFlag, recvVars
  <2>2. \A i \in Index : i # si => pingpacket'[i] = pingpacket[i]
    BY <1>5, StoreFlag
  <2> QED
    BY <1>5, <2>1, <2>2 DEF S_SetFlag
<1>6. CASE S_SetSec \/ S_SetUsec
  <2>1. Held' = Held
    BY <1>6, HeldSame DEF S_SetSec, S_SetUsec, recvVars
  <2>2. \A i \in Index : pingpacket'[i].flag = pingpacket[i].flag
    BY <1>6, StoreSec, StoreUsec
  <2> QED
    BY <1>6, <2>1, <2>2 DEF S_SetSec, S_SetUsec
<1>7. CASE S_Sendto
  <2>1. spc' = "inc" /\ pingpacket' = pingpacket
    BY <1>7 DEF S_Sendto, Clean
  <2>2. Held' = Held \cup {ReplyTo(att)} /\ ReplyTo(att).slot = si
    BY <1>7, <2>1, HeldSent, ReplyNumber
  <2> QED
    BY <2>1, <2>2
<1>8. CASE StartMatch
  BY <1>8 DEF StartMatch, sendVars
<1>9. CASE R_Scan
  <2>1. cur.slot \in 0 .. Slots
    BY DEF TypeOK, Message
  <2>2. rpc' = "loop" => Held' = Held \ {cur} /\ cur.slot = Slots
    BY <1>9, <1>0, <2>1, HeldReleased DEF R_Scan, ScanInv
  <2>3. rpc' # "loop" => Held' = Held
    BY <1>9, HeldSame DEF R_Scan, sendVars
  <2> QED
    BY <1>9, <1>0, <2>2, <2>3 DEF R_Scan, sendVars
<1>10. CASE R_Free
  <2>1. /\ ri \in Index /\ pingpacket'[ri].flag = 0
        /\ \A i \in Index : i # ri => pingpacket'[i] = pingpacket[i]
    BY <1>10, Release
  <2>2. Held' = Held \ {cur} /\ ri = cur.slot
    BY <1>10, HeldReleased DEF R_Free, ScanInv
  <2> QED
    BY <1>10, <2>1, <2>2 DEF R_Free, sendVars
<1> QED
  BY <1>1, <1>2, <1>3, <1>4, <1>5, <1>6, <1>7, <1>8, <1>9, <1>10, Steps DEF Clean, Undisturbed

-----------------------------------------------------------------------------

LEMMA InitTable == Init => TableInv
<1> SUFFICES ASSUME Init PROVE TableInv
  OBVIOUS
<1>1. Held = {}
  BY DEF Init, Held
<1>2. att = 0 /\ spc = "none" /\ rpc = "none" /\ packet_send = 0
  BY DEF Init
<1>3. \A i \in Index : pingpacket[i] = EmptyEntry
  BY DEF Init
<1>4. EmptyEntry.seq = 0 /\ EmptyEntry.flag = 0
  BY DEF EmptyEntry
<1>5. NumberInv
  BY <1>1, <1>2 DEF NumberInv, Sending, Matching
<1>6. SeqInv /\ FirstInv /\ TakenInv
  BY <1>1, <1>2, <1>3, <1>4 DEF SeqInv, FirstInv, TakenInv, Sending
<1>7. SlotInv /\ HeldInv /\ ScanInv
  BY <1>1, <1>2 DEF SlotInv, HeldInv, ScanInv
<1> QED
  BY <1>5, <1>6, <1>7 DEF TableInv

LEMMA TableStep ==
  ASSUME TypeOK, SummaryInv, TableInv, [Next]_vars
  PROVE  TableInv'
<1> SUFFICES ASSUME Clean'
             PROVE  NumberInv' /\ SeqInv' /\ FirstInv' /\ SlotInv' /\ HeldInv'
                    /\ ScanInv' /\ TakenInv'
  BY DEF TableInv
<1>1. Clean
  BY CleanBefore
<1>2. NumberInv /\ SeqInv /\ FirstInv /\ SlotInv /\ HeldInv /\ ScanInv /\ TakenInv
  BY <1>1 DEF TableInv
<1> QED
  BY <1>1, <1>2, NumberStep, SeqStep, FirstStep, SlotStep, HeldStep, ScanStep,
     TakenStep

LEMMA TableInvariant == Spec => [](TypeOK /\ SummaryInv /\ TableInv)
<1>1. TypeOK /\ SummaryInv /\ TableInv /\ [Next]_vars => TableInv'
  BY TableStep
<1> QED
  BY InitTable, <1>1, SummaryInvariant, PTL DEF Spec

\* An entry whose probe may still be answered is not reused or overwritten by
\* either thread.
THEOREM TableKeeps == Spec => []TableKeepsProbes
<1>1. ASSUME TypeOK, SummaryInv, TableInv PROVE TableKeepsProbes
  BY <1>1 DEF TableInv, HeldInv, Held, TableKeepsProbes, SavedUnmatched, Unmatched
<1> QED
  BY <1>1, TableInvariant, PTL

\* Every taken entry belongs to a probe that can still release it.
THEOREM TableNoLeak == Spec => []NoEntryLeak
<1>1. ASSUME TypeOK, SummaryInv, TableInv PROVE NoEntryLeak
  <2> SUFFICES ASSUME Clean, NEW i \in Index, pingpacket[i].flag = 1,
                      ~(spc \in {"sec", "usec", "sendto"} /\ si = i)
               PROVE  \/ \E m \in SavedUnmatched : m.slot = i
                      \/ rpc = "free" /\ ri = i
    BY DEF NoEntryLeak
  <2>1. PICK m \in Held : m.slot = i
    BY <1>1 DEF TableInv, TakenInv
  <2>2. i < Slots
    BY PingAssumption DEF Index
  <2>3. CASE m \in wire \/ rpc = "scan"
    BY <2>1, <2>2, <2>3 DEF Held, SavedUnmatched, Unmatched
  <2>4. CASE m \notin wire /\ rpc # "scan"
    BY <1>1, <2>1, <2>4 DEF Held, TableInv, ScanInv
  <2> QED
    BY <2>3, <2>4
<1> QED
  BY <1>1, TableInvariant, PTL

\* An answer to this process is discarded only if its probe was never saved.
THEOREM TableDiscards == Spec => []DiscardsOnlyUnsaved
<1>1. ASSUME TypeOK, SummaryInv, TableInv PROVE DiscardsOnlyUnsaved
  <2>1. cur.slot \in 0 .. Slots
    BY <1>1 DEF TypeOK, Message
  <2> QED
    BY <1>1, <2>1, PingAssumption DEF TableInv, ScanInv, DiscardsOnlyUnsaved
<1> QED
  BY <1>1, TableInvariant, PTL

\* A round-trip time is never measured from an earlier probe.
THEOREM TableRtt == Spec => []RttNeverFromEarlierProbe
<1>1. ASSUME TypeOK, SummaryInv, TableInv PROVE RttNeverFromEarlierProbe
  BY <1>1 DEF TableInv, ScanInv, RttNeverFromEarlierProbe
<1> QED
  BY <1>1, TableInvariant, PTL

\* Every answer is matched with its own probe, or with none if that was not saved.
THEOREM TableAnswers == Spec => []AnswersMatched
<1>1. DiscardsOnlyUnsaved /\ RttNeverFromEarlierProbe => AnswersMatched
  BY DEF AnswersMatched
<1> QED
  BY <1>1, TableDiscards, TableRtt, PTL

-----------------------------------------------------------------------------
(* The table when a sendto may fail. *)

LEMMA UndisturbedBefore ==
  ASSUME TypeOK, [Next]_vars, Undisturbed'
  PROVE  Undisturbed /\ dups' = dups /\ twins' = twins
<1>1. dups' >= dups /\ twins' >= twins /\ att' >= att
  BY DEF TypeOK, Next, Main, M_Setup, M_Arm, M_StartSend, M_StartRecv, M_Join, M_JoinMissing,
         M_Stats, Sender, S_Begin, S_Loop, S_Scan, S_SetSeq, S_SetFlag, S_SetSec, S_SetUsec,
         S_Sendto, S_Inc, Receiver, R_Loop, R_Timeout, R_Recv, R_Scan, R_Free, R_ReadSec,
         R_Count, SigInt, vars, mainVars, sendVars, recvVars, ghostVars
<1> QED
  BY <1>1, NextType, HalfType DEF Undisturbed, TypeOK

\* The number of the probe in hand, in the reply as in the sender.
LEMMA RetryReply ==
  ASSUME TypeOK, SummaryInv, Undisturbed, RetryNumberInv, S_Sendto
  PROVE  /\ ReplyTo(att).seq = packet_send /\ ReplyTo(att).att = att
         /\ ReplyTo(att).slot = si /\ packet_send \in Nat /\ ReplyTo(att) \notin Held
<1>1. att \in Nat /\ att <= Half /\ packet_send \in 0 .. att /\ packet_send < att
  BY DEF S_Sendto, RetryNumberInv, Countable, Sending, Undisturbed, TypeOK
<1>2. packet_send \in Nat /\ packet_send < ShortMod
  BY <1>1, HalfType
<1>3. ReplyTo(att).seq = packet_send /\ ReplyTo(att).att = att /\ ReplyTo(att).slot = si
  BY <1>2, ToU16Small DEF ReplyTo
<1>4. \A m \in Held : m.att < att
  BY HeldFacts DEF S_Sendto, Sending, Undisturbed
<1> QED
  BY <1>1, <1>2, <1>3, <1>4

\* What the ten kinds of steps do to Held and to the numbers and flags of the entries.
LEMMA RetryEntries ==
  ASSUME TypeOK, SummaryInv, Undisturbed, Undisturbed', [Next]_vars
  PROVE  /\ StartAttempt \/ S_Scan \/ S_SetSeq \/ S_SetFlag \/ S_SetSec \/ S_SetUsec => Held' = Held
         /\ S_Sendto => Held' = IF spc' = "inc" THEN Held \cup {ReplyTo(att)} ELSE Held
         /\ R_Scan => Held' = IF rpc' = "loop" THEN Held \ {cur} ELSE Held
         /\ R_Free => Held' = Held \ {cur} /\ cur \in Held
<1>1. StartAttempt \/ S_Scan \/ S_SetSeq \/ S_SetFlag \/ S_SetSec \/ S_SetUsec => Held' = Held
  BY KeepsHeld DEF StartAttempt, S_Loop, S_Scan, S_SetSeq, S_SetFlag, S_SetSec, S_SetUsec, recvVars
<1>2. S_Sendto => Held' = IF spc' = "inc" THEN Held \cup {ReplyTo(att)} ELSE Held
  BY KeepsHeld, HeldSent DEF S_Sendto, recvVars
<1>3. R_Scan => Held' = IF rpc' = "loop" THEN Held \ {cur} ELSE Held
  BY KeepsHeld, DropsHeld DEF R_Scan, sendVars
<1>4. R_Free => Held' = Held \ {cur} /\ cur \in Held
  BY DropsHeld DEF R_Free, Held
<1> QED
  BY <1>1, <1>2, <1>3, <1>4

LEMMA RetryNumberStep ==
  ASSUME TypeOK, SummaryInv, Undisturbed, Undisturbed', RetryNumberInv, [Next]_vars
  PROVE  RetryNumberInv'
<1> USE DEF RetryNumberInv, Countable, Sending
<1>0. /\ att \in Nat /\ att <= Half /\ att' <= Half /\ Half \in Nat
      /\ packet_send \in Int /\ pingpacket \in [Index -> Entry]
      /\ \A i \in Index : pingpacket[i].seq \in Int
      /\ \A m \in Held : m.seq \in Nat
  BY HalfType, HeldFacts DEF TypeOK, Undisturbed, Entry, Message
<1>1. CASE Quiet /\ S_Inc
  <2>1. packet_send' = ToShort(packet_send + 1) /\ spc = "inc" /\ spc' = "loop"
    BY <1>1 DEF S_Inc
  <2>2. packet_send \in 0 .. att /\ packet_send < att
    BY <2>1
  <2>3. att < Half => packet_send' = packet_send + 1
    BY <1>0, <2>1, <2>2, ToShortSmall
  <2> QED
    BY <1>0, <1>1, <2>1, <2>2, <2>3 DEF Quiet
<1>2. CASE Quiet /\ ~S_Inc
  BY <1>2 DEF Quiet
<1>3. CASE StartAttempt
  <2>1. /\ spc = "loop" /\ spc' = "scan" /\ att' = att + 1 /\ packet_send' = packet_send
        /\ pingpacket' = pingpacket /\ Held' = Held
    BY <1>3, RetryEntries DEF StartAttempt, S_Loop
  <2> QED
    BY <1>0, <2>1
<1>4. CASE S_Scan
  BY <1>4, RetryEntries DEF S_Scan
<1>5. CASE S_SetSeq
  <2>1. /\ pingpacket'[si].seq = packet_send /\ Held' = Held
        /\ \A i \in Index : i # si => pingpacket'[i] = pingpacket[i]
    BY <1>5, StoreSeq, RetryEntries
  <2>2. spc = "seq" /\ spc' = "flag" /\ packet_send' = packet_send /\ att' = att
    BY <1>5 DEF S_SetSeq
  <2> QED
    BY <1>0, <2>1, <2>2
<1>6. CASE S_SetFlag \/ S_SetSec \/ S_SetUsec
  <2>1. (\A i \in Index : pingpacket'[i].seq = pingpacket[i].seq) /\ Held' = Held
    BY <1>6, StoreFlag, StoreSec, StoreUsec, RetryEntries
  <2> QED
    BY <1>6, <2>1 DEF S_SetFlag, S_SetSec, S_SetUsec
<1>7. CASE S_Sendto
  <2>1. /\ spc = "sendto" /\ packet_send' = packet_send /\ att' = att /\ pingpacket' = pingpacket
        /\ spc' \in {"inc", "loop"}
    BY <1>7 DEF S_Sendto
  <2>2. Held' = IF spc' = "inc" THEN Held \cup {ReplyTo(att)} ELSE Held
    BY <1>7, RetryEntries
  <2>3. ReplyTo(att).seq = packet_send
    BY <1>7, RetryReply
  <2> QED
    BY <1>0, <2>1, <2>2, <2>3
<1>8. CASE StartMatch
  BY <1>8 DEF StartMatch, sendVars
<1>9. CASE R_Scan
  BY <1>9, RetryEntries DEF R_Scan, sendVars
<1>10. CASE R_Free
  <2>1. (\A i \in Index : pingpacket'[i].seq = pingpacket[i].seq) /\ Held' \subseteq Held
    BY <1>10, Release, RetryEntries
  <2> QED
    BY <1>10, <2>1 DEF R_Free, sendVars
<1> QED
  BY <1>1, <1>2, <1>3, <1>4, <1>5, <1>6, <1>7, <1>8, <1>9, <1>10, Steps

RetryTypes ==
  /\ att \in Nat /\ Half \in Nat /\ packet_send \in Int /\ fails \in Nat
  /\ si \in 0 .. Slots /\ ri \in 0 .. Slots /\ cur.slot \in 0 .. Slots
  /\ Slots \in Nat /\ Index = 0 .. Slots - 1 /\ pingpacket \in [Index -> Entry]
  /\ \A i \in Index : pingpacket[i].seq \in Int /\ pingpacket[i].flag \in {0, 1}
  /\ \A m \in Held : m.seq \in Nat /\ m.slot \in 0 .. Slots

LEMMA RetryTypeFacts == ASSUME TypeOK, SummaryInv, Undisturbed PROVE RetryTypes
<1>1. \A m \in Held : m.seq \in Nat /\ m.slot \in 0 .. Slots
  BY HeldFacts DEF Undisturbed, Message
<1>2. Half \in Nat /\ Slots \in Nat /\ Index = 0 .. Slots - 1
  BY HalfType, PingAssumption DEF Index
<1>3. \A i \in Index : pingpacket[i].seq \in Int /\ pingpacket[i].flag \in {0, 1}
  BY <1>2 DEF TypeOK, Entry
<1> QED
  BY <1>1, <1>2, <1>3 DEF TypeOK, Message, RetryTypes

LEMMA RetryTakenStep ==
  ASSUME TypeOK, SummaryInv, Undisturbed, Undisturbed', RetryNumberInv, RetryTakenInv,
         RetrySlotInv, [Next]_vars
  PROVE  RetryTakenInv'
<1> USE DEF RetryTakenInv, Countable, Sending
<1>0. /\ att \in Nat /\ Half \in Nat /\ packet_send \in Int /\ si \in 0 .. Slots
      /\ Slots \in Nat /\ Index = 0 .. Slots - 1
      /\ \A i \in Index : pingpacket[i].seq \in Int /\ pingpacket[i].flag \in {0, 1}
      /\ \A m \in Held : m.seq \in Nat /\ m.slot \in 0 .. Slots
  BY RetryTypeFacts DEF RetryTypes
<1>n. /\ Countable /\ spc # "inc" => \A m \in Held : m.seq # packet_send
      /\ \A m, n \in Held : m.seq = n.seq => m = n
  BY DEF RetryNumberInv
<1>1. CASE Quiet /\ S_Inc
  <2>1. packet_send' = ToShort(packet_send + 1) /\ spc = "inc" /\ spc' = "loop"
    BY <1>1 DEF S_Inc
  <2>2. packet_send \in 0 .. att /\ packet_send < att
    BY <2>1 DEF RetryNumberInv
  <2>3. att < Half => packet_send' = packet_send + 1
    BY <1>0, <2>1, <2>2, ToShortSmall
  <2>4. \A i \in Index : pingpacket[i].seq <= packet_send
    BY <2>1 DEF RetryNumberInv
  <2> QED
    BY <1>0, <1>1, <2>1, <2>2, <2>3, <2>4 DEF Quiet
<1>2. CASE Quiet /\ ~S_Inc
  BY <1>2 DEF Quiet
<1>3. CASE StartAttempt
  <2>1. /\ spc = "loop" /\ spc' = "scan" /\ att' = att + 1 /\ packet_send' = packet_send
        /\ pingpacket' = pingpacket /\ Held' = Held /\ si' = 0 /\ att < Half
    BY <1>0, <1>3, RetryEntries DEF StartAttempt, S_Loop, Undisturbed
  <2> QED
    BY <1>0, <2>1
<1>4. CASE S_Scan
  <2>1. /\ spc = "scan" /\ spc' \in {"scan", "seq", "sendto"} /\ packet_send' = packet_send
        /\ pingpacket' = pingpacket /\ Held' = Held /\ att' = att
        /\ si' = si \/ (si' = si + 1 /\ si < Slots /\ pingpacket[si].flag # 0)
    BY <1>4, RetryEntries DEF S_Scan, FreeEntry
  <2> QED
    BY <1>0, <2>1
<1>5. CASE S_SetSeq
  <2>1. /\ pingpacket'[si].seq = packet_send /\ Held' = Held /\ si \in Index
        /\ pingpacket'[si].flag = pingpacket[si].flag
        /\ \A i \in Index : i # si => pingpacket'[i] = pingpacket[i]
    BY <1>5, StoreSeq, RetryEntries
  <2>2. spc = "seq" /\ spc' = "flag" /\ UNCHANGED <<packet_send, att, si>>
    BY <1>5 DEF S_SetSeq
  <2> QED
    BY SMTT(20), <1>0, <1>n, <2>1, <2>2
<1>6. CASE S_SetFlag
  <2>1. /\ \A i \in Index : pingpacket'[i].seq = pingpacket[i].seq
        /\ \A i \in Index : pingpacket'[i].flag = IF i = si THEN 1 ELSE pingpacket[i].flag
        /\ Held' = Held
    BY <1>6, StoreFlag, RetryEntries
  <2>2. spc = "flag" /\ spc' = "sec" /\ UNCHANGED <<packet_send, att, si>>
    BY <1>6 DEF S_SetFlag
  <2>3. Countable' /\ spc' # "inc" =>
          \A i \in Index :
            /\ pingpacket'[i].seq = packet_send'
            /\ packet_send' = 0 => spc' \in Sending /\ i < si'
            => pingpacket'[i].flag = 1
    BY <1>0, <2>1, <2>2
  <2>4. \A m \in Held', i \in Index :
          pingpacket'[i].seq = m.seq /\ (m.seq = 0 => i <= m.slot) => pingpacket'[i].flag = 1
    BY <2>1
  <2> QED
    BY <2>2, <2>3, <2>4
<1>7. CASE S_SetSec \/ S_SetUsec
  <2>1. /\ \A i \in Index : /\ pingpacket'[i].seq = pingpacket[i].seq
                            /\ pingpacket'[i].flag = pingpacket[i].flag
        /\ Held' = Held
    BY <1>7, StoreSec, StoreUsec, RetryEntries
  <2>2. spc \in {"sec", "usec"} /\ spc' \in {"usec", "sendto"} /\ UNCHANGED <<packet_send, att, si>>
    BY <1>7 DEF S_SetSec, S_SetUsec
  <2> QED
    BY SMTT(20), <1>0, <2>1, <2>2
<1>8. CASE S_Sendto
  <2>1. /\ spc = "sendto" /\ UNCHANGED <<packet_send, att, si, pingpacket>>
        /\ spc' \in {"inc", "loop"}
    BY <1>8 DEF S_Sendto
  <2>2. Held' = IF spc' = "inc" THEN Held \cup {ReplyTo(att)} ELSE Held
    BY <1>8, RetryEntries
  <2>3. ReplyTo(att).seq = packet_send /\ ReplyTo(att).slot = si
    BY <1>8, RetryReply
  <2>4. si < Slots => pingpacket[si].flag = 1
    BY <2>1 DEF RetrySlotInv
  <2>5. ASSUME NEW i \in Index, pingpacket[i].seq = packet_send, packet_send = 0 => i <= si
        PROVE  pingpacket[i].flag = 1
    BY <1>0, <2>1, <2>4, <2>5
  <2>6. CASE spc' = "inc"
    BY <2>1, <2>2, <2>3, <2>5, <2>6
  <2>7. CASE spc' = "loop"
    BY <2>1, <2>2, <2>7
  <2> QED
    BY <2>1, <2>6, <2>7
<1>9. CASE StartMatch
  BY <1>9 DEF StartMatch, sendVars
<1>10. CASE R_Scan
  BY <1>10, RetryEntries DEF R_Scan, sendVars
<1>11. CASE R_Free
  <2>1. /\ \A i \in Index : /\ pingpacket'[i].seq = pingpacket[i].seq
                            /\ i # ri => pingpacket'[i].flag = pingpacket[i].flag
        /\ Held' = Held \ {cur} /\ cur \in Held /\ ri \in Index
    BY <1>11, Release, RetryEntries
  <2>2. pingpacket[ri].seq = cur.seq
    BY <1>11 DEF R_Free, RetrySlotInv
  <2>3. UNCHANGED <<spc, packet_send, att, si>>
    BY <1>11 DEF R_Free, sendVars
  <2> QED
    BY <1>n, <2>1, <2>2, <2>3
<1> QED
  BY <1>1, <1>2, <1>3, <1>4, <1>5, <1>6, <1>7, <1>8, <1>9, <1>10, <1>11, Steps

LEMMA RetrySlotStep ==
  ASSUME TypeOK, SummaryInv, Undisturbed, Undisturbed', RetryNumberInv, RetryTakenInv,
         RetrySlotInv, [Next]_vars
  PROVE  RetrySlotInv'
<1> USE DEF RetrySlotInv
<1>0. /\ si \in 0 .. Slots /\ ri \in 0 .. Slots /\ cur.slot \in 0 .. Slots
      /\ Slots \in Nat /\ Index = 0 .. Slots - 1
      /\ \A i \in Index : pingpacket[i].seq \in Int /\ pingpacket[i].flag \in {0, 1}
      /\ \A m \in Held : m.seq \in Nat /\ m.slot \in 0 .. Slots
  BY RetryTypeFacts DEF RetryTypes
<1>n. /\ spc \in Sending => \A m \in Held : m.seq # packet_send
      /\ \A m, n \in Held : m.seq = n.seq => m = n
  BY DEF RetryNumberInv, Countable, Sending
<1>f. /\ \A m \in Held : m.slot < Slots => m.slot \in Index /\ pingpacket[m.slot].flag = 1
      /\ rpc = "free" /\ ri \in Index => pingpacket[ri].flag = 1
  <2>1. \A m \in Held : m.slot < Slots => m.slot \in Index /\ pingpacket[m.slot].flag = 1
    BY <1>0 DEF RetryTakenInv
  <2>2. rpc = "free" => cur \in Held
    BY DEF Held
  <2> QED
    BY <2>1, <2>2 DEF RetryTakenInv
<1>r. rpc = "free" => ri \in Index
  BY <1>0 DEF TypeOK
<1>1. CASE Quiet
  BY <1>1 DEF Quiet, S_Inc, R_ReadSec, Sending, Matching
<1>2. CASE StartAttempt
  BY <1>2, RetryEntries DEF StartAttempt, S_Loop, recvVars
<1>3. CASE S_Scan
  <2>1. /\ UNCHANGED <<packet_send, pingpacket, rpc, ri, cur>> /\ Held' = Held
        /\ \/ spc' = "sendto" /\ si' = Slots
           \/ spc' = "seq" /\ si' = si /\ pingpacket[si].flag = 0
           \/ spc' = "scan"
    BY <1>3, RetryEntries DEF S_Scan, FreeEntry, recvVars
  <2> QED
    BY <1>0, <2>1
<1>4. CASE S_SetSeq
  <2>1. /\ pingpacket'[si].seq = packet_send /\ Held' = Held /\ si \in Index
        /\ pingpacket'[si].flag = pingpacket[si].flag
        /\ \A i \in Index : i # si => pingpacket'[i] = pingpacket[i]
    BY <1>4, StoreSeq, RetryEntries
  <2>2. spc = "seq" /\ spc' = "flag" /\ UNCHANGED <<packet_send, si, rpc, ri, cur>>
    BY <1>4 DEF S_SetSeq, recvVars
  <2>3. pingpacket[si].flag = 0
    BY <2>2
  <2> QED
    BY <1>f, <1>r, <2>1, <2>2, <2>3
<1>5. CASE S_SetFlag
  <2>1. /\ \A i \in Index : pingpacket'[i].seq = pingpacket[i].seq
        /\ pingpacket'[si].flag = 1 /\ Held' = Held /\ si \in Index
    BY <1>5, StoreFlag, RetryEntries
  <2>2. spc = "flag" /\ spc' = "sec" /\ UNCHANGED <<packet_send, si, rpc, ri, cur>>
    BY <1>5 DEF S_SetFlag, recvVars
  <2> QED
    BY <1>f, <1>r, <2>1, <2>2
<1>6. CASE S_SetSec \/ S_SetUsec
  <2>1. /\ \A i \in Index : /\ pingpacket'[i].seq = pingpacket[i].seq
                            /\ pingpacket'[i].flag = pingpacket[i].flag
        /\ Held' = Held /\ si \in Index
    BY <1>6, StoreSec, StoreUsec, RetryEntries
  <2>2. spc \in {"sec", "usec"} /\ spc' \in {"usec", "sendto"} /\ UNCHANGED <<packet_send, si, rpc, ri, cur>>
    BY <1>6 DEF S_SetSec, S_SetUsec, recvVars
  <2> QED
    BY <1>f, <1>r, <2>1, <2>2
<1>7. CASE S_Sendto
  <2>1. /\ spc = "sendto" /\ UNCHANGED <<packet_send, si, pingpacket, rpc, ri, cur>>
        /\ spc' \in {"inc", "loop"}
    BY <1>7 DEF S_Sendto, recvVars
  <2>2. Held' \subseteq Held \cup {ReplyTo(att)}
    BY <1>7, RetryEntries
  <2>3. ReplyTo(att).seq = packet_send /\ ReplyTo(att).slot = si
    BY <1>7, RetryReply
  <2> QED
    BY <2>1, <2>2, <2>3
<1>8. CASE StartMatch
  <2>1. cur' \in Message
    BY <1>8 DEF StartMatch, TypeOK
  <2> QED
    BY <1>0, <1>8, <2>1 DEF StartMatch, sendVars, Message
<1>9. CASE R_Scan
  <2>1. /\ rpc = "scan" /\ UNCHANGED <<spc, si, packet_send, pingpacket, cur>>
        /\ \/ rpc' = "loop"
           \/ rpc' = "free" /\ ri' = ri /\ pingpacket[ri].seq = cur.seq
           \/ rpc' = "scan" /\ ri' = ri + 1 /\ ri < Slots /\ pingpacket[ri].seq # cur.seq
    BY <1>9 DEF R_Scan, Matches, sendVars
  <2>2. Held' \subseteq Held /\ cur \in Held
    BY <1>9, <2>1, RetryEntries DEF Held
  <2> QED
    BY <1>0, <2>1, <2>2
<1>10. CASE R_Free
  <2>1. /\ \A i \in Index : /\ pingpacket'[i].seq = pingpacket[i].seq
                            /\ i # ri => pingpacket'[i].flag = pingpacket[i].flag
        /\ pingpacket'[ri].flag = 0
        /\ Held' = Held \ {cur} /\ cur \in Held /\ ri \in Index
    BY <1>10, Release, RetryEntries
  <2>2. pingpacket[ri].seq = cur.seq
    BY <1>10 DEF R_Free
  <2>3. UNCHANGED <<spc, packet_send, si>> /\ rpc' = "sec"
    BY <1>10 DEF R_Free, sendVars
  <2>4. spc \in {"seq", "flag"} => si \in Index
    BY <1>0 DEF TypeOK
  <2> QED
    BY SMTT(20), <1>0, <1>n, <1>f, <2>1, <2>2, <2>3, <2>4 DEF Sending
<1> QED
  BY <1>1, <1>2, <1>3, <1>4, <1>5, <1>6, <1>7, <1>8, <1>9, <1>10, Steps

\* The three sets that are counted are finite.
LEMMA CountedFinite ==
  ASSUME IsFiniteSet(wire), Slots \in Nat
  PROVE  /\ IsFiniteSet(TakenEntries) /\ Cardinality(TakenEntries) \in Nat
         /\ IsFiniteSet(SavedHeld) /\ Cardinality(SavedHeld) \in Nat
<1>1. IsFiniteSet(Index)
  BY FS_Interval DEF Index
<1>2. IsFiniteSet(wire \cup {cur})
  BY FS_AddElement
<1>3. TakenEntries \subseteq Index /\ SavedHeld \subseteq wire \cup {cur}
  BY DEF TakenEntries, SavedHeld, Held
<1>4. IsFiniteSet(TakenEntries) /\ IsFiniteSet(SavedHeld)
  BY <1>1, <1>2, <1>3, FS_Subset
<1> QED
  BY <1>4, FS_CardinalityType

LEMMA WireFinite == ASSUME IsFiniteSet(wire), [Next]_vars PROVE IsFiniteSet(wire')
<1>1. wire' \subseteq wire \cup {ReplyTo(att)}
  BY DEF Next, Main, M_Setup, M_Arm, M_StartSend, M_StartRecv, M_Join, M_JoinMissing, M_Stats,
     Sender, S_Begin, S_Loop, S_Scan, S_SetSeq, S_SetFlag, S_SetSec, S_SetUsec, S_Sendto, S_Inc,
     Receiver, R_Loop, R_Timeout, R_Recv, R_Scan, R_Free, R_ReadSec, R_Count, SigInt, vars
<1>2. IsFiniteSet(wire \cup {ReplyTo(att)})
  BY FS_AddElement
<1> QED
  BY <1>1, <1>2, FS_Subset

LEMMA TakenCountStep ==
  ASSUME TypeOK, SummaryInv, Undisturbed, Undisturbed', RetryNumberInv, RetryTakenInv,
         RetrySlotInv, TakenCount, IsFiniteSet(wire), [Next]_vars
  PROVE  TakenCount'
<1>0. RetryTypes /\ fails' \in Nat
  BY RetryTypeFacts, NextType DEF TypeOK
<1>c. /\ IsFiniteSet(TakenEntries) /\ Cardinality(TakenEntries) \in Nat
      /\ IsFiniteSet(SavedHeld) /\ Cardinality(SavedHeld) \in Nat
      /\ Cardinality(TakenEntries) <= Cardinality(SavedHeld) + fails + UnderWay
  BY <1>0, CountedFinite DEF TakenCount, RetryTypes
<1>u. PICK u, v \in 0 .. 1 : UnderWay = u /\ UnderWay' = v
  BY DEF UnderWay
<1>1. CASE /\ TakenEntries' = TakenEntries /\ SavedHeld' = SavedHeld
           /\ fails' + UnderWay' >= fails + UnderWay
  <2>1. /\ Cardinality(TakenEntries)' = Cardinality(TakenEntries)
        /\ Cardinality(SavedHeld)' = Cardinality(SavedHeld)
    BY <1>1
  <2>2. PICK f, g \in Nat : f = fails /\ g = fails'
    BY <1>0 DEF RetryTypes
  <2>3. PICK t, h \in Nat : t = Cardinality(TakenEntries) /\ h = Cardinality(SavedHeld)
    BY <1>c
  <2>4. t <= h + f + u /\ g + v >= f + u
    BY <1>1, <1>c, <1>u, <2>2, <2>3
  <2>5. t <= h + g + v
    BY <2>4
  <2> QED
    BY <1>u, <2>1, <2>2, <2>3, <2>5 DEF TakenCount
<1>2. CASE Quiet
  BY <1>0, <1>1, <1>2 DEF Quiet, S_Inc, Sending, TakenEntries, SavedHeld, UnderWay, RetryTypes
<1>3. CASE StartAttempt \/ S_SetSeq
  <2>1. /\ Held' = Held /\ UnderWay' = 0 /\ UnderWay = 0 /\ fails' = fails
    BY <1>3, RetryEntries DEF StartAttempt, S_Loop, S_SetSeq, UnderWay, ghostVars
  <2>2. \A i \in Index : pingpacket'[i].flag = pingpacket[i].flag
    BY <1>3, StoreSeq DEF StartAttempt, S_Loop
  <2>3. TakenEntries' = TakenEntries /\ SavedHeld' = SavedHeld
    BY <2>1, <2>2 DEF TakenEntries, SavedHeld
  <2> QED
    BY <1>0, <1>1, <2>1, <2>3 DEF RetryTypes
<1>4. CASE S_Scan
  <2>1. /\ Held' = Held /\ UnderWay' = 0 /\ UnderWay = 0 /\ UNCHANGED <<fails, pingpacket>>
    BY <1>0, <1>4, RetryEntries DEF S_Scan, UnderWay, ghostVars, RetryTypes
  <2> QED
    BY <1>0, <1>1, <2>1 DEF TakenEntries, SavedHeld, RetryTypes
<1>5. CASE S_SetFlag
  <2>1. /\ Held' = Held /\ fails' = fails /\ UnderWay = 0 /\ UnderWay' = 1
    BY <1>5, RetryEntries DEF S_SetFlag, UnderWay, ghostVars, TypeOK
  <2>2. /\ \A i \in Index : pingpacket'[i].flag = IF i = si THEN 1 ELSE pingpacket[i].flag
        /\ si \in Index
    BY <1>5, StoreFlag
  <2>3. TakenEntries' = TakenEntries \cup {si} /\ SavedHeld' = SavedHeld
    BY <2>1, <2>2 DEF TakenEntries, SavedHeld
  <2>4. si \notin TakenEntries
    BY <1>5 DEF S_SetFlag, RetrySlotInv, TakenEntries
  <2>5. Cardinality(TakenEntries') = Cardinality(TakenEntries) + 1
    BY <1>c, <2>3, <2>4, FS_AddElement
  <2> QED
    BY <1>0, <1>c, <2>1, <2>3, <2>5 DEF TakenCount, RetryTypes
<1>6. CASE S_SetSec \/ S_SetUsec
  <2>1. /\ Held' = Held /\ fails' = fails /\ UnderWay' = UnderWay
    BY <1>6, RetryEntries DEF S_SetSec, S_SetUsec, UnderWay, ghostVars
  <2>2. \A i \in Index : pingpacket'[i].flag = pingpacket[i].flag
    BY <1>6, StoreSec, StoreUsec
  <2>3. TakenEntries' = TakenEntries /\ SavedHeld' = SavedHeld
    BY <2>1, <2>2 DEF TakenEntries, SavedHeld
  <2> QED
    BY <1>0, <1>1, <1>u, <2>1, <2>3 DEF RetryTypes
<1>7. CASE S_Sendto /\ spc' = "inc"
  <2>1. /\ spc = "sendto" /\ UNCHANGED <<pingpacket, si, fails>> /\ UnderWay' = 0
        /\ UnderWay = IF si < Slots THEN 1 ELSE 0
    BY <1>7 DEF S_Sendto, UnderWay
  <2>2. Held' = Held \cup {ReplyTo(att)} /\ ReplyTo(att).slot = si /\ ReplyTo(att) \notin Held
    BY <1>7, RetryEntries, RetryReply
  <2>3. TakenEntries' = TakenEntries
    BY <2>1 DEF TakenEntries
  <2>4. CASE si < Slots
    <3>1. SavedHeld' = SavedHeld \cup {ReplyTo(att)} /\ ReplyTo(att) \notin SavedHeld
      BY <2>2, <2>4 DEF SavedHeld
    <3>2. Cardinality(SavedHeld') = Cardinality(SavedHeld) + 1
      BY <1>c, <3>1, FS_AddElement
    <3> QED
      BY <1>0, <1>c, <2>1, <2>3, <2>4, <3>2 DEF TakenCount, RetryTypes
  <2>5. CASE ~(si < Slots)
    <3>1. SavedHeld' = SavedHeld
      BY <2>2, <2>5 DEF SavedHeld
    <3> QED
      BY <1>0, <1>1, <2>1, <2>3, <2>5, <3>1 DEF RetryTypes
  <2> QED
    BY <2>4, <2>5
<1>8. CASE S_Sendto /\ spc' # "inc"
  <2>1. /\ UNCHANGED pingpacket /\ fails' = fails + 1 /\ Held' = Held
    BY <1>8, RetryEntries DEF S_Sendto
  <2>2. TakenEntries' = TakenEntries /\ SavedHeld' = SavedHeld
    BY <2>1 DEF TakenEntries, SavedHeld
  <2>3. fails' + v >= fails + u
    BY <1>0, <2>1 DEF RetryTypes
  <2> QED
    BY <1>1, <1>u, <2>2, <2>3
<1>9. CASE StartMatch
  BY <1>0, <1>1, <1>9 DEF StartMatch, sendVars, TakenEntries, SavedHeld, UnderWay, RetryTypes
<1>10. CASE R_Scan
  <2>1. /\ UNCHANGED <<pingpacket, spc, si, fails>> /\ UnderWay' = UnderWay
        /\ rpc = "scan" /\ (rpc' = "loop" => ri = Slots)
    BY <1>0, <1>10 DEF R_Scan, sendVars, ghostVars, UnderWay, RetryTypes
  <2>2. rpc' = "loop" => cur.slot = Slots
    BY <1>0, <2>1 DEF RetrySlotInv, RetryTypes
  <2>3. SavedHeld' = SavedHeld
    BY <1>0, <1>10, <2>2, RetryEntries DEF SavedHeld, RetryTypes
  <2> QED
    BY <1>0, <1>1, <1>u, <2>1, <2>3 DEF TakenEntries, RetryTypes
<1>11. CASE R_Free
  <2>1. /\ \A i \in Index : pingpacket'[i].flag = IF i = ri THEN 0 ELSE pingpacket[i].flag
        /\ Held' = Held \ {cur} /\ cur \in Held /\ ri \in Index
    BY <1>11, Release, RetryEntries
  <2>2. UNCHANGED <<spc, si, fails>> /\ UnderWay' = UnderWay
    BY <1>11 DEF R_Free, sendVars, ghostVars, UnderWay
  <2>3. ri \in TakenEntries
    BY <1>11, <2>1 DEF R_Free, RetrySlotInv, RetryTakenInv, TakenEntries
  <2>4. TakenEntries' = TakenEntries \ {ri}
    BY <2>1 DEF TakenEntries
  <2>5. Cardinality(TakenEntries') = Cardinality(TakenEntries) - 1
    BY <1>c, <2>3, <2>4, FS_RemoveElement
  <2>6. SavedHeld' = SavedHeld \ {cur}
    BY <2>1 DEF SavedHeld
  <2>7. Cardinality(SavedHeld') \in {Cardinality(SavedHeld), Cardinality(SavedHeld) - 1}
    BY <1>c, <2>6, FS_RemoveElement
  <2> QED
    BY <1>0, <1>c, <1>u, <2>2, <2>5, <2>7 DEF TakenCount, RetryTypes
<1> QED
  BY <1>2, <1>3, <1>4, <1>5, <1>6, <1>7, <1>8, <1>9, <1>10, <1>11, Steps

LEMMA RetryInvariant == Spec => [](TypeOK /\ SummaryInv /\ RetryInv)
<1>1. Init => RetryInv
  <2> SUFFICES ASSUME Init PROVE RetryInv
    OBVIOUS
  <2>1. /\ Held = {} /\ SavedHeld = {} /\ TakenEntries = {} /\ wire = {} /\ fails = 0
        /\ spc = "none" /\ rpc = "none" /\ packet_send = 0 /\ att = 0
        /\ \A i \in Index : pingpacket[i].seq = 0
    BY DEF Init, Held, SavedHeld, TakenEntries, EmptyEntry
  <2>2. IsFiniteSet(wire) /\ TakenCount
    BY <2>1, FS_EmptySet DEF TakenCount, UnderWay
  <2>3. RetryNumberInv /\ RetryTakenInv /\ RetrySlotInv
    BY <2>1 DEF RetryNumberInv, RetryTakenInv, RetrySlotInv, Sending
  <2> QED
    BY <2>2, <2>3 DEF RetryInv
<1>2. ASSUME TypeOK, SummaryInv, RetryInv, [Next]_vars PROVE RetryInv'
  <2>1. IsFiniteSet(wire)'
    BY <1>2, WireFinite DEF RetryInv
  <2>2. ASSUME Undisturbed' PROVE (RetryNumberInv /\ RetryTakenInv /\ RetrySlotInv /\ TakenCount)'
    <3>1. Undisturbed
      BY <1>2, <2>2, UndisturbedBefore
    <3>2. RetryNumberInv /\ RetryTakenInv /\ RetrySlotInv /\ TakenCount /\ IsFiniteSet(wire)
      BY <1>2, <3>1 DEF RetryInv
    <3> QED
      BY <1>2, <2>2, <3>1, <3>2, RetryNumberStep, RetryTakenStep, RetrySlotStep, TakenCountStep
  <2> QED
    BY <2>1, <2>2 DEF RetryInv
<1> QED
  BY <1>1, <1>2, SummaryInvariant, PTL DEF Spec

\* However many sendto fail, and whichever entry the answer to a number releases: no
\* more than one entry for each failure stays taken without a probe.
THEOREM LeaksBounded == Spec => []LeaksOnlyOnFailure
<1>1. ASSUME TypeOK, SummaryInv, RetryInv PROVE LeaksOnlyOnFailure
  <2> SUFFICES ASSUME Undisturbed
               PROVE  Cardinality(TakenEntries) <= Cardinality(SavedUnmatched) + fails + AtHand
    BY DEF LeaksOnlyOnFailure, Undisturbed, TakenEntries
  <2>1. /\ IsFiniteSet(TakenEntries) /\ Cardinality(TakenEntries) \in Nat
        /\ IsFiniteSet(SavedHeld) /\ Cardinality(SavedHeld) \in Nat
        /\ Cardinality(TakenEntries) <= Cardinality(SavedHeld) + fails + UnderWay
    BY <1>1, CountedFinite, PingAssumption DEF RetryInv, TakenCount
  <2>2. /\ IsFiniteSet(SavedUnmatched) /\ Cardinality(SavedUnmatched) \in Nat
        /\ Cardinality(SavedHeld) <= Cardinality(SavedUnmatched) + (IF rpc = "free" THEN 1 ELSE 0)
    <3>1. SavedUnmatched \subseteq SavedHeld
      BY DEF SavedUnmatched, Unmatched, SavedHeld, Held
    <3>2. IsFiniteSet(SavedUnmatched) /\ Cardinality(SavedUnmatched) \in Nat
      BY <2>1, <3>1, FS_Subset, FS_CardinalityType
    <3>3. CASE rpc = "free"
      <4>1. SavedHeld \subseteq SavedUnmatched \cup {cur}
        BY <3>3 DEF SavedUnmatched, Unmatched, SavedHeld, Held
      <4>2. /\ IsFiniteSet(SavedUnmatched \cup {cur})
            /\ Cardinality(SavedUnmatched \cup {cur}) <= Cardinality(SavedUnmatched) + 1
        BY <3>2, FS_AddElement
      <4>3. Cardinality(SavedHeld) <= Cardinality(SavedUnmatched \cup {cur})
        BY <4>1, <4>2, FS_Subset
      <4> QED
        BY <2>1, <3>2, <3>3, <4>2, <4>3, FS_CardinalityType
    <3>4. CASE rpc # "free"
      <4>1. SavedHeld = SavedUnmatched
        BY <3>4 DEF SavedUnmatched, Unmatched, SavedHeld, Held
      <4> QED
        BY <2>1, <3>2, <3>4, <4>1
    <3> QED
      BY <3>2, <3>3, <3>4
  <2>3. UnderWay + (IF rpc = "free" THEN 1 ELSE 0) <= AtHand /\ UnderWay \in {0, 1}
    BY DEF UnderWay, AtHand
  <2> QED
    BY <1>1, <2>1, <2>2, <2>3 DEF TypeOK, AtHand
<1> QED
  BY <1>1, RetryInvariant, PTL

-----------------------------------------------------------------------------
(* Refinement. *)

\* What the bounds on the environment bound.
BoundInv == att <= MaxAttempts /\ dups <= MaxDups /\ twins <= MaxTwins

LEMMA BoundInvariant == Spec => []BoundInv
<1>0. MaxAttempts \in Nat /\ MaxDups \in Nat /\ MaxTwins \in Nat
  BY PingAssumption
<1>1. Init => BoundInv
  BY <1>0 DEF Init, BoundInv
<1>2. TypeOK /\ BoundInv /\ [Next]_vars => BoundInv'
  BY <1>0 DEF TypeOK, BoundInv,
     Next, Main, M_Setup, M_Arm, M_StartSend, M_StartRecv, M_Join, M_JoinMissing,
     M_Stats, Sender, S_Begin, S_Loop, S_Scan, S_SetSeq, S_SetFlag, S_SetSec, S_SetUsec,
     S_Sendto, S_Inc, Receiver, R_Loop, R_Timeout, R_Recv, R_Scan, R_Free, R_ReadSec,
     R_Count, SigInt, vars, mainVars, sendVars, recvVars, ghostVars
<1> QED
  BY <1>1, <1>2, TypeCorrect, PTL DEF Spec

\* Without duplicates, twins and wrap, ping implements PingAbs.
THEOREM Refines ==
  ASSUME MaxDups = 0, MaxTwins = 0, MaxAttempts < Half PROVE Spec => AbsSpec
<1> DEFINE report == IF mpc = "done" THEN <<packet_send, packet_recv>> ELSE <<>>
<1> DEFINE Inv == TypeOK /\ SummaryInv /\ BoundInv
<1>0. \A S : Abs!Cardinality(S) = Cardinality(S)
  BY DEF Cardinality, Abs!Cardinality, IsFiniteSet, Abs!IsFiniteSet
<1>1. Init => Abs!Init
  BY DEF Init, Abs!Init
<1>2. ASSUME Inv, [Next]_vars PROVE [Abs!Next]_(Abs!vars)
  <2> USE DEF mainVars, sendVars, recvVars, ghostVars
  <2>0. dups = 0 /\ twins = 0 /\ att < Half /\ att \in Nat
    BY <1>2, PingAssumption, HalfType DEF BoundInv, TypeOK
  <2>1. mpc = "done" => spc \in {"end", "none"} /\ rpc \in {"end", "none"}
    BY <1>2 DEF SummaryInv, ControlInv, Joined
  <2>2. CASE S_Sendto /\ spc' = "inc"
    <3>1. att \in 1 .. MaxAttempts /\ att \notin sent
      BY <1>2, <2>0, <2>2, PingAssumption
      DEF S_Sendto, SummaryInv, WireInv, TimeInv, Sending, BoundInv
    <3>2. report = <<>> /\ report' = <<>>
      BY <2>1, <2>2 DEF S_Sendto
    <3>3. sent' = sent \cup {att} /\ counted' = counted
      BY <2>2 DEF S_Sendto
    <3> QED
      BY <3>1, <3>2, <3>3 DEF Abs!Next, Abs!Transmit
  <2>3. CASE R_Count
    <3>1. cur.att \in 1 .. MaxAttempts /\ cur.att \in sent \ counted
      <4>1. cur.att \in sent /\ sent \subseteq 1 .. att
        BY <1>2, <2>0, <2>3 DEF R_Count, SummaryInv, WireInv, Matching
      <4>2. cur.att \notin counted
        BY <1>2, <2>0, <2>3 DEF R_Count, SummaryInv, NoDupInv, Matching
      <4>3. att <= MaxAttempts /\ MaxAttempts \in Nat
        BY <1>2, PingAssumption DEF BoundInv
      <4> QED
        <5>1. cur.att \in 1 .. att
          BY <4>1
        <5>2. cur.att \in 1 .. MaxAttempts
          BY <2>0, <4>3, <5>1
        <5> QED
          BY <4>1, <4>2, <5>2
    <3>2. report = <<>> /\ report' = <<>>
      BY <2>1, <2>3 DEF R_Count
    <3>3. counted' = counted \cup {cur.att} /\ sent' = sent
      BY <2>3 DEF R_Count
    <3> QED
      BY <3>1, <3>2, <3>3 DEF Abs!Next, Abs!Answer
  <2>4. CASE M_Stats
    <3>1. spc # "inc"
      BY <1>2, <2>4 DEF M_Stats, SummaryInv, ControlInv, Joined
    <3>2. packet_send = Cardinality(sent) /\ packet_recv = Cardinality(counted)
      BY <1>2, <2>0, <3>1, SizeBounds DEF SummaryInv, CountInv
    <3>3. sent' = sent /\ counted' = counted /\ packet_send' = packet_send
          /\ packet_recv' = packet_recv
      BY <2>4 DEF M_Stats
    <3>4. CASE mpc' = "done"
      <4>1. report = <<>> /\ report' = <<Cardinality(sent), Cardinality(counted)>>
        BY <2>4, <3>2, <3>3, <3>4 DEF M_Stats
      <4> QED
        BY <1>0, <3>3, <4>1 DEF Abs!Next, Abs!Report
    <3>5. CASE mpc' = "crash"
      <4>1. report = <<>> /\ report' = <<>>
        BY <2>4, <3>5 DEF M_Stats
      <4> QED
        BY <3>3, <4>1 DEF Abs!vars
    <3> QED
      BY <2>4, <3>4, <3>5 DEF M_Stats
  <2>5. CASE UNCHANGED <<sent, counted, report>>
    BY <2>5 DEF Abs!vars
  <2>6. M_Setup \/ M_Arm \/ M_StartSend \/ M_StartRecv \/ M_Join
        \/ M_JoinMissing => UNCHANGED <<sent, counted, report>>
    BY DEF M_Setup, M_Arm, M_StartSend, M_StartRecv, M_Join, M_JoinMissing
  <2>7. S_Begin \/ S_Loop \/ S_Scan \/ S_SetSeq \/ S_SetFlag \/ S_SetSec \/ S_SetUsec \/ S_Inc
        \/ (S_Sendto /\ spc' = "loop") => UNCHANGED <<sent, counted, report>>
    BY <2>1 DEF S_Begin, S_Loop, S_Scan, S_SetSeq, S_SetFlag, S_SetSec, S_SetUsec, S_Inc, S_Sendto
  <2>8. R_Loop \/ R_Timeout \/ R_Scan \/ R_Free \/ R_ReadSec
        \/ (\E m \in wire \cup Foreign : R_Recv(m))
        => UNCHANGED <<sent, counted, report>>
    BY DEF R_Loop, R_Timeout, R_Scan, R_Free, R_ReadSec, R_Recv
  <2>9. (\E t \in {"recv", "other"} : SigInt(t)) \/ UNCHANGED vars
        => UNCHANGED <<sent, counted, report>>
    BY DEF SigInt, vars
  <2>10. S_Sendto => spc' = "inc" \/ spc' = "loop"
    BY DEF S_Sendto
  <2> QED
    BY <1>2, <2>2, <2>3, <2>4, <2>5, <2>6, <2>7, <2>8, <2>9, <2>10
    DEF Next, Main, Sender, Receiver
<1>3. Spec => []Inv
  BY SummaryInvariant, BoundInvariant, PTL
<1> QED
  BY <1>1, <1>2, <1>3, PTL DEF Spec, AbsSpec, Abs!Spec

-----------------------------------------------------------------------------
(* The arithmetic of 57-socket_raw_ping.c. *)

LEMMA MillionNat == Million \in Nat \ {0}
BY SMT, PingArithAssumption

\* icmp_tvsub returns a normalised time, the exact difference of its arguments,
\* also when end is before begin: the borrow is right.
THEOREM TvsubExact ==
  ASSUME NEW end \in TimeVal, NEW begin \in TimeVal
  PROVE  /\ icmp_tvsub(end, begin) \in TimeVal
         /\ Micros(icmp_tvsub(end, begin)) = Micros(end) - Micros(begin)
<1>1. /\ end.sec \in Int /\ end.usec \in 0 .. Million - 1
      /\ begin.sec \in Int /\ begin.usec \in 0 .. Million - 1
  BY DEF TimeVal
<1>2. CASE end.usec < begin.usec
  <2>1. icmp_tvsub(end, begin) = [sec |-> end.sec - begin.sec - 1,
                                  usec |-> end.usec - begin.usec + Million]
    BY <1>1, <1>2, MillionNat DEF icmp_tvsub
  <2>2. end.usec - begin.usec + Million \in 0 .. Million - 1
    BY <1>1, <1>2, MillionNat
  <2> QED
    BY <1>1, <2>1, <2>2, MillionNat DEF TimeVal, Micros
<1>3. CASE end.usec >= begin.usec
  <2>1. icmp_tvsub(end, begin) = [sec |-> end.sec - begin.sec,
                                  usec |-> end.usec - begin.usec]
    BY <1>1, <1>3, MillionNat DEF icmp_tvsub
  <2>2. end.usec - begin.usec \in 0 .. Million - 1
    BY <1>1, <1>3, MillionNat
  <2> QED
    BY <1>1, <2>1, <2>2, MillionNat DEF TimeVal, Micros
<1> QED
  BY <1>1, <1>2, <1>3, MillionNat

\* Quotient and remainder of a division by a number that need not be a numeral.
LEMMA Division ==
  ASSUME NEW W \in Nat \ {0}, NEW x \in Nat
  PROVE  /\ x \div W \in Nat /\ x % W \in 0 .. W - 1
         /\ x = W * (x \div W) + (x % W)
         /\ W * (x \div W) <= x /\ x < W * (x \div W) + W
<1>1. x % W \in 0 .. W - 1
  BY SMT
<1>2. x \div W \in Int /\ x = W * (x \div W) + (x % W)
  BY SMT
<1>3. x \div W \in Nat
  BY SMT
<1> QED
  BY SMT, <1>1, <1>2, <1>3

\* The laws of products that the proofs below use.
LEMMA Product ==
  ASSUME NEW a \in Int, NEW b \in Int, NEW c \in Int
  PROVE  /\ a * b \in Int /\ a * (b + c) = a * b + a * c /\ a * (b + 1) = a * b + a
         /\ a * (b * c) = (a * b) * c /\ (a - 1) * b = a * b - b
BY SMT

\* The remainder and the quotient are the only ones.
LEMMA Remainder ==
  ASSUME NEW W \in Nat \ {0}, NEW q \in Nat, NEW r \in 0 .. W - 1, NEW x \in Nat,
         x = r + W * q
  PROVE  x % W = r /\ x \div W = q
<1>1. x % W = r
  BY SMT
<1>2. W * (x \div W) = W * q /\ x \div W \in Int
  BY SMT, <1>1
<1> QED
  BY SMT, <1>1, <1>2

\* The milliseconds printed are those of the whole difference, rounded down.
THEOREM MillisExact ==
  ASSUME NEW end \in TimeVal, NEW begin \in TimeVal
  PROVE  LET ms == Millis(icmp_tvsub(end, begin))
             us == Micros(end) - Micros(begin)
         IN  Thousand * ms <= us /\ us < Thousand * ms + Thousand
<1>1. PICK s \in Int, u \in Nat : icmp_tvsub(end, begin) = [sec |-> s, usec |-> u]
  BY TvsubExact, MillionNat DEF TimeVal
<1>2. PICK q \in Nat : q = u \div Thousand /\ Thousand * q <= u /\ u < Thousand * q + Thousand
  BY Division, PingArithAssumption
<1>3. Micros(end) - Micros(begin) = Million * s + u
  BY <1>1, TvsubExact DEF Micros
<1>4. Millis(icmp_tvsub(end, begin)) = Thousand * s + q
  BY <1>1, <1>2 DEF Millis
<1>5. Thousand * (Thousand * s + q) = Million * s + Thousand * q
  <2>1. Thousand * (Thousand * s) = (Thousand * Thousand) * s /\ Thousand * s \in Int
    BY Product, PingArithAssumption
  <2> QED
    BY <2>1, Product, PingArithAssumption
<1>6. Thousand \in Int /\ Million \in Int
  BY PingArithAssumption, MillionNat
<1> DEFINE tq == Thousand * q
           ts == Million * s
<1>7. tq \in Int /\ ts \in Int
  BY SMT, <1>1, <1>2, <1>6
<1>8. tq <= u /\ u < tq + Thousand
  BY <1>2
<1>9. Thousand * (Thousand * s + q) = ts + tq /\ Micros(end) - Micros(begin) = ts + u
  BY <1>3, <1>5
<1> HIDE DEF tq, ts
<1>10. ts + tq <= ts + u /\ ts + u < ts + tq + Thousand
  BY <1>1, <1>6, <1>7, <1>8
<1> QED
  BY <1>4, <1>9, <1>10

\* Adding the checksum to the sum it was computed from gives a multiple of
\* Word - 1, so that whoever checks the message finds it right: for every sum that
\* an int holds, one further carry is enough.
THEOREM ChecksumVerifies ==
  ASSUME NEW sum \in Sum
  PROVE  /\ icmp_cksum(sum) \in 0 .. Word - 1
         /\ (sum + icmp_cksum(sum)) % (Word - 1) = 0
<1>0. Word \in Nat \ {0} /\ Word > 1 /\ sum \in Nat /\ 2 * (sum \div Word) < Word
  BY PingArithAssumption DEF Sum
<1>1. PICK h \in Nat, l \in 0 .. Word - 1 :
        /\ h = sum \div Word /\ l = sum % Word
        /\ sum = Word * h + l
  BY <1>0, Division
<1>2. Folded(sum) = h + l /\ h + h < Word
  BY <1>0, <1>1 DEF Folded
<1>3. ASSUME NEW c \in {0, 1}, NEW t \in 0 .. Word - 1, h + l + c = t + Word * c,
             Twice(sum) = h + l + c
      PROVE  icmp_cksum(sum) \in 0 .. Word - 1 /\ (sum + icmp_cksum(sum)) % (Word - 1) = 0
  <2>1. Twice(sum) \in Nat
    BY <1>0, <1>1, <1>3
  <2>2. Twice(sum) % Word = t
    BY <1>0, <1>3, <2>1, Remainder
  <2>3. icmp_cksum(sum) = Word - 1 - t
    BY <2>2 DEF icmp_cksum
  <2>4. sum + icmp_cksum(sum) = 0 + (Word - 1) * (h + 1 + c)
    <3>1. (Word - 1) * (h + 1 + c) = Word * h + Word + Word * c - h - 1 - c
      <4>1. (Word - 1) * (h + 1 + c) = Word * (h + 1 + c) - (h + 1 + c)
        BY <1>0, <1>1, <1>3, Product
      <4>2. Word * (h + 1 + c) = Word * (h + 1) + Word * c /\ Word * (h + 1) = Word * h + Word
        BY <1>0, <1>1, <1>3, Product
      <4>3. Word * h \in Int /\ Word * c \in Int
        BY <1>0, <1>1, <1>3, Product
      <4> QED
        BY <1>0, <1>1, <1>3, <4>1, <4>2, <4>3
    <3>2. sum + icmp_cksum(sum) = Word * h + l + Word - 1 - t
      BY SMT, <1>0, <1>1, <1>3, <2>3
    <3> QED
      BY SMT, <1>0, <1>1, <1>3, <3>1, <3>2
  <2>5. Word - 1 \in Nat \ {0} /\ h + 1 + c \in Nat /\ 0 \in 0 .. (Word - 1) - 1
    BY <1>0, <1>1, <1>3
  <2>6. sum + icmp_cksum(sum) \in Nat
    BY <1>0, <1>3, <2>3
  <2>7. (sum + icmp_cksum(sum)) % (Word - 1) = 0
    BY <2>4, <2>5, <2>6, Remainder
  <2> QED
    BY <1>0, <1>3, <2>3, <2>7
<1>4. CASE h + l < Word
  <2>0. h + l \in 0 .. Word - 1 /\ h + l = (h + l) + Word * 0 /\ h + l \in Nat
    BY <1>0, <1>1, <1>4
  <2>1. (h + l) \div Word = 0
    BY <1>0, <2>0, Remainder
  <2>2. Twice(sum) = h + l + 0
    BY <1>0, <1>1, <1>2, <2>1 DEF Twice
  <2> QED
    BY <1>0, <1>1, <1>3, <1>4, <2>2
<1>5. CASE h + l >= Word
  <2>1. h + l - Word \in 0 .. Word - 1 /\ h + l = (h + l - Word) + Word * 1 /\ h + l \in Nat
    BY <1>0, <1>1, <1>2, <1>5
  <2>2. (h + l) \div Word = 1
    BY <1>0, <2>1, Remainder
  <2>3. Twice(sum) = h + l + 1
    BY <1>2, <2>2 DEF Twice
  <2>4. h + l - Word + 1 \in 0 .. Word - 1 /\ h + l + 1 = (h + l - Word + 1) + Word * 1
    BY <1>0, <1>1, <1>2, <1>5
  <2> QED
    BY <1>3, <2>3, <2>4
<1> QED
  BY <1>0, <1>1, <1>4, <1>5
=============================================================================
