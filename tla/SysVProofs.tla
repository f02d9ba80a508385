----------------------------- MODULE SysVProofs -----------------------------
(***************************************************************************)
(* Proofs about the programs that share kernel objects through a           *)
(* directory, for any number of runs and any capacity of the queue.        *)
(***************************************************************************)
EXTENDS SysV, FiniteSetTheorems, SequenceTheorems, WellFoundedInduction, TLAPS

TypeOK ==
  /\ prog \in {"19", "20", "21", "22"} /\ lp64 \in BOOLEAN
  /\ msgid \in [Runs -> Nat] /\ live \in Nat /\ ids \in Nat
  /\ receiver \in [Runs -> {"start", "fork", "recv", "remove", "done", "failed", "nofork", "dead"}]
  /\ sender \in [Runs -> {"unborn", "send", "done", "failed", "dead"}]
  /\ queue \in Seq(Runs)
  /\ got \in [Runs -> Runs \cup {Nobody}] /\ unmatched \in [Runs -> BOOLEAN]
  /\ set \in Nat /\ sets \in Nat /\ semid \in [Runs -> Nat]
  /\ pc \in [Runs -> {"start", "setval", "P", "V", "getval", "destroy", "fork", "copy", "post",
                      "done", "nofork", "dead"}]

\* The other programs are not run, and of 21 and 22 only 22 forks and copies.
ProgInv ==
  /\ prog \in {"19", "20"} => set = 0 /\ \A r \in Runs : pc[r] = "start"
  /\ prog \in {"21", "22"} => live = 0 /\ \A r \in Runs : receiver[r] = "start"
  /\ \A r \in Runs : pc[r] \in {"fork", "copy", "post", "nofork"} => prog = "22"

\* A queue that has been removed does not come back under its old identifier.
IdInv ==
  /\ live <= ids /\ set <= sets
  /\ \A r \in Runs :
       /\ msgid[r] <= ids /\ semid[r] <= sets
       /\ receiver[r] # "start" => msgid[r] # 0
       /\ receiver[r] \in {"start", "fork"} => sender[r] = "unborn"

InQueue(r) == \E m \in DOMAIN queue : queue[m] = r

QueueInv ==
  /\ \A m, n \in DOMAIN queue : queue[m] = queue[n] => m = n
  /\ \A r \in Runs : InQueue(r) => sender[r] = "done" /\ msgid[r] = live

\* A message that was received comes from the receiver's queue, is not in it any
\* more, and nobody else has it.
GotInv ==
  /\ \A r \in Runs : got[r] # Nobody =>
       /\ receiver[r] \notin {"start", "fork", "recv"}
       /\ prog = "19" => sender[r] \in {"done", "failed"}
       /\ sender[got[r]] = "done" /\ msgid[got[r]] = msgid[r] /\ ~InQueue(got[r])
  /\ \A r, s \in Runs : got[r] # Nobody /\ got[r] = got[s] => r = s

\* No message gets lost while its queue is there.
KeptInv ==
  /\ \A r \in Runs : sender[r] = "done" /\ msgid[r] = live =>
       InQueue(r) \/ \E s \in Runs : got[s] = r
  /\ \A r \in Runs : prog = "19" /\ receiver[r] = "recv" => sender[r] \in {"send", "done", "failed"}

\* Whatever exists has a run that will remove it, or would have.
OwnerInv ==
  /\ live # 0 => \E r \in Runs : msgid[r] = live /\ receiver[r] \notin {"start", "done", "failed"}
  /\ set # 0 /\ prog = "21" =>
       \E r \in Runs : semid[r] = set /\ pc[r] \notin {"start", "done"}

EmptyInv ==
  /\ EmptyHandedAsExpected
  /\ \A r \in Runs : receiver[r] = "start" => ~unmatched[r]

IInv ==
  /\ TypeOK /\ (lp64 => prog = "19") /\ ProgInv /\ IdInv /\ QueueInv /\ GotInv
  /\ KeptInv /\ EmptyInv /\ OwnerInv

LEMMA InitIInv == Init => IInv
<1> SUFFICES ASSUME Init PROVE IInv
  OBVIOUS
<1>1. queue = <<>> /\ queue \in Seq(Runs) /\ DOMAIN queue = {}
  BY DEF Init, MsgInit
<1>2. TypeOK /\ (lp64 => prog = "19")
  BY <1>1, DirectoryAssumption DEF Init, MsgInit, SemInit, TypeOK
<1>3. ProgInv /\ IdInv /\ OwnerInv /\ EmptyInv
  BY DEF Init, MsgInit, SemInit, ProgInv, IdInv, OwnerInv, EmptyInv, EmptyHandedAsExpected
<1>4. QueueInv /\ GotInv /\ KeptInv
  BY <1>1 DEF Init, MsgInit, QueueInv, GotInv, KeptInv, InQueue
<1> QED
  BY <1>2, <1>3, <1>4 DEF IInv

-----------------------------------------------------------------------------
(* The queue as a sequence. *)

LEMMA SendQueue ==
  ASSUME TypeOK, QueueInv, NEW r \in Runs, ~InQueue(r), queue' = Append(queue, r)
  PROVE  /\ queue' \in Seq(Runs)
         /\ \A m, n \in DOMAIN queue' : queue'[m] = queue'[n] => m = n
         /\ \A s \in Runs : InQueue(s)' <=> InQueue(s) \/ s = r
<1>1. queue \in Seq(Runs) /\ Len(queue) \in Nat /\ DOMAIN queue = 1 .. Len(queue)
  BY LenProperties DEF TypeOK
<1>2. /\ queue' \in Seq(Runs) /\ Len(queue') = Len(queue) + 1
      /\ \A m \in 1 .. Len(queue) : queue'[m] = queue[m]
      /\ queue'[Len(queue) + 1] = r
  BY <1>1, AppendProperties
<1>3. DOMAIN queue' = 1 .. Len(queue) + 1
  BY <1>2, LenProperties
<1>4. \A m \in DOMAIN queue' : m \in 1 .. Len(queue) \/ m = Len(queue) + 1
  BY <1>1, <1>3
<1>5. \A m \in 1 .. Len(queue) : queue[m] # r
  BY <1>1 DEF InQueue
<1>6. \A m, n \in DOMAIN queue' : queue'[m] = queue'[n] => m = n
  BY <1>1, <1>2, <1>4, <1>5 DEF QueueInv
<1>7. 1 .. Len(queue) \subseteq DOMAIN queue' /\ Len(queue) + 1 \in DOMAIN queue'
  BY <1>1, <1>3
<1>8. \A s \in Runs : InQueue(s)' <=> InQueue(s) \/ s = r
  BY <1>1, <1>2, <1>4, <1>7 DEF InQueue
<1> QED
  BY <1>2, <1>6, <1>8

LEMMA ReceiveQueue ==
  ASSUME TypeOK, QueueInv, queue # <<>>, queue' = Tail(queue)
  PROVE  /\ Head(queue) \in Runs /\ InQueue(Head(queue)) /\ queue' \in Seq(Runs)
         /\ \A m, n \in DOMAIN queue' : queue'[m] = queue'[n] => m = n
         /\ \A s \in Runs : InQueue(s)' <=> InQueue(s) /\ s # Head(queue)
<1>1. queue \in Seq(Runs) /\ Len(queue) \in Nat /\ DOMAIN queue = 1 .. Len(queue)
  BY LenProperties DEF TypeOK
<1>2. /\ Head(queue) \in Runs /\ Head(queue) = queue[1] /\ Len(queue) > 0
      /\ queue' \in Seq(Runs) /\ Len(queue') = Len(queue) - 1
      /\ \A m \in 1 .. Len(queue') : queue'[m] = queue[m + 1]
  BY <1>1, HeadTailProperties, EmptySeq
<1>3. DOMAIN queue' = 1 .. Len(queue) - 1
  BY <1>2, LenProperties
<1>4. InQueue(Head(queue))
  BY <1>1, <1>2 DEF InQueue
<1>5. \A m, n \in DOMAIN queue' : queue'[m] = queue'[n] => m = n
  BY <1>1, <1>2, <1>3 DEF QueueInv
<1>6. ASSUME NEW s \in Runs, InQueue(s)' PROVE InQueue(s) /\ s # Head(queue)
  <2>1. PICK m \in 1 .. Len(queue) - 1 : queue[m + 1] = s
    BY <1>6, <1>2, <1>3 DEF InQueue
  <2>2. m + 1 \in 1 .. Len(queue) /\ 1 \in 1 .. Len(queue) /\ m + 1 # 1
    BY <1>1, <2>1
  <2> QED
    BY <1>1, <1>2, <2>1, <2>2 DEF InQueue, QueueInv
<1>7. ASSUME NEW s \in Runs, InQueue(s), s # Head(queue) PROVE InQueue(s)'
  <2>1. PICK m \in 1 .. Len(queue) : queue[m] = s
    BY <1>1, <1>7 DEF InQueue
  <2>2. m - 1 \in 1 .. Len(queue) - 1 /\ queue'[m - 1] = s
    BY <1>1, <1>2, <1>7, <2>1
  <2> QED
    BY <1>3, <2>2 DEF InQueue
<1> QED
  BY <1>2, <1>4, <1>5, <1>6, <1>7

-----------------------------------------------------------------------------
(* Why 19 finds a message, if every send on its queue succeeds: each run that *)
(* has received sent one before.                                              *)

LEMMA OneForEach ==
  ASSUME TypeOK, GotInv, KeptInv, prog = "19", NEW r \in Runs,
         receiver[r] = "recv", sender[r] # "send", Reachable(r), queue = <<>>
  PROVE  \E s \in Runs : sender[s] = "failed" /\ msgid[s] = msgid[r]
<1> SUFFICES ASSUME \A s \in Runs : sender[s] = "failed" => msgid[s] # msgid[r]
             PROVE  FALSE
  OBVIOUS
<1> DEFINE S == {s \in Runs : sender[s] = "done" /\ msgid[s] = live}
           taker == [s \in S |-> CHOOSE t \in Runs : got[t] = s]
<1>1. r \in S
  BY DEF KeptInv, Reachable
<1>2. \A s \in S : ~InQueue(s)
  BY DEF InQueue
<1>3. ASSUME NEW s \in S PROVE taker[s] \in S \ {r} /\ got[taker[s]] = s
  <2>1. \E t \in Runs : got[t] = s
    BY <1>2 DEF KeptInv
  <2>2. taker[s] \in Runs /\ got[taker[s]] = s
    BY <2>1
  <2>3. s # Nobody
    BY MsgQueueAssumption
  <2> HIDE DEF taker
  <2> QED
    BY <2>2, <2>3 DEF GotInv, Reachable
<1>4. taker \in [S -> S \ {r}]
  BY <1>3
<1>5. IsFiniteSet(S) /\ IsFiniteSet(S \ {r}) /\ Cardinality(S \ {r}) < Cardinality(S)
  <2>1. IsFiniteSet(S)
    BY DirectoryAssumption, FS_Subset
  <2>2. IsFiniteSet(S \ {r}) /\ Cardinality(S \ {r}) = Cardinality(S) - 1
    BY <1>1, <2>1, FS_RemoveElement
  <2> QED
    BY <2>1, <2>2, FS_CardinalityType
<1> HIDE DEF S, taker
<1>6. \A s, t \in S : s # t => taker[s] # taker[t]
  BY <1>3
<1> QED
  BY <1>4, <1>5, <1>6, FS_PigeonHole

-----------------------------------------------------------------------------
(* The steps of 19 and 20. *)

LEMMA GetIInv == ASSUME IInv, NEW r \in Runs, Get(r), UNCHANGED <<prog, semVars>> PROVE IInv'
<1> USE DEF IInv
<1>1. /\ prog \in {"19", "20"} /\ receiver[r] = "start" /\ msgid' = [msgid EXCEPT ![r] = live']
      /\ receiver' = [receiver EXCEPT ![r] = IF prog = "20" THEN "fork" ELSE "recv"]
      /\ sender' = [sender EXCEPT ![r] = IF prog = "20" THEN @ ELSE "send"]
      /\ UNCHANGED <<prog, lp64, got, unmatched, set, sets, semid, pc>>
  BY DEF Get, semVars, sems
<1>2. sender[r] = "unborn" /\ got[r] = Nobody /\ \A s \in Runs : got[s] # r
  BY <1>1, MsgQueueAssumption DEF IdInv, GotInv
<1>3. /\ live' \in Nat /\ ids' \in Nat /\ live' # 0 /\ live' <= ids' /\ ids <= ids'
      /\ queue' \in Seq(Runs)
      /\ \/ live' = live /\ queue' = queue
         \/ live' = ids + 1 /\ queue' = <<>>
  <2>1. CASE live = 0
    BY <2>1 DEF Get, TypeOK
  <2>2. CASE live # 0
    BY <2>2 DEF Get, TypeOK, IdInv
  <2> QED
    BY <2>1, <2>2
<1>4. /\ msgid'[r] = live' /\ receiver'[r] \in {"fork", "recv"}
      /\ sender'[r] \in {"unborn", "send"} /\ (receiver'[r] = "fork" => sender'[r] = "unborn")
      /\ (prog = "19" => sender'[r] = "send")
      /\ \A s \in Runs \ {r} : msgid'[s] = msgid[s] /\ receiver'[s] = receiver[s] /\ sender'[s] = sender[s]
  BY <1>1, <1>2 DEF TypeOK
<1>5. TypeOK' /\ ProgInv'
  <2>1. /\ msgid' \in [Runs -> Nat]
        /\ receiver' \in [Runs -> {"start", "fork", "recv", "remove", "done", "failed", "nofork", "dead"}]
        /\ sender' \in [Runs -> {"unborn", "send", "done", "failed", "dead"}]
    BY <1>1, <1>2, <1>3 DEF TypeOK
  <2> QED
    BY <1>1, <1>3, <2>1 DEF TypeOK, ProgInv
<1>6. IdInv'
  <2>1. ASSUME NEW s \in Runs PROVE msgid'[s] <= ids'
    <3>1. msgid[s] \in Nat /\ ids \in Nat /\ msgid[s] <= ids
      BY DEF IdInv, TypeOK
    <3>2. s # r => msgid'[s] = msgid[s]
      BY <1>4
    <3> QED
      BY <3>1, <3>2, <1>3, <1>4
  <2> QED
    BY <1>1, <1>3, <1>4, <2>1 DEF IdInv
<1>7. \A s \in Runs : InQueue(s)' => InQueue(s) /\ live' = live
  <2>1. CASE live' = live /\ queue' = queue
    BY <2>1 DEF InQueue
  <2>2. CASE queue' = <<>>
    BY <2>2 DEF InQueue
  <2> QED
    BY <1>3, <2>1, <2>2
<1>8. QueueInv'
  <2>1. \A m, n \in DOMAIN queue' : queue'[m] = queue'[n] => m = n
    BY <1>3 DEF QueueInv
  <2>2. ~InQueue(r)
    BY <1>2 DEF QueueInv
  <2> QED
    BY <1>4, <1>7, <2>1, <2>2 DEF QueueInv
<1>9. GotInv'
  <2>1. \A s \in Runs : got[s] \in Runs \cup {Nobody}
    BY DEF TypeOK
  <2> QED
    BY <1>1, <1>2, <1>4, <1>7, <2>1 DEF GotInv
<1>10. KeptInv'
  <2>1. ASSUME NEW s \in Runs, sender'[s] = "done", msgid'[s] = live'
        PROVE  InQueue(s)' \/ \E t \in Runs : got[t] = s
    <3>1. s # r /\ sender[s] = "done" /\ msgid[s] = live'
      BY <1>4, <2>1
    <3>2. live' = live /\ queue' = queue
      BY <3>1, <1>3 DEF IdInv, TypeOK
    <3> QED
      BY <3>1, <3>2 DEF KeptInv, InQueue
  <2> QED
    BY <1>1, <1>4, <2>1 DEF KeptInv
<1>11. EmptyInv'
  BY <1>1, <1>2, <1>4 DEF EmptyInv, EmptyHandedAsExpected
<1>12. OwnerInv'
  BY <1>1, <1>4 DEF OwnerInv
<1> QED
  BY <1>1, <1>5, <1>6, <1>8, <1>9, <1>10, <1>11, <1>12

\* Steps that move control and leave the queue alone.
LEMMA ControlIInv ==
  ASSUME IInv, NEW r \in Runs, receiver[r] # "start",
         UNCHANGED <<prog, lp64, msgid, live, queue, ids, got, unmatched, set, sets, semid, pc>>,
         NEW x \in {"fork", "recv", "remove", "done", "failed", "nofork", "dead"},
         receiver' = [receiver EXCEPT ![r] = x],
         x = receiver[r] \/ x \in {"recv", "nofork", "dead"}
           \/ (x = "failed" /\ ~Reachable(r)) \/ (x = "remove" /\ receiver[r] = "recv"),
         NEW y \in {"unborn", "send", "done", "failed", "dead"},
         sender' = [sender EXCEPT ![r] = y],
         y = sender[r] \/ (sender[r] = "send" /\ y \in {"failed", "dead"})
           \/ (sender[r] = "unborn" /\ y = "send"),
         x \in {"start", "fork"} => y = sender[r],
         x = "recv" => receiver[r] \in {"fork", "recv"},
         prog = "19" /\ x = "recv" => y \in {"send", "done", "failed"}
  PROVE  IInv'
<1> USE DEF IInv
<1>1. /\ receiver'[r] = x /\ sender'[r] = y
      /\ \A s \in Runs \ {r} : receiver'[s] = receiver[s] /\ sender'[s] = sender[s]
  BY DEF TypeOK
<1>2. \A s \in Runs : InQueue(s)' <=> InQueue(s)
  BY DEF InQueue
<1>3. \A s \in Runs : /\ sender'[s] = "done" <=> sender[s] = "done"
                      /\ sender[s] = "failed" => sender'[s] = "failed"
  BY <1>1
<1>4. TypeOK'
  BY DEF TypeOK
<1>5. ProgInv' /\ IdInv'
  <2>1. prog \in {"19", "20"}
    BY DEF TypeOK, ProgInv
  <2>2. IdInv'
    BY <1>1 DEF IdInv
  <2> QED
    BY <2>1, <2>2 DEF ProgInv
<1>6. QueueInv'
  BY <1>2, <1>3 DEF QueueInv
<1>7. GotInv'
  <2>1. \A s \in Runs : got[s] \in Runs \cup {Nobody}
    BY DEF TypeOK
  <2>2. got[r] # Nobody => x \notin {"start", "fork", "recv"} /\ (prog = "19" => y \in {"done", "failed"})
    BY DEF GotInv
  <2> QED
    BY <1>1, <1>2, <1>3, <2>1, <2>2 DEF GotInv
<1>8. KeptInv'
  <2>1. \A s \in Runs : prog = "19" /\ receiver'[s] = "recv" => sender'[s] \in {"send", "done", "failed"}
    BY <1>1 DEF KeptInv
  <2> QED
    BY <1>2, <1>3, <2>1 DEF KeptInv
<1>9. EmptyInv'
  BY <1>3 DEF EmptyInv, EmptyHandedAsExpected
<1>10. OwnerInv'
  <2>1. ASSUME live # 0
        PROVE  \E s \in Runs : msgid[s] = live /\ receiver'[s] \notin {"start", "done", "failed"}
    <3>1. PICK s \in Runs : msgid[s] = live /\ receiver[s] \notin {"start", "done", "failed"}
      BY <2>1 DEF OwnerInv
    <3> QED
      BY <1>1, <3>1 DEF Reachable
  <2> QED
    BY <2>1 DEF OwnerInv
<1> QED
  BY <1>4, <1>5, <1>6, <1>7, <1>8, <1>9, <1>10

LEMMA SendIInv == ASSUME IInv, NEW r \in Runs, Send(r), UNCHANGED <<prog, semVars>> PROVE IInv'
<1> USE DEF IInv
<1>1. /\ sender[r] = "send" /\ msgid[r] = live /\ sender' = [sender EXCEPT ![r] = "done"]
      /\ queue' = Append(queue, r)
      /\ UNCHANGED <<prog, lp64, msgid, receiver, live, ids, got, unmatched, set, sets, semid, pc>>
  BY DEF Send, Reachable, semVars, sems
<1>2. ~InQueue(r) /\ \A s \in Runs : got[s] # r
  BY <1>1, MsgQueueAssumption DEF QueueInv, GotInv
<1>3. /\ queue' \in Seq(Runs)
      /\ \A m, n \in DOMAIN queue' : queue'[m] = queue'[n] => m = n
      /\ \A s \in Runs : InQueue(s)' <=> InQueue(s) \/ s = r
  BY <1>1, <1>2, SendQueue
<1>4. sender'[r] = "done" /\ \A s \in Runs \ {r} : sender'[s] = sender[s]
  BY <1>1 DEF TypeOK
<1>5. TypeOK' /\ ProgInv' /\ OwnerInv'
  BY <1>1, <1>3 DEF TypeOK, ProgInv, OwnerInv
<1>6. IdInv'
  BY <1>1, <1>4 DEF IdInv
<1>7. QueueInv'
  BY <1>1, <1>3, <1>4 DEF QueueInv
<1>8. GotInv'
  <2>1. \A s \in Runs : got[s] \in Runs \cup {Nobody}
    BY DEF TypeOK
  <2> QED
    BY <1>1, <1>2, <1>3, <1>4, <2>1 DEF GotInv
<1>9. KeptInv' /\ EmptyInv'
  BY <1>1, <1>3, <1>4 DEF KeptInv, EmptyInv, EmptyHandedAsExpected
<1> QED
  BY <1>1, <1>5, <1>6, <1>7, <1>8, <1>9

LEMMA ReceiveIInv ==
  ASSUME IInv, NEW r \in Runs, Receive(r), UNCHANGED <<prog, semVars>> PROVE IInv'
<1> USE DEF IInv
<1>1. /\ receiver[r] = "recv" /\ (prog = "19" => sender[r] # "send") /\ msgid[r] = live
      /\ queue # <<>> /\ queue' = Tail(queue) /\ got' = [got EXCEPT ![r] = Head(queue)]
      /\ receiver' = [receiver EXCEPT ![r] = "remove"]
      /\ UNCHANGED <<prog, lp64, msgid, sender, live, ids, unmatched, set, sets, semid, pc>>
  BY DEF Receive, AtReceive, Reachable, Waiting, AfterReceive, semVars, sems
<1>2. PICK h \in Runs :
      /\ h = Head(queue) /\ InQueue(h) /\ queue' \in Seq(Runs)
      /\ \A m, n \in DOMAIN queue' : queue'[m] = queue'[n] => m = n
      /\ \A s \in Runs : InQueue(s)' <=> InQueue(s) /\ s # h
  BY <1>1, ReceiveQueue
<1>3. /\ got'[r] = h /\ receiver'[r] = "remove"
      /\ \A s \in Runs \ {r} : got'[s] = got[s] /\ receiver'[s] = receiver[s]
  BY <1>1, <1>2 DEF TypeOK
<1>4. sender[h] = "done" /\ msgid[h] = live /\ h # Nobody
  BY <1>2, MsgQueueAssumption DEF QueueInv
<1>5. \A s \in Runs : got[s] # h
  BY <1>2, <1>4 DEF GotInv
<1>6. TypeOK' /\ ProgInv'
  <2>1. prog \in {"19", "20"}
    BY <1>1 DEF TypeOK, ProgInv
  <2> QED
    BY <1>1, <1>2, <2>1 DEF TypeOK, ProgInv
<1>7. IdInv'
  BY <1>1, <1>3 DEF IdInv
<1>8. QueueInv'
  BY <1>1, <1>2 DEF QueueInv
<1>9. GotInv'
  <2>1. \A s \in Runs : got[s] \in Runs \cup {Nobody}
    BY DEF TypeOK
  <2>2. prog = "19" => sender[r] \in {"done", "failed"}
    BY <1>1 DEF KeptInv
  <2>3. \A s \in Runs : got'[s] # Nobody =>
          /\ receiver'[s] \notin {"start", "fork", "recv"}
          /\ prog = "19" => sender[s] \in {"done", "failed"}
          /\ sender[got'[s]] = "done" /\ msgid[got'[s]] = msgid[s]
    BY <1>1, <1>3, <1>4, <2>1, <2>2 DEF GotInv
  <2>4. \A s, m \in Runs : got'[s] = m => ~InQueue(m)'
    <3>1. \A s \in Runs \ {r}, m \in Runs : got[s] = m => ~InQueue(m)
      BY MsgQueueAssumption DEF GotInv
    <3> QED
      BY <1>2, <1>3, <3>1
  <2>5. \A s \in Runs : got'[s] \in Runs \cup {Nobody}
    BY <1>3, <2>1
  <2> QED
    BY <1>1, <1>3, <1>5, <2>1, <2>3, <2>4, <2>5 DEF GotInv
<1>10. KeptInv'
  <2>1. got[r] = Nobody /\ Nobody \notin Runs
    BY <1>1, MsgQueueAssumption DEF GotInv
  <2>2. \A s \in Runs : (\E m \in Runs : got[m] = s) => \E m \in Runs : got'[m] = s
    BY <1>3, <2>1
  <2>3. \A s \in Runs : sender[s] = "done" /\ msgid[s] = live =>
          InQueue(s)' \/ \E m \in Runs : got'[m] = s
    BY <1>2, <1>3, <2>2 DEF KeptInv
  <2> QED
    BY <1>1, <1>3, <2>3 DEF KeptInv
<1>11. ~lp64
  BY DEF Receive, Waiting, SentType, AskedType, Plain
<1>12. EmptyInv' /\ OwnerInv'
  BY <1>1, <1>3, <1>11 DEF EmptyInv, EmptyHandedAsExpected, OwnerInv
<1> QED
  BY <1>1, <1>6, <1>7, <1>8, <1>9, <1>10, <1>12

LEMMA ReceiveFailsIInv ==
  ASSUME IInv, NEW r \in Runs, ReceiveFails(r), UNCHANGED <<prog, semVars>> PROVE IInv'
<1> USE DEF IInv
<1>1. /\ receiver[r] = "recv" /\ (prog = "19" => sender[r] # "send")
      /\ receiver' = [receiver EXCEPT ![r] = IF prog = "20" THEN "failed" ELSE "remove"]
      /\ UNCHANGED <<prog, lp64, msgid, sender, live, queue, ids, got, set, sets, semid, pc>>
      /\ unmatched' = [unmatched EXCEPT ![r] = Reachable(r)]
      /\ ~Reachable(r) \/ (prog = "19" /\ ~Waiting)
  BY DEF ReceiveFails, AtReceive, semVars, sems
<1>2. Reachable(r) \in BOOLEAN /\ prog \in {"19", "20"}
  BY <1>1 DEF Reachable, TypeOK, ProgInv
<1>3. /\ receiver'[r] \in {"failed", "remove"} /\ (receiver'[r] = "failed" => ~Reachable(r))
      /\ unmatched'[r] = Reachable(r)
      /\ \A s \in Runs \ {r} : receiver'[s] = receiver[s] /\ unmatched'[s] = unmatched[s]
  BY <1>1 DEF TypeOK
<1>4. \A s \in Runs : InQueue(s)' <=> InQueue(s)
  BY <1>1 DEF InQueue
<1>5. TypeOK'
  <2>1. receiver' \in [Runs -> {"start", "fork", "recv", "remove", "done", "failed", "nofork", "dead"}]
    BY <1>1 DEF TypeOK
  <2>2. unmatched' \in [Runs -> BOOLEAN]
    BY <1>1, <1>2 DEF TypeOK
  <2> QED
    BY <1>1, <2>1, <2>2 DEF TypeOK
<1>6. ProgInv' /\ IdInv'
  BY <1>1, <1>2, <1>3 DEF ProgInv, IdInv
<1>7. QueueInv'
  BY <1>1, <1>4 DEF QueueInv
<1>8. GotInv'
  <2>1. \A s \in Runs : got[s] \in Runs \cup {Nobody}
    BY DEF TypeOK
  <2> QED
    BY <1>1, <1>3, <1>4, <2>1 DEF GotInv
<1>9. KeptInv'
  BY <1>1, <1>3, <1>4 DEF KeptInv
<1>10. EmptyInv'
  <2>1. Reachable(r) =>
          lp64 \/ \E s \in Runs : sender[s] = "failed" /\ msgid[s] = msgid[r]
    <3>1. ~Waiting /\ prog = "19" /\ ~lp64 => queue = <<>>
      BY DEF Waiting, SentType, AskedType, Plain
    <3> QED
      BY <1>1, <3>1, OneForEach
  <2> QED
    BY <1>1, <1>3, <2>1 DEF EmptyInv, EmptyHandedAsExpected
<1>11. OwnerInv'
  BY <1>1, <1>3 DEF OwnerInv, Reachable
<1> QED
  BY <1>1, <1>5, <1>6, <1>7, <1>8, <1>9, <1>10, <1>11

LEMMA RemoveIInv ==
  ASSUME IInv, NEW r \in Runs, Remove(r), UNCHANGED <<prog, semVars>> PROVE IInv'
<1> USE DEF IInv
<1>1. CASE ~Reachable(r)
  <2>1. /\ receiver[r] = "remove" /\ receiver' = [receiver EXCEPT ![r] = "failed"]
        /\ UNCHANGED <<prog, lp64, msgid, live, queue, ids, got, unmatched, set, sets, semid, pc>>
        /\ sender' = [sender EXCEPT ![r] = sender[r]]
        /\ sender[r] \in {"unborn", "send", "done", "failed", "dead"}
    BY <1>1 DEF Remove, LiveAfterRemove, semVars, sems, TypeOK
  <2> HIDE DEF IInv
  <2> QED
    BY <1>1, <2>1, ControlIInv
<1>2. CASE Reachable(r)
  <2>1. /\ receiver[r] = "remove" /\ msgid[r] = live /\ live # 0
    BY <1>2 DEF Remove, Reachable, IdInv
  <2>2. /\ live' = 0 /\ queue' = <<>> /\ receiver' = [receiver EXCEPT ![r] = "done"]
        /\ UNCHANGED <<prog, lp64, msgid, sender, ids, got, unmatched, set, sets, semid, pc>>
    BY <1>2, <2>1 DEF Remove, LiveAfterRemove, semVars, sems
  <2>3. receiver'[r] = "done" /\ \A s \in Runs \ {r} : receiver'[s] = receiver[s]
    BY <2>2 DEF TypeOK
  <2>4. \A s \in Runs : ~InQueue(s)'
    BY <2>2 DEF InQueue
  <2>5. TypeOK' /\ ProgInv'
    BY <2>1, <2>2 DEF TypeOK, ProgInv
  <2>6. IdInv'
    BY <2>1, <2>2, <2>3 DEF TypeOK, IdInv
  <2>7. QueueInv'
    BY <2>2, <2>4 DEF QueueInv
  <2>8. GotInv'
    <3>1. \A s \in Runs : got[s] \in Runs \cup {Nobody}
      BY DEF TypeOK
    <3> QED
      BY <2>2, <2>3, <2>4, <3>1 DEF GotInv
  <2>9. KeptInv'
    BY <2>2, <2>3 DEF KeptInv, IdInv
  <2>10. EmptyInv' /\ OwnerInv'
    BY <2>2 DEF EmptyInv, EmptyHandedAsExpected, OwnerInv
  <2> QED
    BY <2>2, <2>5, <2>6, <2>7, <2>8, <2>9, <2>10
<1> QED
  BY <1>1, <1>2

LEMMA MsgIInv == ASSUME IInv, MsgNext, UNCHANGED semVars PROVE IInv'
<1>1. prog' = prog /\ UNCHANGED <<set, sets, semid, pc>>
  BY DEF MsgNext, semVars, sems
<1>2. ASSUME NEW r \in Runs, Fork(r) \/ ForkFails(r) \/ SendFails(r) \/ MsgKill(r) PROVE IInv'
  <2>1. UNCHANGED <<prog, lp64, msgid, live, queue, ids, got, unmatched, set, sets, semid, pc>>
    BY <1>1, <1>2 DEF Fork, ForkFails, SendFails, MsgKill
  <2> USE DEF IInv
  <2>2. receiver[r] # "start"
    BY <1>2 DEF Fork, ForkFails, SendFails, MsgKill, IdInv
  <2>3. CASE Fork(r)
    <3>1. receiver' = [receiver EXCEPT ![r] = "recv"] /\ sender' = [sender EXCEPT ![r] = "send"]
          /\ receiver[r] = "fork" /\ sender[r] = "unborn"
      BY <2>3 DEF Fork, IdInv
    <3> HIDE DEF IInv
    <3> QED
      BY <2>1, <3>1, ControlIInv
  <2>4. CASE ForkFails(r)
    <3>1. receiver' = [receiver EXCEPT ![r] = "nofork"] /\ sender' = [sender EXCEPT ![r] = sender[r]]
          /\ sender[r] \in {"unborn", "send", "done", "failed", "dead"}
      BY <2>4 DEF ForkFails, TypeOK
    <3> HIDE DEF IInv
    <3> QED
      BY <2>1, <2>2, <3>1, ControlIInv
  <2>5. ASSUME sender[r] = "send", NEW y \in {"failed", "dead"}, sender' = [sender EXCEPT ![r] = y],
               UNCHANGED receiver, prog = "20" \/ y = "failed"
        PROVE  IInv'
    <3>1. /\ receiver' = [receiver EXCEPT ![r] = receiver[r]]
          /\ receiver[r] \in {"recv", "remove", "done", "failed", "nofork", "dead"}
      BY <2>2, <2>5 DEF TypeOK, IdInv
    <3> QED
      BY <2>1, <2>2, <2>5, <3>1, ControlIInv
  <2>6. ASSUME receiver' = [receiver EXCEPT ![r] = "dead"],
               sender' = [sender EXCEPT ![r] = IF prog = "19" /\ @ = "send" THEN "dead" ELSE @]
        PROVE  IInv'
    <3>1. /\ \/ sender' = [sender EXCEPT ![r] = sender[r]]
             \/ sender[r] = "send" /\ sender' = [sender EXCEPT ![r] = "dead"]
          /\ sender[r] \in {"unborn", "send", "done", "failed", "dead"}
      BY <2>6 DEF TypeOK
    <3> HIDE DEF IInv
    <3> QED
      BY <2>1, <2>2, <2>6, <3>1, ControlIInv
  <2> QED
    BY <1>2, <2>3, <2>4, <2>5, <2>6 DEF SendFails, MsgKill
<1> QED
  BY <1>1, <1>2, GetIInv, SendIInv, ReceiveIInv, ReceiveFailsIInv, RemoveIInv
  DEF MsgNext, Receiver, Sender

-----------------------------------------------------------------------------
(* The steps of 21 and 22. *)

\* Steps after which the semaphore set is still there, or gone with its owner.
LEMMA SemControlIInv ==
  ASSUME IInv, NEW r \in Runs, pc[r] # "start", UNCHANGED <<prog, msgVars, sets, semid>>,
         NEW x \in {"P", "V", "getval", "destroy", "fork", "copy", "post", "done", "nofork", "dead"},
         pc' = [pc EXCEPT ![r] = x],
         x \in {"fork", "copy", "post", "nofork"} => prog = "22",
         \/ set' = set /\ (x # "done" \/ prog = "22" \/ semid[r] # set)
         \/ set' = 0
  PROVE  IInv'
<1> USE DEF IInv
<1>1. pc'[r] = x /\ \A s \in Runs \ {r} : pc'[s] = pc[s]
  BY DEF TypeOK
<1>2. TypeOK'
  <2>1. pc' \in [Runs -> {"start", "setval", "P", "V", "getval", "destroy", "fork", "copy", "post",
                         "done", "nofork", "dead"}]
    BY DEF TypeOK
  <2> QED
    BY <2>1 DEF msgVars, TypeOK
<1>3. ProgInv'
  <2>1. prog \in {"21", "22"}
    BY DEF TypeOK, ProgInv
  <2> QED
    BY <1>1, <2>1 DEF msgVars, ProgInv
<1>4. IdInv'
  BY DEF msgVars, IdInv, TypeOK
<1>5. QueueInv' /\ GotInv' /\ KeptInv' /\ EmptyInv'
  BY DEF msgVars, QueueInv, GotInv, KeptInv, InQueue, EmptyInv, EmptyHandedAsExpected
<1>6. OwnerInv'
  <2>1. ASSUME set' # 0, prog = "21"
        PROVE  \E s \in Runs : semid[s] = set' /\ pc'[s] \notin {"start", "done"}
    <3>1. PICK s \in Runs : semid[s] = set /\ pc[s] \notin {"start", "done"}
      BY <2>1 DEF OwnerInv
    <3> QED
      BY <1>1, <2>1, <3>1
  <2> QED
    BY <2>1 DEF msgVars, OwnerInv
<1> QED
  BY <1>2, <1>3, <1>4, <1>5, <1>6 DEF msgVars

LEMMA SemGetIInv == ASSUME IInv, NEW r \in Runs, SemGet(r), UNCHANGED <<prog, msgVars>> PROVE IInv'
<1> USE DEF IInv
<1>1. /\ prog \in {"21", "22"} /\ pc[r] = "start" /\ semid' = [semid EXCEPT ![r] = set']
      /\ pc' = [pc EXCEPT ![r] = "setval"]
  BY DEF SemGet
<1>2. set' \in Nat /\ sets' \in Nat /\ set' <= sets' /\ sets <= sets'
  <2>1. CASE set = 0
    BY <2>1 DEF SemGet, TypeOK
  <2>2. CASE set # 0
    BY <2>2 DEF SemGet, sems, TypeOK, IdInv
  <2> QED
    BY <2>1, <2>2
<1>3. /\ pc'[r] = "setval" /\ semid'[r] = set'
      /\ \A s \in Runs \ {r} : pc'[s] = pc[s] /\ semid'[s] = semid[s]
  BY <1>1 DEF TypeOK
<1>4. TypeOK' /\ ProgInv'
  BY <1>1, <1>2 DEF msgVars, TypeOK, ProgInv
<1>5. IdInv'
  <2>1. ASSUME NEW s \in Runs PROVE semid'[s] <= sets'
    <3>1. semid[s] \in Nat /\ sets \in Nat /\ semid[s] <= sets
      BY DEF IdInv, TypeOK
    <3> QED
      BY <1>2, <1>3, <3>1
  <2> QED
    BY <1>2, <2>1 DEF msgVars, IdInv
<1>6. QueueInv' /\ GotInv' /\ KeptInv' /\ EmptyInv'
  BY DEF msgVars, QueueInv, GotInv, KeptInv, InQueue, EmptyInv, EmptyHandedAsExpected
<1>7. OwnerInv'
  BY <1>3 DEF msgVars, OwnerInv
<1> QED
  BY <1>4, <1>5, <1>6, <1>7 DEF msgVars

LEMMA SemIInv == ASSUME IInv, SemNext, UNCHANGED msgVars PROVE IInv'
<1>1. prog' = prog
  BY DEF SemNext
<1>2. ASSUME NEW r \in Runs, SetVal(r) \/ SemP(r) \/ SemV(r) \/ GetVal(r) \/ SemFork(r)
             \/ CopyByte(r) \/ SemForkFails(r)
      PROVE  IInv'
  <2>1. /\ pc[r] # "start" /\ UNCHANGED <<set, sets, semid>>
        /\ \E x \in {"P", "V", "getval", "destroy", "fork", "copy", "post", "nofork"} :
             /\ pc' = [pc EXCEPT ![r] = x]
             /\ x \in {"fork", "copy", "post", "nofork"} => prog = "22"
    <3>1. prog \in {"21", "22"} \/ pc[r] = "start"
      BY DEF IInv, TypeOK, ProgInv
    <3>2. pc[r] \in {"fork", "copy"} => prog = "22"
      BY DEF IInv, ProgInv
    <3> QED
      BY <3>1, <3>2, <1>2 DEF SetVal, SemP, SemV, GetVal, SemFork, CopyByte, SemForkFails, sems
  <2> QED
    BY <1>1, <2>1, SemControlIInv
<1>3. ASSUME NEW r \in Runs, DestroySem(r) PROVE IInv'
  <2>1. /\ pc[r] # "start" /\ UNCHANGED <<sets, semid>> /\ pc' = [pc EXCEPT ![r] = "done"]
        /\ (set' = set /\ semid[r] # set) \/ set' = 0
    BY <1>3 DEF DestroySem, SetAfterDestroy, Reached
  <2> QED
    BY <1>1, <2>1, SemControlIInv
<1>4. ASSUME NEW r \in Runs, Post(r) PROVE IInv'
  <2>1. /\ pc[r] = "post" /\ UNCHANGED <<set, sets, semid>> /\ pc' = [pc EXCEPT ![r] = "done"]
    BY <1>4 DEF Post
  <2>2. prog = "22"
    BY <2>1 DEF IInv, ProgInv
  <2> QED
    BY <1>1, <2>1, <2>2, SemControlIInv
<1>5. ASSUME NEW r \in Runs, Take(r) \/ PrintByte(r) \/ (SemKill(r) /\ UNCHANGED pc) PROVE IInv'
  <2>1. UNCHANGED <<prog, msgVars, set, sets, semid, pc>>
    BY <1>1, <1>5 DEF Take, PrintByte, SemKill, sems
  <2> USE DEF IInv
  <2>2. TypeOK'
    BY <2>1 DEF msgVars, TypeOK
  <2>3. ProgInv' /\ IdInv' /\ OwnerInv'
    BY <2>1 DEF msgVars, ProgInv, IdInv, OwnerInv
  <2>4. QueueInv' /\ GotInv' /\ KeptInv' /\ EmptyInv'
    BY <2>1 DEF msgVars, QueueInv, GotInv, KeptInv, InQueue, EmptyInv, EmptyHandedAsExpected
  <2> QED
    BY <2>1, <2>2, <2>3, <2>4 DEF msgVars
<1>6. ASSUME NEW r \in Runs, SemKill(r), pc' = [pc EXCEPT ![r] = "dead"] PROVE IInv'
  <2>1. pc[r] # "start" /\ UNCHANGED <<set, sets, semid>>
    BY <1>6 DEF SemKill, SemActive, sems, IInv, TypeOK
  <2> QED
    BY <1>1, <1>6, <2>1, SemControlIInv
<1> QED
  BY <1>1, <1>2, <1>3, <1>4, <1>5, <1>6, SemGetIInv DEF SemNext, SemMain, SemChild, SemKill

-----------------------------------------------------------------------------

LEMMA NextIInv == IInv /\ [Next]_vars => IInv'
<1>1. IInv /\ UNCHANGED vars => IInv'
  BY DEF vars, msgVars, semVars, sems, IInv, TypeOK, ProgInv, IdInv, QueueInv, GotInv,
     KeptInv, InQueue, EmptyInv, EmptyHandedAsExpected, OwnerInv
<1> QED
  BY <1>1, MsgIInv, SemIInv DEF Next

LEMMA Invariant == Spec => []IInv
  BY InitIInv, NextIInv, PTL DEF Spec

\* However many runs of 19 and 20 share a queue, in whatever order they use and
\* remove it: a message reaches at most one receiver.  A run of 19 that finds its
\* queue still there goes without only if the queue was full for a run that shares it,
\* or if a long has 64 bits; then no run of 19 receives anything.
THEOREM MessagesShared == Spec => []OneMessageEach
<1>1. IInv => OneMessageEach
  BY DEF IInv, EmptyInv, QueueInv, GotInv, InQueue, OneMessageEach, ReceivedOnce
<1> QED
  BY <1>1, Invariant, PTL

\* When all runs of 19, 20 and 21 have ended, and none was killed or could not
\* fork, their kernel objects are gone.
THEOREM NoneLeft == Spec => []NothingLeft
<1>1. IInv => NothingLeft
  BY DEF IInv, TypeOK, ProgInv, OwnerInv, NothingLeft, AllEnded, Disturbed
<1> QED
  BY <1>1, Invariant, PTL

-----------------------------------------------------------------------------
(* What 21 and 22 print. *)

SemTypeOK ==
  /\ val \in Nat /\ shm \in SUBSET (1 .. MsgLen)
  /\ i \in [Runs -> Int] /\ value \in [Runs -> Int]
  /\ todo \in [Runs -> SUBSET (1 .. MsgLen)]
  /\ cpc \in [Runs -> {"unborn", "take", "print", "done", "dead"}] /\ k \in [Runs -> Nat]
  /\ alone \in [Runs -> BOOLEAN] /\ before \in [Runs -> 0 .. MsgLen]

LoopInv ==
  \A r \in Runs :
    /\ pc[r] # "start" => semid[r] # 0
    /\ pc[r] \in {"start", "setval", "P"} => i[r] > 0
    /\ pc[r] = "V" => i[r] >= 0
    /\ prog = "21" => cpc[r] = "unborn"

\* The runs that use the semaphore of the moment: those between a P and the V of a
\* pass have it one up, those behind the last V one down, killed ones are wherever
\* they were.
Attached(r) == semid[r] = set
Holding(r) == Attached(r) /\ pc[r] = "V" /\ i[r] > 0
Hold == {r \in Runs : Holding(r)}
Up == {r \in Runs : Holding(r) \/ (Attached(r) /\ pc[r] = "dead")}
Down == {r \in Runs : Attached(r) /\ pc[r] \in {"getval", "destroy", "done", "dead"}}
WasSet == \E r \in Runs : Attached(r) /\ pc[r] \notin {"start", "setval", "dead"}

\* A run that sets the value forgets what all others have added and taken: at most
\* one each, and nothing of its own.
BoundInv ==
  prog = "21" /\ set # 0 /\ WasSet =>
    /\ val <= InitValue + Cardinality(Up)
    /\ InitValue + Cardinality(Hold) + 1 <= val + Cardinality(Down) + Cardinality(Runs)

AloneInv ==
  \A r \in Runs : prog = "21" /\ alone[r] =>
    /\ SemActive(r) => Attached(r) /\ \A o \in Runs \ {r} : ~SemActive(o)
    /\ pc[r] = "P" => val = InitValue
    /\ pc[r] = "V" => val = IF i[r] > 0 THEN InitValue + 1 ELSE InitValue
    /\ pc[r] = "getval" => val = InitValue - 1

TextInv ==
  \A r \in Runs :
    /\ 1 .. k[r] \subseteq shm
    /\ cpc[r] \in {"print", "done"} => 1 .. before[r] \subseteq shm
    /\ cpc[r] = "done" => before[r] <= k[r]

SemInv == SemTypeOK /\ LoopInv /\ BoundInv /\ AloneInv /\ PrintedValue /\ TextInv

-----------------------------------------------------------------------------
(* The text in the segment. *)

LessRel == {ss \in Nat \X Nat : ss[1] < ss[2]}

\* A set of natural numbers has a least element.
LEMMA LeastNumber ==
  ASSUME NEW T \in SUBSET Nat, T # {}
  PROVE  \E n \in T : \A m \in T : n <= m
<1>1. OpToRel(<, Nat) = LessRel
  BY DEF OpToRel, LessRel
<1>2. IsWellFoundedOn(LessRel, Nat)
  BY <1>1, NatLessThanWellFounded
<1>3. PICK n \in T : \A m \in T : ~ (<<m, n>> \in LessRel)
  BY <1>2, WFMin
<1>4. \A m \in T : ~ (m < n)
  BY <1>3 DEF LessRel
<1> QED
  BY <1>4

\* The text ends before the first position that holds 0.
LEMMA TextInLaw ==
  ASSUME NEW bytes \in SUBSET (1 .. MsgLen)
  PROVE  TextIn(bytes) \in 0 .. MsgLen /\ 1 .. TextIn(bytes) \subseteq bytes
<1> DEFINE T == {n \in Nat : n + 1 \notin bytes}
<1>1. MsgLen \in Nat /\ MsgLen \in T
  BY SemShmAssumption
<1>2. PICK n \in T : \A m \in T : n <= m
  BY <1>1, LeastNumber
<1>3. n \in 0 .. MsgLen
  BY <1>1, <1>2
<1>4. 1 .. n \subseteq bytes
  <2> SUFFICES ASSUME NEW b \in 1 .. n PROVE b \in bytes
    OBVIOUS
  <2>1. b - 1 \in Nat /\ ~(n <= b - 1) /\ (b - 1) + 1 = b
    BY <1>3
  <2>2. b - 1 \notin T
    BY <1>2, <2>1
  <2> QED
    BY <2>1, <2>2
<1> QED
  BY <1>2, <1>3, <1>4 DEF TextIn

-----------------------------------------------------------------------------
(* Types. *)

LEMMA InitSemInv == Init => SemInv
<1> SUFFICES ASSUME Init PROVE SemInv
  OBVIOUS
<1>1. MsgLen \in Nat /\ Loops \in Nat \ {0}
  BY SemShmAssumption
<1>2. SemTypeOK
  BY <1>1 DEF Init, SemInit, SemTypeOK
<1>3. LoopInv /\ BoundInv /\ AloneInv /\ PrintedValue
  BY <1>1 DEF Init, SemInit, LoopInv, BoundInv, AloneInv, PrintedValue
<1>4. TextInv
  BY DEF Init, SemInit, TextInv
<1> QED
  BY <1>2, <1>3, <1>4 DEF SemInv

LEMMA SemTypeStep ==
  ASSUME IInv, SemTypeOK, SemNext
  PROVE  SemTypeOK'
<1>1. PICK r \in Runs : SemGet(r) \/ SemMain(r) \/ SemChild(r) \/ SemForkFails(r) \/ SemKill(r)
  BY DEF SemNext
<1>2. CASE SemGet(r)
  <2>1. alone' \in [Runs -> BOOLEAN]
    BY <1>2 DEF SemGet, SemActive, SemEnded, SemTypeOK
  <2>2. val' \in Nat
    BY <1>2 DEF SemGet, sems, SemTypeOK
  <2> QED
    BY <1>2, <2>1, <2>2 DEF SemGet, SemTypeOK
<1>3. CASE SetVal(r) \/ SemP(r) \/ Post(r)
  <2>1. val' \in Nat
    BY <1>3, SemShmAssumption DEF SetVal, SemP, Post, StartValue, Added, SemTypeOK
  <2> QED
    BY <1>3, <2>1 DEF SetVal, SemP, Post, SemTypeOK, hist
<1>4. CASE SemV(r)
  <2>1. val' \in Nat /\ i' \in [Runs -> Int]
    BY <1>4 DEF SemV, Taken, SemTypeOK
  <2> QED
    BY <1>4, <2>1 DEF SemV, SemTypeOK, hist
<1>5. CASE GetVal(r)
  BY <1>5 DEF GetVal, SemTypeOK, hist, sems
<1>6. CASE DestroySem(r) \/ SemForkFails(r) \/ SemFork(r)
  BY <1>6 DEF DestroySem, SemForkFails, SemFork, ShmKept, SemTypeOK, hist, sems
<1>7. CASE CopyByte(r)
  <2>1. PICK b \in todo[r] : shm' = shm \cup {b} /\ todo' = [todo EXCEPT ![r] = @ \ {b}]
    BY <1>7 DEF CopyByte
  <2>2. shm' \in SUBSET (1 .. MsgLen) /\ todo' \in [Runs -> SUBSET (1 .. MsgLen)]
    BY <2>1 DEF SemTypeOK
  <2> QED
    BY <1>7, <2>2 DEF CopyByte, SemTypeOK, hist, sems
<1>8. CASE Take(r)
  <2>1. TextIn(shm) \in 0 .. MsgLen
    BY TextInLaw DEF SemTypeOK
  <2>2. val' \in Nat
    BY <1>8 DEF Take, Taken, SemTypeOK
  <2> QED
    BY <1>8, <2>1, <2>2 DEF Take, SemTypeOK
<1>9. CASE PrintByte(r)
  <2>1. /\ k' \in [Runs -> Nat]
        /\ cpc' \in [Runs -> {"unborn", "take", "print", "done", "dead"}]
    BY <1>9 DEF PrintByte, SemTypeOK
  <2> QED
    BY <1>9, <2>1 DEF PrintByte, SemTypeOK, hist, sems
<1>10. CASE SemKill(r)
  <2>1. cpc' \in [Runs -> {"unborn", "take", "print", "done", "dead"}]
    BY <1>10 DEF SemKill, SemTypeOK
  <2> QED
    BY <1>10, <2>1 DEF SemKill, SemTypeOK, hist, sems
<1> QED
  BY <1>1, <1>2, <1>3, <1>4, <1>5, <1>6, <1>7, <1>8, <1>9, <1>10 DEF SemMain, SemChild

\* The passes of 21's loop.
LEMMA LoopStep ==
  ASSUME IInv, SemTypeOK, LoopInv, SemNext
  PROVE  LoopInv'
<1>1. PICK r \in Runs : SemGet(r) \/ SemMain(r) \/ SemChild(r) \/ SemForkFails(r) \/ SemKill(r)
  BY DEF SemNext
<1>2. prog' = prog /\ TypeOK /\ ProgInv
  BY DEF SemNext, IInv
<1>3. CASE SemGet(r)
  <2>1. set' # 0
    BY <1>3, <1>2 DEF SemGet, sems, TypeOK
  <2> QED
    BY <1>2, <1>3, <2>1 DEF SemGet, LoopInv, TypeOK
<1>4. CASE SemV(r)
  <2>1. /\ pc[r] = "V" /\ i[r] \in Int /\ i[r] >= 0 /\ i'[r] = i[r] - 1
        /\ pc'[r] = (IF i[r] > 1 THEN "P" ELSE IF i[r] = 1 THEN "V" ELSE "getval")
        /\ \A o \in Runs \ {r} : pc'[o] = pc[o] /\ i'[o] = i[o]
        /\ UNCHANGED <<semid, cpc>>
    BY <1>4, <1>2 DEF SemV, LoopInv, TypeOK, SemTypeOK
  <2> QED
    BY <1>2, <2>1 DEF LoopInv
<1>5. CASE /\ pc[r] # "start" /\ UNCHANGED <<semid, i, cpc>>
           /\ \A o \in Runs \ {r} : pc'[o] = pc[o]
           /\ pc'[r] \notin {"start", "setval"}
           /\ pc'[r] \in {"P", "V"} => i[r] > 0
  BY <1>2, <1>5, SMTT(30) DEF LoopInv, SemTypeOK
<1>8. CASE SetVal(r) \/ SemP(r)
  <2>1. i[r] > 0
    BY <1>8 DEF SetVal, SemP, LoopInv
  <2> QED
    BY <1>2, <1>5, <1>8, <2>1 DEF SetVal, SemP, TypeOK, hist
<1>9. CASE Post(r) \/ GetVal(r) \/ DestroySem(r) \/ SemForkFails(r)
  BY <1>2, <1>5, <1>9 DEF Post, GetVal, DestroySem, SemForkFails, TypeOK, sems, hist
<1>10. CASE CopyByte(r)
  BY <1>2, <1>5, <1>10 DEF CopyByte, TypeOK, sems, hist
<1>6. CASE SemFork(r)
  BY <1>2, <1>6 DEF SemFork, LoopInv, TypeOK, ProgInv
<1>7. CASE Take(r) \/ PrintByte(r)
  BY <1>2, <1>7 DEF Take, PrintByte, SemActive, LoopInv, TypeOK, SemTypeOK, sems
<1>11. CASE SemKill(r)
  BY <1>2, <1>11 DEF SemKill, SemActive, LoopInv, TypeOK, SemTypeOK, sems
<1> QED
  BY <1>11, <1>1, <1>3, <1>4, <1>6, <1>7, <1>8, <1>9, <1>10 DEF SemMain, SemChild

\* What a child has printed is in the segment, and at the end is all that was there
\* when it began.
LEMMA TextStep ==
  ASSUME SemTypeOK, TextInv, SemNext
  PROVE  TextInv'
<1>1. PICK r \in Runs : SemGet(r) \/ SemMain(r) \/ SemChild(r) \/ SemForkFails(r) \/ SemKill(r)
  BY DEF SemNext
<1>2. CASE Take(r)
  <2>1. 1 .. TextIn(shm) \subseteq shm
    BY TextInLaw DEF SemTypeOK
  <2>2. /\ before' = [before EXCEPT ![r] = TextIn(shm)] /\ cpc' = [cpc EXCEPT ![r] = "print"]
        /\ UNCHANGED <<shm, k>>
    BY <1>2 DEF Take
  <2> QED
    BY <2>1, <2>2 DEF TextInv, SemTypeOK
<1>3. CASE PrintByte(r) /\ k[r] + 1 \in shm
  <2>1. /\ k'[r] = k[r] + 1 /\ \A o \in Runs \ {r} : k'[o] = k[o]
        /\ UNCHANGED <<shm, cpc, before>> /\ cpc[r] = "print" /\ k[r] \in Nat
    BY <1>3 DEF PrintByte, SemTypeOK, hist
  <2>2. 1 .. k'[r] \subseteq shm
    BY <1>3, <2>1 DEF TextInv
  <2> QED
    BY <2>1, <2>2 DEF TextInv
<1>4. CASE PrintByte(r) /\ k[r] + 1 \notin shm
  <2>1. /\ cpc'[r] = "done" /\ \A o \in Runs \ {r} : cpc'[o] = cpc[o]
        /\ UNCHANGED <<shm, k, before>> /\ cpc[r] = "print"
    BY <1>4 DEF PrintByte, SemTypeOK, hist
  <2>2. before[r] <= k[r]
    <3>1. before[r] \in Nat /\ k[r] \in Nat /\ 1 .. before[r] \subseteq shm
      BY <2>1, SemShmAssumption DEF SemTypeOK, TextInv
    <3>2. CASE k[r] + 1 <= before[r]
      BY <1>4, <3>1, <3>2
    <3> QED
      BY <3>1, <3>2
  <2> QED
    BY <2>1, <2>2 DEF TextInv
<1>5. CASE /\ UNCHANGED <<k, before>> /\ shm \subseteq shm'
           /\ \A o \in Runs : cpc'[o] = cpc[o] \/ cpc'[o] \in {"take", "dead"}
  BY <1>5 DEF TextInv
<1>6. CASE SemGet(r) \/ SemMain(r) \/ SemForkFails(r) \/ SemKill(r)
  BY <1>5, <1>6 DEF SemGet, SemMain, SemForkFails, SemKill, SetVal, SemP, SemV, GetVal, DestroySem,
     SemFork, CopyByte, Post, ShmKept, sems, hist, SemTypeOK
<1> QED
  BY <1>1, <1>2, <1>3, <1>4, <1>6 DEF SemChild

-----------------------------------------------------------------------------
(* How many runs are in which part of 21. *)

LEMMA OneChanges ==
  ASSUME NEW S \in SUBSET Runs, NEW T \in SUBSET Runs, NEW r \in Runs, S \ {r} = T \ {r}
  PROVE  /\ Cardinality(S) \in Nat /\ Cardinality(T) \in Nat
         /\ r \notin S /\ r \in T => Cardinality(T) = Cardinality(S) + 1
         /\ r \in S /\ r \notin T => Cardinality(S) = Cardinality(T) + 1
         /\ (r \in S <=> r \in T) => S = T
<1>1. IsFiniteSet(S) /\ IsFiniteSet(T)
  BY DirectoryAssumption, FS_Subset
<1>2. Cardinality(S) \in Nat /\ Cardinality(T) \in Nat
  BY <1>1, FS_CardinalityType
<1>3. (r \in S <=> r \in T) => S = T
  OBVIOUS
<1>4. r \notin S /\ r \in T => Cardinality(T) = Cardinality(S) + 1
  <2>1. r \notin S /\ r \in T => T = S \cup {r}
    OBVIOUS
  <2> QED
    BY <1>1, <2>1, FS_AddElement
<1>5. r \in S /\ r \notin T => Cardinality(S) = Cardinality(T) + 1
  <2>1. r \in S /\ r \notin T => S = T \cup {r}
    OBVIOUS
  <2> QED
    BY <1>1, <2>1, FS_AddElement
<1> QED
  BY <1>2, <1>3, <1>4, <1>5

LEMMA Smaller ==
  ASSUME NEW S \in SUBSET Runs, NEW T \in SUBSET Runs, S \subseteq T
  PROVE  Cardinality(S) \in Nat /\ Cardinality(T) \in Nat /\ Cardinality(S) <= Cardinality(T)
<1>1. IsFiniteSet(T)
  BY DirectoryAssumption, FS_Subset
<1> QED
  BY <1>1, FS_Subset, FS_CardinalityType

LEMMA AllButOne ==
  ASSUME NEW S \in SUBSET Runs, NEW r \in Runs, r \notin S
  PROVE  /\ Cardinality(S) \in Nat /\ Cardinality(Runs) \in Nat
         /\ Cardinality(S) + 1 <= Cardinality(Runs)
<1>1. /\ S \cup {r} \in SUBSET Runs /\ S \in SUBSET Runs
      /\ S \ {r} = (S \cup {r}) \ {r} /\ r \in S \cup {r} /\ S \cup {r} \subseteq Runs
  OBVIOUS
<1>2. Cardinality(S) \in Nat /\ Cardinality(S \cup {r}) = Cardinality(S) + 1
  BY <1>1, OneChanges
<1>3. Cardinality(Runs) \in Nat /\ Cardinality(S \cup {r}) <= Cardinality(Runs)
  BY <1>1, Smaller
<1> QED
  BY <1>2, <1>3

LEMMA Counted == /\ Hold \in SUBSET Runs /\ Up \in SUBSET Runs /\ Down \in SUBSET Runs
                 /\ Hold' \in SUBSET Runs /\ Up' \in SUBSET Runs /\ Down' \in SUBSET Runs
  BY DEF Hold, Up, Down

\* A step that leaves the value alone.
LEMMA SlackStep ==
  ASSUME SemTypeOK, BoundInv, prog' = prog, val' = val, set' # 0 => set # 0, WasSet' => WasSet,
         Hold' \subseteq Hold, Up \subseteq Up', Down \subseteq Down'
  PROVE  BoundInv'
<1>1. /\ Cardinality(Hold) \in Nat /\ Cardinality(Hold') \in Nat
      /\ Cardinality(Hold') <= Cardinality(Hold)
  BY Counted, Smaller
<1>2. Cardinality(Up) \in Nat /\ Cardinality(Up') \in Nat /\ Cardinality(Up) <= Cardinality(Up')
  BY Counted, Smaller
<1>3. /\ Cardinality(Down) \in Nat /\ Cardinality(Down') \in Nat
      /\ Cardinality(Down) <= Cardinality(Down')
  BY Counted, Smaller
<1>4. Cardinality(Runs) \in Nat /\ InitValue \in Nat /\ val \in Nat
  BY DirectoryAssumption, FS_CardinalityType, SemShmAssumption DEF SemTypeOK
<1> QED
  BY <1>1, <1>2, <1>3, <1>4 DEF BoundInv

LEMMA BoundStep ==
  ASSUME IInv, SemTypeOK, LoopInv, BoundInv, SemNext
  PROVE  BoundInv'
<1> SUFFICES ASSUME prog = "21" PROVE BoundInv'
  BY DEF SemNext, BoundInv
<1>1. PICK r \in Runs : SemGet(r) \/ SemMain(r) \/ SemChild(r) \/ SemForkFails(r) \/ SemKill(r)
  BY DEF SemNext
<1>2. /\ prog' = prog /\ TypeOK /\ IdInv
      /\ pc[r] \notin {"fork", "copy", "post", "nofork"} /\ cpc[r] = "unborn"
  BY DEF SemNext, IInv, ProgInv, LoopInv
<1>3. /\ Cardinality(Runs) \in Nat /\ InitValue \in Nat /\ val \in Nat
      /\ Cardinality(Hold) \in Nat /\ Cardinality(Up) \in Nat /\ Cardinality(Down) \in Nat
      /\ Cardinality(Hold') \in Nat /\ Cardinality(Up') \in Nat /\ Cardinality(Down') \in Nat
  <2>1. Cardinality(Runs) \in Nat /\ InitValue \in Nat /\ val \in Nat
    BY DirectoryAssumption, FS_CardinalityType, SemShmAssumption DEF SemTypeOK
  <2> QED
    BY <2>1, Counted, Smaller
<1>4. CASE SemGet(r) /\ set = 0
  <2>1. /\ set' = sets + 1 /\ semid' = [semid EXCEPT ![r] = set'] /\ pc'[r] = "setval"
    BY <1>2, <1>4 DEF SemGet, TypeOK
  <2>2. \A o \in Runs \ {r} : semid'[o] # set'
    BY <1>2, <2>1 DEF TypeOK, IdInv
  <2>3. ~WasSet'
    BY <2>1, <2>2 DEF WasSet, Attached
  <2> QED
    BY <2>3 DEF BoundInv
<1>5. CASE SemGet(r) /\ set # 0
  <2>1. /\ pc[r] = "start" /\ pc'[r] = "setval" /\ UNCHANGED <<set, val, i>>
        /\ \A o \in Runs \ {r} : pc'[o] = pc[o] /\ semid'[o] = semid[o]
    BY <1>2, <1>5 DEF SemGet, sems, TypeOK
  <2>2. Hold' = Hold /\ Up' = Up /\ Down' = Down
    BY <2>1 DEF Hold, Up, Down, Holding, Attached
  <2>3. WasSet' => WasSet
    BY <2>1 DEF WasSet, Attached
  <2> QED
    BY <1>2, <2>1, <2>2, <2>3, SlackStep
<1>6. ASSUME UNCHANGED <<set, semid>>, \A o \in Runs \ {r} : pc'[o] = pc[o] /\ i'[o] = i[o]
      PROVE  /\ Hold' \ {r} = Hold \ {r} /\ Up' \ {r} = Up \ {r} /\ Down' \ {r} = Down \ {r}
             /\ Attached(r)' <=> Attached(r)
  BY <1>6 DEF Hold, Up, Down, Holding, Attached
<1>7. CASE /\ UNCHANGED <<set, semid, val>>
           /\ \A o \in Runs \ {r} : pc'[o] = pc[o] /\ i'[o] = i[o]
           /\ ~Attached(r)
  <2>1. Hold' = Hold /\ Up' = Up /\ Down' = Down
    BY <1>6, <1>7 DEF Hold, Up, Down, Holding
  <2>2. WasSet' => WasSet
    BY <1>6, <1>7 DEF WasSet, Attached
  <2> QED
    BY <1>2, <1>7, <2>1, <2>2, SlackStep
<1>8. CASE SetVal(r)
  <2>1. /\ pc[r] = "setval" /\ pc'[r] = "P" /\ UNCHANGED <<set, semid, i>>
        /\ val' = IF Attached(r) THEN InitValue ELSE val
        /\ \A o \in Runs \ {r} : pc'[o] = pc[o] /\ i'[o] = i[o]
    BY <1>2, <1>8 DEF SetVal, Reached, StartValue, Attached, TypeOK
  <2>2. r \notin Hold'
    BY <2>1 DEF Hold, Holding
  <2>3. Cardinality(Hold') + 1 <= Cardinality(Runs)
    BY <2>2, Counted, AllButOne
  <2> QED
    BY <1>3, <1>7, <2>1, <2>3 DEF BoundInv
<1>9. CASE SemP(r)
  <2>1. /\ pc[r] = "P" /\ pc'[r] = "V" /\ UNCHANGED <<set, semid, i>> /\ i[r] > 0
        /\ val' = IF Attached(r) THEN val + 1 ELSE val
        /\ \A o \in Runs \ {r} : pc'[o] = pc[o] /\ i'[o] = i[o]
    BY <1>2, <1>9 DEF SemP, Added, Reached, Attached, TypeOK, LoopInv
  <2>2. ASSUME Attached(r) PROVE BoundInv'
    <3>1. WasSet
      BY <2>1, <2>2 DEF WasSet
    <3>2. r \notin Hold /\ r \notin Up /\ r \notin Down /\ r \in Hold' /\ r \in Up' /\ r \notin Down'
      BY <1>6, <2>1, <2>2 DEF Hold, Up, Down, Holding
    <3>3. /\ Cardinality(Hold') = Cardinality(Hold) + 1 /\ Cardinality(Up') = Cardinality(Up) + 1
          /\ Down' = Down
      BY <1>6, <2>1, <3>2, Counted, OneChanges
    <3> QED
      BY <1>2, <1>3, <2>1, <2>2, <3>1, <3>3 DEF BoundInv
  <2> QED
    BY <1>7, <2>1, <2>2
<1>10. CASE SemV(r)
  <2>1. /\ pc[r] = "V" /\ i[r] \in Int /\ i[r] >= 0 /\ i'[r] = i[r] - 1 /\ UNCHANGED <<set, semid>>
        /\ pc'[r] = (IF i[r] > 1 THEN "P" ELSE IF i[r] = 1 THEN "V" ELSE "getval")
        /\ val' = IF Attached(r) /\ val > 0 THEN val - 1 ELSE val
        /\ \A o \in Runs \ {r} : pc'[o] = pc[o] /\ i'[o] = i[o]
    BY <1>2, <1>10 DEF SemV, Taken, Reached, Attached, TypeOK, SemTypeOK, LoopInv
  <2>2. ASSUME Attached(r), i[r] > 0 PROVE BoundInv'
    <3>1. WasSet
      BY <2>1, <2>2 DEF WasSet
    <3>2. ~(pc'[r] = "V" /\ i'[r] > 0) /\ pc'[r] \in {"P", "V"}
      BY <2>1, <2>2
    <3>3. r \in Hold /\ r \in Up /\ r \notin Down /\ r \notin Hold' /\ r \notin Up' /\ r \notin Down'
      BY <1>6, <2>1, <2>2, <3>2 DEF Hold, Up, Down, Holding
    <3>4. /\ Cardinality(Hold) = Cardinality(Hold') + 1 /\ Cardinality(Up) = Cardinality(Up') + 1
          /\ Down' = Down
      <4>1. Hold' \ {r} = Hold \ {r} /\ Up' \ {r} = Up \ {r} /\ Down' \ {r} = Down \ {r}
        BY <1>6, <2>1
      <4>2. Cardinality(Hold) = Cardinality(Hold') + 1
        BY <3>3, <4>1, Counted, OneChanges
      <4>3. Cardinality(Up) = Cardinality(Up') + 1
        BY <3>3, <4>1, Counted, OneChanges
      <4>4. Down' = Down
        BY <3>3, <4>1
      <4> QED
        BY <4>2, <4>3, <4>4
    <3> QED
      BY <1>2, <1>3, <2>1, <2>2, <3>1, <3>4 DEF BoundInv
  <2>3. ASSUME Attached(r), i[r] = 0 PROVE BoundInv'
    <3>1. WasSet
      BY <2>1, <2>3 DEF WasSet
    <3>2. pc'[r] = "getval"
      BY <2>1, <2>3
    <3>3. r \notin Hold /\ r \notin Up /\ r \notin Down /\ r \notin Hold' /\ r \notin Up' /\ r \in Down'
      BY <1>6, <2>1, <2>3, <3>2 DEF Hold, Up, Down, Holding
    <3>4. Cardinality(Down') = Cardinality(Down) + 1 /\ Hold' = Hold /\ Up' = Up
      <4>1. Hold' \ {r} = Hold \ {r} /\ Up' \ {r} = Up \ {r} /\ Down' \ {r} = Down \ {r}
        BY <1>6, <2>1
      <4>2. Cardinality(Down') = Cardinality(Down) + 1
        BY <3>3, <4>1, Counted, OneChanges
      <4> QED
        BY <3>3, <4>1, <4>2
    <3> QED
      BY <1>2, <1>3, <2>1, <2>3, <3>1, <3>4 DEF BoundInv
  <2> QED
    BY <1>7, <2>1, <2>2, <2>3
<1>11. CASE GetVal(r) \/ (DestroySem(r) /\ ~Attached(r)) \/ (SemKill(r) /\ UNCHANGED cpc)
  <2>1. /\ UNCHANGED <<set, semid, val, i>> /\ pc[r] \notin {"start", "dead"}
        /\ \A o \in Runs \ {r} : pc'[o] = pc[o] /\ i'[o] = i[o]
        /\ (pc[r] = "getval" /\ pc'[r] = "destroy") \/ ~Attached(r) \/ pc'[r] = "dead"
    BY <1>2, <1>11 DEF GetVal, DestroySem, SetAfterDestroy, Reached, Attached, SemKill, SemActive,
       SemEnded, TypeOK, sems
  <2>2. CASE Attached(r)
    <3>1. Hold' \subseteq Hold /\ Up \subseteq Up' /\ Down \subseteq Down'
      BY <1>6, <2>1, <2>2 DEF Hold, Up, Down, Holding
    <3>2. WasSet' => WasSet
      BY <1>6, <2>1, <2>2 DEF WasSet, Attached
    <3> QED
      BY <1>2, <2>1, <3>1, <3>2, SlackStep
  <2> QED
    BY <1>7, <2>1, <2>2
<1>12. CASE DestroySem(r) /\ Attached(r)
  BY <1>12 DEF DestroySem, SetAfterDestroy, Reached, Attached, BoundInv
<1> QED
  BY <1>1, <1>2, <1>4, <1>5, <1>8, <1>9, <1>10, <1>11, <1>12
     DEF SemMain, SemChild, SemFork, CopyByte, Post, SemForkFails, Take, PrintByte, SemKill

-----------------------------------------------------------------------------
(* What a run of 21 prints. *)

LEMMA AloneStep ==
  ASSUME IInv, SemTypeOK, LoopInv, AloneInv, SemNext
  PROVE  AloneInv'
<1> SUFFICES ASSUME prog = "21", NEW q \in Runs, alone'[q]
             PROVE  /\ SemActive(q)' => Attached(q)' /\ \A o \in Runs \ {q} : ~SemActive(o)'
                    /\ pc'[q] = "P" => val' = InitValue
                    /\ pc'[q] = "V" => val' = IF i'[q] > 0 THEN InitValue + 1 ELSE InitValue
                    /\ pc'[q] = "getval" => val' = InitValue - 1
  BY DEF SemNext, AloneInv
<1>1. PICK r \in Runs : SemGet(r) \/ SemMain(r) \/ SemChild(r) \/ SemForkFails(r) \/ SemKill(r)
  BY DEF SemNext
<1>2. /\ TypeOK /\ InitValue \in Nat /\ InitValue > 0 /\ val \in Nat /\ i[q] \in Int
      /\ pc[r] \notin {"fork", "copy", "post", "nofork"} /\ cpc[r] = "unborn"
  BY SemShmAssumption DEF IInv, ProgInv, SemTypeOK, LoopInv
<1>3. CASE SemGet(r)
  <2>1. /\ pc' = [pc EXCEPT ![r] = "setval"] /\ semid' = [semid EXCEPT ![r] = set'] /\ pc[r] = "start"
        /\ \A s \in Runs : alone'[s] = IF s = r THEN \A o \in Runs \ {r} : ~SemActive(o)
                                       ELSE alone[s] /\ ~SemActive(s)
    BY <1>3 DEF SemGet
  <2>2. pc'[r] = "setval" /\ semid'[r] = set' /\ \A o \in Runs \ {r} : pc'[o] = pc[o]
    BY <1>2, <2>1 DEF TypeOK
  <2>3. CASE q = r
    BY <2>1, <2>2, <2>3 DEF SemActive, SemEnded, Attached
  <2>4. CASE q # r
    BY <2>1, <2>2, <2>4 DEF SemActive, SemEnded
  <2> QED
    BY <2>3, <2>4
<1>4. CASE ~SemGet(r)
  <2>1. /\ SemActive(r) /\ alone[q]
        /\ \A o \in Runs \ {r} : pc'[o] = pc[o]
    BY <1>1, <1>2, <1>4 DEF SemMain, SemChild, SemForkFails, SemKill, SetVal, SemP, SemV, GetVal,
       DestroySem, SemFork, CopyByte, Post, Take, PrintByte, SemActive, SemEnded, TypeOK, hist
  <2>2. CASE r # q
    BY <2>1, <2>2 DEF AloneInv, SemActive, SemEnded
  <2>3. CASE r = q
    <3>1. Attached(q) /\ (\A o \in Runs \ {q} : ~SemActive(o)')
      BY <2>1, <2>3 DEF AloneInv, SemActive, SemEnded
    <3>2. CASE SetVal(q)
      <4>1. pc'[q] = "P" /\ val' = InitValue /\ UNCHANGED <<set, semid>>
        BY <1>2, <3>1, <3>2 DEF SetVal, StartValue, Reached, Attached, TypeOK
      <4> QED
        BY <3>1, <4>1 DEF Attached
    <3>3. CASE SemP(q)
      <4>1. /\ pc[q] = "P" /\ pc'[q] = "V" /\ val' = val + 1 /\ i'[q] = i[q] /\ i[q] > 0
            /\ UNCHANGED <<set, semid>>
        BY <1>2, <3>1, <3>3 DEF SemP, Added, Reached, Attached, TypeOK, LoopInv
      <4>2. val = InitValue
        BY <2>1, <4>1 DEF AloneInv
      <4> QED
        BY <1>2, <3>1, <4>1, <4>2 DEF Attached
    <3>4. CASE SemV(q)
      <4>1. /\ pc[q] = "V" /\ i[q] >= 0 /\ i'[q] = i[q] - 1 /\ UNCHANGED <<set, semid>>
            /\ pc'[q] = (IF i[q] > 1 THEN "P" ELSE IF i[q] = 1 THEN "V" ELSE "getval")
            /\ val' = IF val > 0 THEN val - 1 ELSE val
        BY <1>2, <3>1, <3>4 DEF SemV, Taken, Reached, Attached, TypeOK, SemTypeOK, LoopInv
      <4>2. val = IF i[q] > 0 THEN InitValue + 1 ELSE InitValue
        BY <2>1, <4>1 DEF AloneInv
      <4>3. Attached(q)'
        BY <3>1, <4>1 DEF Attached
      <4> QED
        BY <1>2, <3>1, <4>1, <4>2, <4>3
    <3>5. CASE GetVal(q)
      <4>1. pc'[q] = "destroy" /\ UNCHANGED <<set, semid>>
        BY <1>2, <3>5 DEF GetVal, TypeOK, sems
      <4> QED
        BY <3>1, <4>1 DEF Attached
    <3>6. CASE DestroySem(q) \/ SemKill(q)
      <4>1. pc'[q] \in {"done", "dead"}
        BY <1>2, <2>3, <3>6 DEF DestroySem, SemKill, TypeOK
      <4> QED
        BY <4>1 DEF SemActive, SemEnded
    <3> QED
      BY <1>1, <1>2, <1>4, <2>3, <3>2, <3>3, <3>4, <3>5, <3>6
         DEF SemMain, SemChild, SemFork, CopyByte, Post, SemForkFails, Take, PrintByte
  <2> QED
    BY <2>2, <2>3
<1> QED
  BY <1>3, <1>4

LEMMA ValueStep ==
  ASSUME IInv, SemTypeOK, LoopInv, BoundInv, AloneInv, PrintedValue, SemNext
  PROVE  PrintedValue'
<1> SUFFICES ASSUME prog = "21", NEW q \in Runs, pc'[q] \in {"destroy", "done"}
             PROVE  IF alone'[q] THEN value'[q] = InitValue - 1
                    ELSE value'[q] = -1 \/
                         value'[q] \in InitValue - 2 * Cardinality(Runs) + 1
                                         .. InitValue + Cardinality(Runs) - 1
  BY DEF SemNext, PrintedValue
<1>1. PICK r \in Runs : SemGet(r) \/ SemMain(r) \/ SemChild(r) \/ SemForkFails(r) \/ SemKill(r)
  BY DEF SemNext
<1>2. /\ TypeOK /\ InitValue \in Nat /\ InitValue > 0 /\ val \in Nat
      /\ Cardinality(Runs) \in Nat /\ Cardinality(Runs) > 0
      /\ pc[r] \notin {"fork", "copy", "post", "nofork"}
  <2>1. Cardinality(Runs) \in Nat /\ Cardinality(Runs) # 0
    BY DirectoryAssumption, FS_CardinalityType, FS_EmptySet
  <2> QED
    BY <2>1, SemShmAssumption DEF IInv, ProgInv, SemTypeOK
<1>3. CASE GetVal(q)
  <2>1. /\ pc[q] = "getval" /\ alone'[q] = alone[q]
        /\ value'[q] = IF Attached(q) THEN val ELSE -1
    BY <1>3 DEF GetVal, Reached, Attached, SemTypeOK, hist
  <2>2. CASE alone[q]
    <3>1. Attached(q) /\ val = InitValue - 1
      BY <2>1, <2>2 DEF AloneInv, SemActive, SemEnded
    <3> QED
      BY <2>1, <2>2, <3>1
  <2>3. CASE Attached(q)
    <3>1. set # 0 /\ WasSet
      BY <2>1, <2>3 DEF Attached, LoopInv, WasSet
    <3>2. /\ val <= InitValue + Cardinality(Up)
          /\ InitValue + Cardinality(Hold) + 1 <= val + Cardinality(Down) + Cardinality(Runs)
      BY <3>1 DEF BoundInv
    <3>3. q \notin Up
      BY <2>1 DEF Up, Holding
    <3>4. Cardinality(Up) \in Nat /\ Cardinality(Up) + 1 <= Cardinality(Runs)
      BY <3>3, Counted, AllButOne
    <3>5. /\ Cardinality(Hold) \in Nat /\ Cardinality(Down) \in Nat
          /\ Cardinality(Down) <= Cardinality(Runs)
      BY Counted, Smaller
    <3>6. val \in InitValue - 2 * Cardinality(Runs) + 1 .. InitValue + Cardinality(Runs) - 1
      BY <1>2, <3>2, <3>4, <3>5
    <3> QED
      BY <2>1, <2>2, <2>3, <3>6
  <2>4. CASE ~Attached(q) /\ ~alone[q]
    BY <2>1, <2>4
  <2> QED
    BY <2>2, <2>3, <2>4
<1>4. CASE ~GetVal(q)
  <2>1. /\ value'[q] = value[q] /\ pc[q] \in {"destroy", "done"}
        /\ alone'[q] => alone[q]
    <3>1. CASE SemGet(r)
      <4>1. /\ UNCHANGED value /\ pc'[r] = "setval" /\ \A o \in Runs \ {r} : pc'[o] = pc[o]
            /\ \A s \in Runs \ {r} : alone'[s] => alone[s]
        BY <1>2, <3>1 DEF SemGet, TypeOK
      <4> QED
        BY <4>1
    <3>2. CASE SemMain(r) /\ ~GetVal(r)
      <4>1. /\ UNCHANGED <<value, alone>> /\ \A o \in Runs \ {r} : pc'[o] = pc[o]
            /\ pc'[r] \notin {"destroy", "done"} \/ pc[r] = "destroy"
        BY <1>2, <3>2 DEF SemMain, SetVal, SemP, SemV, DestroySem, SemFork, CopyByte, Post, TypeOK, hist
      <4> QED
        BY <4>1
    <3>3. CASE GetVal(r)
      <4>1. /\ UNCHANGED alone /\ q # r
            /\ \A o \in Runs \ {r} : pc'[o] = pc[o] /\ value'[o] = value[o]
        BY <1>2, <1>4, <3>3 DEF GetVal, TypeOK, SemTypeOK, hist
      <4> QED
        BY <4>1
    <3>4. CASE SemChild(r) \/ SemForkFails(r) \/ SemKill(r)
      BY <1>2, <3>4 DEF SemChild, Take, PrintByte, SemForkFails, SemKill, TypeOK, hist
    <3> QED
      BY <1>1, <3>1, <3>2, <3>3, <3>4
  <2>2. IF alone[q] THEN value[q] = InitValue - 1
        ELSE value[q] = -1 \/
             value[q] \in InitValue - 2 * Cardinality(Runs) + 1 .. InitValue + Cardinality(Runs) - 1
    BY <2>1 DEF PrintedValue
  <2>3. InitValue - 1 \in InitValue - 2 * Cardinality(Runs) + 1 .. InitValue + Cardinality(Runs) - 1
    BY <1>2
  <2> QED
    BY <2>1, <2>2, <2>3
<1> QED
  BY <1>3, <1>4

LEMMA NextSemInv == IInv /\ SemInv /\ [Next]_vars => SemInv'
<1> SUFFICES ASSUME IInv, SemInv, [Next]_vars PROVE SemInv'
  OBVIOUS
<1>1. CASE SemNext
  BY <1>1, SemTypeStep, LoopStep, BoundStep, AloneStep, ValueStep, TextStep DEF SemInv
<1>2. CASE UNCHANGED <<prog, semVars>>
  <2>1. UNCHANGED <<prog, set, sets, val, shm, semid, pc, i, value, todo, cpc, k, alone, before>>
    BY <1>2 DEF semVars, sems, hist
  <2>2. SemTypeOK' /\ LoopInv' /\ TextInv' /\ PrintedValue'
    BY <2>1 DEF SemInv, SemTypeOK, LoopInv, TextInv, PrintedValue
  <2>3. BoundInv'
    <3>1. Hold' = Hold /\ Up' = Up /\ Down' = Down /\ WasSet' = WasSet
      BY <2>1 DEF Hold, Up, Down, WasSet, Holding, Attached
    <3> QED
      BY <2>1, <3>1 DEF SemInv, BoundInv
  <2>4. AloneInv'
    BY <2>1 DEF SemInv, AloneInv, SemActive, SemEnded, Attached
  <2> QED
    BY <2>2, <2>3, <2>4 DEF SemInv
<1>3. [Next]_vars => SemNext \/ UNCHANGED <<prog, semVars>>
  BY DEF Next, MsgNext, vars
<1> QED
  BY <1>1, <1>2, <1>3

\* Nothing in 21 and 22 waits for another process.  Still a run of 21 that no other
\* run came between prints InitValue - 1, any other what the steps of the others can
\* make of it; and the child of 22 prints a beginning of msg.
THEOREM PrintedIsRight == Spec => []PrintedRight
<1>1. SemInv => PrintedRight
  BY DEF SemInv, TextInv, PrintedRight, PrintedText
<1> QED
  BY <1>1, InitSemInv, NextSemInv, Invariant, PTL DEF Spec
=============================================================================
