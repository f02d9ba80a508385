------------------------------ MODULE MsgQueue ------------------------------
(***************************************************************************)
(* System V message queues.  20-mutil-process-msg1.c: a child sends one    *)
(* message, its parent receives one and removes the queue.                 *)
(* 19-mutli-process-msg.c: one process sends, receives without waiting and *)
(* removes.  A queue outlives the processes that are killed.  The messages *)
(* differ only in who sent them.                                           *)
(***************************************************************************)
EXTENDS Integers, Sequences, Directory

CONSTANTS
  Nobody,
  Capacity    \* messages the queue can hold (msg_qbytes over BUF_LEN)

ASSUME MsgQueueAssumption ==
  Nobody \notin Runs /\ Capacity \in Nat \ {0}

VARIABLES
  lp64,               \* whether the build has a long of 64 bits
  msgid,              \* per run: the queue msgget returned
  receiver, sender,   \* per run: control of parent and child of 20; in 19 one process does
                      \* the sender's part first
  live, queue,        \* identifier of the queue the key names, 0 if none; its messages
  ids,                \* identifiers used so far
  got, unmatched      \* history: whose message a run has received; whether the queue was
                      \* there and held none for it

msgVars == <<lp64, msgid, receiver, sender, live, queue, ids, got, unmatched>>

MsgInit ==
  /\ lp64 \in BOOLEAN
  /\ msgid = [r \in Runs |-> 0]
  /\ receiver = [r \in Runs |-> "start"]
  /\ sender = [r \in Runs |-> "unborn"]
  /\ live = 0 /\ queue = <<>> /\ ids = 0
  /\ got = [r \in Runs |-> Nobody]
  /\ unmatched = [r \in Runs |-> FALSE]

\* msgget with IPC_CREAT.
Get(r) ==
  /\ prog \in {"19", "20"} /\ receiver[r] = "start"
  /\ IF live = 0
     THEN ids' = ids + 1 /\ live' = ids + 1 /\ queue' = <<>>
     ELSE UNCHANGED <<ids, live, queue>>
  /\ msgid' = [msgid EXCEPT ![r] = live']
  /\ receiver' = [receiver EXCEPT ![r] = IF prog = "20" THEN "fork" ELSE "recv"]
  /\ sender' = [sender EXCEPT ![r] = IF prog = "20" THEN @ ELSE "send"]
  /\ UNCHANGED <<lp64, got, unmatched>>

Fork(r) ==
  /\ receiver[r] = "fork"
  /\ receiver' = [receiver EXCEPT ![r] = "recv"]
  /\ sender' = [sender EXCEPT ![r] = "send"]
  /\ UNCHANGED <<lp64, msgid, live, queue, ids, got, unmatched>>

ForkFails(r) ==
  /\ receiver[r] = "fork"
  /\ receiver' = [receiver EXCEPT ![r] = "nofork"]
  /\ UNCHANGED <<lp64, msgid, sender, live, queue, ids, got, unmatched>>

-----------------------------------------------------------------------------
(* The sender. *)

Reachable(r) == msgid[r] = live
HasRoom == Len(queue) < Capacity

Send(r) ==
  /\ sender[r] = "send" /\ Reachable(r) /\ HasRoom
  /\ queue' = Append(queue, r)
  /\ sender' = [sender EXCEPT ![r] = "done"]
  /\ UNCHANGED <<lp64, msgid, receiver, live, ids, got, unmatched>>

\* The queue is full (IPC_NOWAIT) or has been removed.
SendFails(r) ==
  /\ sender[r] = "send" /\ ~(Reachable(r) /\ HasRoom)
  /\ sender' = [sender EXCEPT ![r] = "failed"]
  /\ UNCHANGED <<lp64, msgid, receiver, live, queue, ids, got, unmatched>>

-----------------------------------------------------------------------------
(* The receiver.  In 20 it does not wait for its child. *)

AtReceive(r) == receiver[r] = "recv" /\ (prog = "19" => sender[r] # "send")

\* The type as msgsnd and msgrcv read it, lower and upper half of a long: 19 has an
\* int there, behind which a long of 64 bits takes "abc" as its upper half.
Plain(t) == <<t, "no upper half">>
SentType == IF prog = "20" THEN Plain(10) ELSE IF lp64 THEN <<3, "abc">> ELSE Plain(3)
AskedTen == Plain(10)
AskedType == IF prog = "20" THEN Plain(10) ELSE Plain(3)

Waiting == queue # <<>> /\ SentType = AskedType

Peeked == queue
AfterReceive == Tail(queue)

Receive(r) ==
  /\ AtReceive(r) /\ Reachable(r) /\ Waiting
  /\ got' = [got EXCEPT ![r] = Head(queue)]
  /\ queue' = AfterReceive
  /\ receiver' = [receiver EXCEPT ![r] = "remove"]
  /\ UNCHANGED <<lp64, msgid, sender, live, ids, unmatched>>

\* The queue has been removed, before the call or during it; or there is no message, for
\* which 20 waits and 19 does not.  20 then returns, 19 goes on.
ReceiveFails(r) ==
  /\ AtReceive(r) /\ (~Reachable(r) \/ (prog = "19" /\ ~Waiting))
  /\ receiver' = [receiver EXCEPT ![r] = IF prog = "20" THEN "failed" ELSE "remove"]
  /\ unmatched' = [unmatched EXCEPT ![r] = Reachable(r)]
  /\ UNCHANGED <<lp64, msgid, sender, live, queue, ids, got>>

\* msgctl with IPC_RMID: it removes the queue with the messages it still holds.
Kept(r) == live
LiveAfterRemove(r) == IF Reachable(r) THEN 0 ELSE live

Remove(r) ==
  /\ receiver[r] = "remove"
  /\ live' = LiveAfterRemove(r)
  /\ queue' = IF live' = live THEN queue ELSE <<>>
  /\ receiver' = [receiver EXCEPT ![r] = IF Reachable(r) THEN "done" ELSE "failed"]
  /\ UNCHANGED <<lp64, msgid, sender, ids, got, unmatched>>

MsgKill(r) ==
  /\ \/ /\ receiver[r] \in {"fork", "recv", "remove"}
        /\ receiver' = [receiver EXCEPT ![r] = "dead"]
        /\ sender' = [sender EXCEPT ![r] = IF prog = "19" /\ @ = "send" THEN "dead" ELSE @]
     \/ /\ prog = "20" /\ sender[r] = "send"
        /\ sender' = [sender EXCEPT ![r] = "dead"] /\ UNCHANGED receiver
  /\ UNCHANGED <<lp64, msgid, live, queue, ids, got, unmatched>>

-----------------------------------------------------------------------------

Receiver(r) == Fork(r) \/ Receive(r) \/ ReceiveFails(r) \/ Remove(r)
Sender(r) == Send(r) \/ SendFails(r)

MsgNext ==
  /\ \E r \in Runs : Get(r) \/ Receiver(r) \/ Sender(r) \/ ForkFails(r) \/ MsgKill(r)
  /\ UNCHANGED prog

MsgEnded(r) == receiver[r] \in {"done", "failed", "nofork", "dead"}

-----------------------------------------------------------------------------
(* Properties. *)

\* No message is received by two runs, nor one that is still in the queue.
ReceivedOnce ==
  \A r \in Runs :
    got[r] # Nobody =>
      /\ sender[got[r]] = "done"
      /\ \A s \in Runs \ {r} : got[s] # got[r]
      /\ \A m \in DOMAIN queue : queue[m] # got[r]

\* 19 does not wait, and runs take each other's messages.  With a long of 32 bits
\* a run of 19 that finds its queue still finds a message in it, for each has sent
\* before it receives, unless it was full for one of the runs that share it; with
\* 64 bits no run of 19 ever receives anything.
EmptyHandedAsExpected ==
  \A r \in Runs :
    /\ unmatched[r] => lp64 \/ \E s \in Runs : sender[s] = "failed" /\ msgid[s] = msgid[r]
    /\ lp64 => got[r] = Nobody

\* However runs of 19 and 20 interleave on their queue, a message reaches at most one
\* receiver, and in 19 only a full queue or the width of a long leaves one without.
OneMessageEach == ReceivedOnce /\ EmptyHandedAsExpected
=============================================================================
