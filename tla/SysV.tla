-------------------------------- MODULE SysV --------------------------------
(***************************************************************************)
(* The programs that share kernel objects through the directory they are   *)
(* started in: MsgQueue (19, 20) and SemShm (21, 22), of which prog names  *)
(* the one that is run.                                                    *)
(***************************************************************************)
EXTENDS MsgQueue, SemShm

vars == <<prog, msgVars, semVars>>

Init ==
  /\ prog \in Programs /\ MsgInit /\ SemInit
  /\ lp64 => prog = "19"   \* the width of a long matters to 19 only

Next ==
  \/ MsgNext /\ UNCHANGED semVars
  \/ SemNext /\ UNCHANGED msgVars

Spec == Init /\ [][Next]_vars

\* The kernel runs the processes of every run of 19 and 20 that has been started.  21
\* and 22 need none: they never wait.
FairSpec ==
  /\ Spec
  /\ \A r \in Runs :
       /\ WF_vars(Receiver(r) /\ UNCHANGED <<prog, semVars>>)
       /\ WF_vars(Sender(r) /\ UNCHANGED <<prog, semVars>>)

-----------------------------------------------------------------------------
(* Properties of all four programs. *)

Disturbed ==
  \E r \in Runs :
    {"nofork", "dead"} \cap {receiver[r], sender[r], pc[r], cpc[r]} # {}

AllEnded ==
  \A r \in Runs : {receiver[r], pc[r]} \cap {"done", "failed"} # {} \/
                  (receiver[r] = "start" /\ pc[r] = "start")

\* If no fork fails and nothing is killed, the runs of 19, 20 and 21 leave no
\* queue and no semaphore behind, in whatever order they get, use and remove the one
\* they share.
NothingLeft == ~Disturbed /\ AllEnded /\ prog # "22" => live = 0 /\ set = 0

\* If no fork fails and nothing is killed, every run of 19 and 20 ends: 19 never waits,
\* and in 20 whoever receives removes the queue, which ends the wait of all
\* others, even if it was full when their own child wanted to send.
ReceiversEnd == \A r \in Runs : receiver[r] = "recv" ~> (MsgEnded(r) \/ Disturbed)
=============================================================================
