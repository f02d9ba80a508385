------------------------------ MODULE WorkDir -------------------------------
(***************************************************************************)
(* The programs that find names in their working directory and leave some: *)
(* Pipe (16, 17 and 18, of which 18 makes a FIFO) and FileIo (01, 02, 03,  *)
(* 06, 08 and 10).                                                         *)
(***************************************************************************)
EXTENDS Pipe, FileIo

vars == <<cwd, pipeVars, fileVars>>

\* What the programs that run never look at has one initial value.
Init ==
  /\ CwdInit /\ PipeInit /\ FileInit
  /\ IF Pipes
     THEN /\ names \subseteq {"named_fifo"} /\ job = CHOOSE j \in Jobs : TRUE
          /\ \A f \in DOMAIN content : content[f] = <<>>
     ELSE "named_fifo" \notin names

Next ==
  \/ PipeNext /\ UNCHANGED fileVars
  \/ FileNext /\ UNCHANGED pipeVars

Spec == Init /\ [][Next]_vars

\* The kernel runs both processes of 16, 17 and 18.
FairSpec ==
  /\ Spec
  /\ WF_vars(Writer /\ UNCHANGED fileVars)
  /\ WF_vars(Reader /\ UNCHANGED fileVars)
=============================================================================
