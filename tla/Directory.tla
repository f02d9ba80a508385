----------------------------- MODULE Directory ------------------------------
(***************************************************************************)
(* 19, 20, 21 and 22 take the key of their kernel objects from ftok of the *)
(* working directory, each with a letter of its own for its kind of        *)
(* object: all runs of one program that are started in a directory share   *)
(* its queue, semaphore or memory, and none shares with another program.   *)
(* So one program, prog, is started several times.                         *)
(***************************************************************************)
EXTENDS FiniteSets

CONSTANTS
  Runs,       \* runs of the program
  Programs    \* the programs to choose from

ASSUME DirectoryAssumption ==
  Programs \subseteq {"19", "20", "21", "22"} /\ IsFiniteSet(Runs)

VARIABLE prog
=============================================================================
