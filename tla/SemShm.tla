------------------------------- MODULE SemShm -------------------------------
(***************************************************************************)
(* 21-semaphobe.c: a run creates a semaphore, counts it up and down and    *)
(* removes it.  22-share_mem.c: a parent copies msg to a shared segment,   *)
(* its child prints it; both touch a semaphore.  Sem_P adds and Sem_V      *)
(* takes, neither waits (IPC_NOWAIT) and nobody looks at the result.  The  *)
(* objects outlive the runs.  A position of the segment holds 0 or its     *)
(* character of msg, since all runs copy the same msg.                     *)
(***************************************************************************)
EXTENDS Integers, FiniteSets, Directory

CONSTANTS
  InitValue,  \* the value 21 creates its semaphore with, 100
  Loops,      \* passes of the loop of 21, 4
  MsgLen,     \* strlen(msg) of 22, 11
  MemRuns     \* bound: the runs of 22

ASSUME SemShmAssumption ==
  /\ {InitValue, Loops, MsgLen} \subseteq Nat \ {0}
  /\ MemRuns \subseteq Runs

VARIABLES
  set, sets, val,        \* the semaphore the key names, 0 if none; identifiers used; its value
  shm,                   \* positions of the segment that hold their character
  semid, pc, i,          \* per run: what semget returned, control of main, passes left
  value,                 \* per run of 21: the value printed
  todo,                  \* per run of 22: positions its parent has still to copy
  cpc, k,                \* per run of 22: control of the child, characters it has seen
  alone, before          \* history: no other run in between; text there when the child began

sems == <<set, sets, val>>
hist == <<alone, before>>
semVars == <<sems, shm, semid, pc, i, value, todo, cpc, k, hist>>

SemInit ==
  /\ set = 0 /\ sets = 0 /\ val = 0 /\ shm = {}
  /\ semid = [r \in Runs |-> 0]
  /\ pc = [r \in Runs |-> "start"]
  /\ i = [r \in Runs |-> Loops]
  /\ value = [r \in Runs |-> 0]
  /\ todo = [r \in Runs |-> 1 .. MsgLen]
  /\ cpc = [r \in Runs |-> "unborn"] /\ k = [r \in Runs |-> 0]
  /\ alone = [r \in Runs |-> FALSE] /\ before = [r \in Runs |-> 0]

SemEnded(r) == pc[r] \in {"done", "nofork", "dead"}
SemActive(r) == pc[r] # "start" /\ ~SemEnded(r)

-----------------------------------------------------------------------------
(* CreateSem: semget with IPC_CREAT, then semctl with SETVAL.              *)

\* A new semaphore is 0.
SemGet(r) ==
  /\ prog \in {"21", "22"} /\ pc[r] = "start"
  /\ prog = "22" => r \in MemRuns
  /\ IF set = 0
     THEN set' = sets + 1 /\ sets' = sets + 1 /\ val' = 0
     ELSE UNCHANGED sems
  /\ semid' = [semid EXCEPT ![r] = set']
  /\ pc' = [pc EXCEPT ![r] = "setval"]
  /\ alone' = [s \in Runs |-> IF s = r THEN \A o \in Runs \ {r} : ~SemActive(o)
                              ELSE alone[s] /\ ~SemActive(s)]
  /\ UNCHANGED <<shm, i, value, todo, cpc, k, before>>

\* Calls on a semaphore that has been removed fail.
Reached(r) == semid[r] = set

ValueKept == val
StartValue == IF prog = "21" THEN InitValue ELSE 0

SetVal(r) ==
  /\ pc[r] = "setval"
  /\ val' = IF Reached(r) THEN StartValue ELSE val
  /\ pc' = [pc EXCEPT ![r] = IF prog = "21" THEN "P" ELSE "fork"]
  /\ UNCHANGED <<set, sets, shm, semid, i, value, todo, cpc, k, hist>>

\* Sem_P and Sem_V.  The limit of a semaphore, 32767, is out of reach.
Added(r) == IF Reached(r) THEN val + 1 ELSE val
Taken(r) == IF Reached(r) /\ val > 0 THEN val - 1 ELSE val

-----------------------------------------------------------------------------
(* main of 21. *)

SemP(r) ==
  /\ pc[r] = "P"
  /\ val' = Added(r)
  /\ pc' = [pc EXCEPT ![r] = "V"]
  /\ UNCHANGED <<set, sets, shm, semid, i, value, todo, cpc, k, hist>>

\* The V of the loop, and the one more after it.
SemV(r) ==
  /\ pc[r] = "V"
  /\ val' = Taken(r)
  /\ i' = [i EXCEPT ![r] = @ - 1]
  /\ pc' = [pc EXCEPT ![r] = IF i[r] > 1 THEN "P" ELSE IF i[r] = 1 THEN "V" ELSE "getval"]
  /\ UNCHANGED <<set, sets, shm, semid, value, todo, cpc, k, hist>>

GetVal(r) ==
  /\ pc[r] = "getval"
  /\ value' = [value EXCEPT ![r] = IF Reached(r) THEN val ELSE -1]
  /\ pc' = [pc EXCEPT ![r] = "destroy"]
  /\ UNCHANGED <<sems, shm, semid, i, todo, cpc, k, hist>>

SetKept(r) == set
SetAfterDestroy(r) == IF Reached(r) THEN 0 ELSE set

DestroySem(r) ==
  /\ pc[r] = "destroy"
  /\ set' = SetAfterDestroy(r)
  /\ pc' = [pc EXCEPT ![r] = "done"]
  /\ UNCHANGED <<sets, val, shm, semid, i, value, todo, cpc, k, hist>>

-----------------------------------------------------------------------------
(* main of 22. *)

\* The segment keeps what an earlier run left in it.
ShmCleared == {}
ShmKept == shm

SemFork(r) ==
  /\ pc[r] = "fork"
  /\ pc' = [pc EXCEPT ![r] = "copy"]
  /\ cpc' = [cpc EXCEPT ![r] = "take"]
  /\ shm' = ShmKept
  /\ UNCHANGED <<sems, semid, i, value, todo, k, hist>>

SemForkFails(r) ==
  /\ pc[r] = "fork"
  /\ pc' = [pc EXCEPT ![r] = "nofork"]
  /\ UNCHANGED <<sems, shm, semid, i, value, todo, cpc, k, hist>>

\* memcpy, in any order of the bytes.
CopyByte(r) ==
  /\ pc[r] = "copy"
  /\ \E b \in todo[r] :
       /\ shm' = shm \cup {b}
       /\ todo' = [todo EXCEPT ![r] = @ \ {b}]
  /\ pc' = [pc EXCEPT ![r] = IF todo'[r] = {} THEN "post" ELSE "copy"]
  /\ UNCHANGED <<sems, semid, i, value, cpc, k, hist>>

Post(r) ==
  /\ pc[r] = "post"
  /\ val' = Added(r)
  /\ pc' = [pc EXCEPT ![r] = "done"]
  /\ UNCHANGED <<set, sets, shm, semid, i, value, todo, cpc, k, hist>>

\* How much of the text a reader finds before the first 0.
TextIn(bytes) == CHOOSE n \in 0 .. MsgLen : 1 .. n \subseteq bytes /\ n + 1 \notin bytes

\* The child does not wait for the parent: its Sem_V returns at once.
Take(r) ==
  /\ cpc[r] = "take"
  /\ val' = Taken(r)
  /\ before' = [before EXCEPT ![r] = TextIn(shm)]
  /\ cpc' = [cpc EXCEPT ![r] = "print"]
  /\ UNCHANGED <<set, sets, shm, semid, pc, i, value, todo, k, alone>>

\* printf of %s looks at one character after the other, up to the first 0.
PrintByte(r) ==
  /\ cpc[r] = "print"
  /\ IF k[r] + 1 \in shm
     THEN k' = [k EXCEPT ![r] = @ + 1] /\ UNCHANGED cpc
     ELSE cpc' = [cpc EXCEPT ![r] = "done"] /\ UNCHANGED k
  /\ UNCHANGED <<sems, shm, semid, pc, i, value, todo, hist>>

SemKill(r) ==
  /\ \/ SemActive(r) /\ pc' = [pc EXCEPT ![r] = "dead"] /\ UNCHANGED cpc
     \/ cpc[r] \in {"take", "print"} /\ cpc' = [cpc EXCEPT ![r] = "dead"] /\ UNCHANGED pc
  /\ UNCHANGED <<sems, shm, semid, i, value, todo, k, hist>>

-----------------------------------------------------------------------------

SemMain(r) ==
  \/ SetVal(r) \/ SemP(r) \/ SemV(r) \/ GetVal(r) \/ DestroySem(r)
  \/ SemFork(r) \/ CopyByte(r) \/ Post(r)
SemChild(r) == Take(r) \/ PrintByte(r)

SemNext ==
  /\ \E r \in Runs : SemGet(r) \/ SemMain(r) \/ SemChild(r) \/ SemForkFails(r) \/ SemKill(r)
  /\ UNCHANGED prog

-----------------------------------------------------------------------------
(* Properties. *)

\* 21 alone in its directory prints InitValue - 1, whatever a killed run left.  Runs
\* that overlap reset the value under each other and remove the semaphore: then
\* a run prints -1, or a value that is off by the steps the others had under way.
PrintedValue ==
  \A r \in Runs :
    prog = "21" /\ pc[r] \in {"destroy", "done"} =>
      IF alone[r] THEN value[r] = InitValue - 1
      ELSE value[r] = -1 \/
           value[r] \in InitValue - 2 * Cardinality(Runs) + 1 .. InitValue + Cardinality(Runs) - 1

\* The child of 22 prints, without waiting, while parents copy in any order of
\* the bytes: what it prints is a beginning of msg, at least as long as the text
\* that was there when it began, be it from an earlier run.
PrintedText ==
  \A r \in Runs :
    cpc[r] = "done" => before[r] <= k[r] /\ 1 .. k[r] \subseteq shm

\* What 21 and 22 print although nothing in them waits for another process.
PrintedRight == PrintedValue /\ PrintedText
=============================================================================
