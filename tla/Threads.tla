------------------------------ MODULE Threads -------------------------------
(***************************************************************************)
(* 25-mutil-thread-mutex.c: two threads count an int up and down under a   *)
(* mutex until main clears running, waits for both and destroys the mutex. *)
(* buffer_has_item++ is a load and a store; running is read without the    *)
(* mutex.  24-mutil-thread.c: one thread prints until main clears run,     *)
(* then leaves a value behind that main prints once it has waited for it.  *)
(***************************************************************************)
EXTENDS Integers

CONSTANTS
  MaxRounds   \* bound: rounds of a thread while running is set

ASSUME ThreadsAssumption == MaxRounds \in Nat

Threads == {"producter", "consumer", "static_routine"}

VARIABLES
  prog,
  running,       \* run in 24
  buffer_has_item,
  mutex,         \* its holder, "free" or "destroyed"
  pc, register,  \* per thread: control, the value loaded
  retvalue,      \* of 24: written by the thread, read by main through ret_join
  main, printed,
  rounds, late   \* history: rounds of each thread; those ended since running was cleared

tVars == <<buffer_has_item, mutex, pc, register, retvalue, rounds, late>>
threadsVars == <<prog, running, tVars, main, printed>>

Started == IF prog = "24" THEN {"static_routine"} ELSE {"producter", "consumer"}

ThreadsInit ==
  /\ prog \in {"24", "25"}
  /\ running = TRUE /\ buffer_has_item = 0 /\ mutex = "free"
  /\ pc = [t \in Threads |-> "unborn"] /\ register = [t \in Threads |-> 0]
  /\ retvalue = 0
  /\ main = "create" /\ printed = 0
  /\ rounds = [t \in Threads |-> 0] /\ late = [t \in Threads |-> 0]

-----------------------------------------------------------------------------
(* A thread t. *)

\* The read of running at the head of the loop; hoisted, it would be read once.
RunningHoisted(t) == running \/ rounds[t] > 0
Running(t) == running

Body == IF prog = "24" THEN "print" ELSE "lock"
AfterLoop == IF prog = "24" THEN "return" ELSE "exit"

While(t) ==
  /\ pc[t] = "while"
  /\ running => rounds[t] < MaxRounds
  /\ pc' = [pc EXCEPT ![t] = IF Running(t) THEN Body ELSE AfterLoop]
  /\ UNCHANGED <<prog, running, buffer_has_item, mutex, register, retvalue, main, printed, rounds, late>>

\* A round counts as late when it ends after running was cleared.
Round(t) ==
  /\ rounds' = [rounds EXCEPT ![t] = @ + 1]
  /\ late' = IF running THEN late ELSE [late EXCEPT ![t] = @ + 1]

NoMutex == mutex
FreeMutex == "free"

Lock(t) ==
  /\ pc[t] = "lock" /\ mutex = FreeMutex
  /\ mutex' = t
  /\ pc' = [pc EXCEPT ![t] = "load"]
  /\ UNCHANGED <<prog, running, buffer_has_item, register, retvalue, main, printed, rounds, late>>

Load(t) ==
  /\ pc[t] = "load"
  /\ register' = [register EXCEPT ![t] = buffer_has_item]
  /\ pc' = [pc EXCEPT ![t] = "store"]
  /\ UNCHANGED <<prog, running, buffer_has_item, mutex, retvalue, main, printed, rounds, late>>

Store(t) ==
  /\ pc[t] = "store"
  /\ buffer_has_item' = register[t] + (IF t = "producter" THEN 1 ELSE -1)
  /\ Round(t)
  /\ pc' = [pc EXCEPT ![t] = "unlock"]
  /\ UNCHANGED <<prog, running, mutex, register, retvalue, main, printed>>

StillLocked(t) == t
Unlocked(t) == "free"

Unlock(t) ==
  /\ pc[t] = "unlock"
  /\ mutex' = Unlocked(t)
  /\ pc' = [pc EXCEPT ![t] = "while"]
  /\ UNCHANGED <<prog, running, buffer_has_item, register, retvalue, main, printed, rounds, late>>

\* The thread of 24 prints and sleeps.
PrintRound(t) ==
  /\ pc[t] = "print"
  /\ Round(t)
  /\ pc' = [pc EXCEPT ![t] = "while"]
  /\ UNCHANGED <<prog, running, buffer_has_item, mutex, register, retvalue, main, printed>>

Return(t) ==
  /\ pc[t] = "return"
  /\ retvalue' = 8
  /\ pc' = [pc EXCEPT ![t] = "exit"]
  /\ UNCHANGED <<prog, running, buffer_has_item, mutex, register, main, printed, rounds, late>>

Thread(t) == While(t) \/ Lock(t) \/ Load(t) \/ Store(t) \/ Unlock(t) \/ PrintRound(t) \/ Return(t)

-----------------------------------------------------------------------------
(* main. *)

Create(t) ==
  /\ main = "create" /\ t \in Started /\ pc[t] = "unborn"
  /\ t = "consumer" => pc["producter"] # "unborn"
  /\ pc' = [pc EXCEPT ![t] = "while"]
  /\ main' = IF t = "producter" THEN main ELSE "sleep"
  /\ UNCHANGED <<prog, running, buffer_has_item, mutex, register, retvalue, printed, rounds, late>>

\* 24 ends; 25 does not look at the result.
CreateFails ==
  /\ main = "create" /\ prog = "24"
  /\ main' = "failed"
  /\ UNCHANGED <<prog, running, tVars, printed>>

Stop ==
  /\ main = "sleep" /\ main' = "join"
  /\ running' = FALSE
  /\ UNCHANGED <<prog, tVars, printed>>

\* The pthread_join calls have returned.
JoinSkipped == TRUE
Joined == \A t \in Started : pc[t] = "exit"

Destroy ==
  /\ main = "join" /\ prog = "25" /\ Joined
  /\ main' = "exit" /\ mutex' = "destroyed"
  /\ UNCHANGED <<prog, running, buffer_has_item, pc, register, retvalue, printed, rounds, late>>

PrintJoined ==
  /\ main = "join" /\ prog = "24" /\ Joined
  /\ main' = "exit" /\ printed' = retvalue
  /\ UNCHANGED <<prog, running, tVars>>

Main == (\E t \in Threads : Create(t)) \/ CreateFails \/ Stop \/ Destroy \/ PrintJoined
ThreadsNext == Main \/ \E t \in Threads : Thread(t)

ThreadsSpec == ThreadsInit /\ [][ThreadsNext]_threadsVars
\* The scheduler runs every thread; a thread that waits for the mutex gets it
\* at last, for main gives it no other chance than the end of the other's loop.
FairThreadsSpec == ThreadsSpec /\ WF_threadsVars(Main) /\ \A t \in Threads : WF_threadsVars(Thread(t))

-----------------------------------------------------------------------------
(* Properties. *)

\* No increment or decrement is lost.
CounterExact == buffer_has_item = rounds["producter"] - rounds["consumer"]

\* After main has cleared running, each thread does one more round at most, the
\* one it had already begun.
OneLateRound == \A t \in Threads : late[t] <= 1

\* The program ends; main of 24 prints the value that its thread left.
MainEnds == <>(main = "failed" \/ (main = "exit" /\ (prog = "24" => printed = 8)))
=============================================================================
