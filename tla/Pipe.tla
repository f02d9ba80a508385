-------------------------------- MODULE Pipe --------------------------------
(***************************************************************************)
(* A child writes into a pipe, its parent reads: prog is one of            *)
(*   17-multi-process-pipe-autom.c, where the child asks write for far     *)
(*   more bytes than its array has: the call copies what is mapped behind  *)
(*   the array and then fails, so it may be short, or -1 when nothing is   *)
(*   copied; both loop;                                                    *)
(*   16-multi-process-pipe.c, one write of a short text and one read;      *)
(*   18-mutil-process-namedpipe.c, the same through a FIFO that both open  *)
(*   by its name; the parent waits for the child before it reads.          *)
(***************************************************************************)
EXTENDS Integers, Cwd

CONSTANTS
  WriteLen,   \* WRITELEN of 17, 128 K
  TextLen,    \* of the text of 16 and 18
  ReadLen,    \* sizeof(readbuffer): 10 K in 17; the text of 16 and 18 fits
  Capacity,   \* of the pipe, 64 K
  Mapped      \* bytes one write copies before it reaches unmapped memory

ASSUME PipeAssumption ==
  /\ {WriteLen, TextLen, ReadLen, Capacity} \subseteq Nat \ {0} /\ Mapped \in Nat
  /\ TextLen <= ReadLen /\ TextLen <= Capacity

VARIABLES
  wpc, write_size, copied,   \* the child; bytes its current write has put into the pipe
  rpc, received,             \* the parent; bytes it has read
  held                       \* bytes in the pipe

writer == <<wpc, write_size, copied>>
reader == <<rpc, received>>
pipeVars == <<writer, reader, held>>

Size == IF prog = "17" THEN WriteLen ELSE TextLen
Gone == {"done", "failed", "dead"}

PipeInit ==
  /\ wpc = "unborn" /\ write_size = Size /\ copied = 0
  /\ rpc = "begin" /\ received = 0
  /\ held = 0

WithFifo == IF prog = "18" THEN names \cup {"named_fifo"} ELSE names

\* pipe or mkfifo, then fork.
Begin ==
  /\ Pipes /\ rpc = "begin"
  /\ prog = "18" => "named_fifo" \notin names
  /\ names' = WithFifo
  /\ rpc' = "start" /\ wpc' = "start"
  /\ UNCHANGED <<prog, write_size, copied, received, held>>

\* One of them fails: mkfifo whenever the name exists.
BeginFails ==
  /\ Pipes /\ rpc = "begin"
  /\ names' \in {names, WithFifo}
  /\ rpc' = "failed"
  /\ UNCHANGED <<prog, writer, received, held>>

\* In 16 and 17 fork leaves both processes with both ends; each closes one first.
\* In 18 each opens its own.
WriteEndAlwaysKept == prog # "18" /\ rpc \notin Gone
WriteEndKept == prog # "18" /\ rpc = "start"
ReadEndKept == prog # "18" /\ wpc = "start"
HasWriter == wpc \notin Gone \/ WriteEndKept
HasReader == rpc \notin Gone \/ ReadEndKept

-----------------------------------------------------------------------------
(* The ends of the FIFO: each open waits for the other, or fails at once. *)

WriterOpens ==
  /\ prog = "18" /\ wpc = "start"
  /\ wpc' = IF rpc = "open" THEN "write" ELSE "open"
  /\ rpc' = IF rpc = "open" THEN "wait" ELSE rpc
  /\ UNCHANGED <<cwd, write_size, copied, received, held>>

WriterOpenFails ==
  /\ prog = "18" /\ wpc = "start"
  /\ wpc' = "failed"
  /\ UNCHANGED <<cwd, write_size, copied, reader, held>>

ReaderOpens ==
  /\ prog = "18" /\ rpc = "start"
  /\ rpc' = IF wpc = "open" THEN "wait" ELSE "open"
  /\ wpc' = IF wpc = "open" THEN "write" ELSE wpc
  /\ UNCHANGED <<cwd, write_size, copied, received, held>>

ReaderOpenFails ==
  /\ prog = "18" /\ rpc = "start"
  /\ rpc' = "failed"
  /\ UNCHANGED <<cwd, writer, received, held>>

\* waitpid; then one read, and the child has no more to write.  waitpid fails, when
\* the child has ended, if 18 was started with SIGCHLD ignored.
ReaderWaits ==
  /\ rpc = "wait" /\ wpc \in Gone
  /\ rpc' \in {"read", "failed"}
  /\ UNCHANGED <<cwd, writer, received, held>>

-----------------------------------------------------------------------------
(* The child. *)

WriterStart ==
  /\ prog # "18" /\ wpc = "start"
  /\ wpc' = IF prog = "17" THEN "loop" ELSE "write"
  /\ UNCHANGED <<cwd, write_size, copied, reader, held>>

OnlyOnce == write_size = WriteLen
WhileLeft == write_size >= 0

WriterLoop ==
  /\ wpc = "loop"
  /\ wpc' = IF WhileLeft THEN "write" ELSE "done"
  /\ UNCHANGED <<cwd, write_size, copied, reader, held>>

\* What one call of write can copy.
Asked == IF prog = "17" THEN Least(write_size, Mapped) ELSE write_size

\* A short text goes into the pipe as a whole.
Copy ==
  /\ wpc = "write" /\ copied < Asked /\ HasReader
  /\ \E n \in 1 .. Capacity - held :
       /\ n <= Asked - copied
       /\ prog = "17" \/ n = Asked
       /\ copied' = copied + n /\ held' = held + n
  /\ UNCHANGED <<cwd, wpc, write_size, reader>>

\* write(fd, string, 0), once everything is written, succeeds without a reader.
LeftAfterOne == write_size - 1
LeftAfterWrite == write_size - copied

WriteReturns ==
  /\ wpc = "write" /\ copied = Asked
  /\ \/ /\ copied > 0
        /\ write_size' = LeftAfterWrite
        /\ wpc' = IF prog = "17" THEN "loop" ELSE "done"
     \/ copied = 0 /\ wpc' = "sleep" /\ UNCHANGED write_size
  /\ copied' = 0
  /\ UNCHANGED <<cwd, reader, held>>

WriterWakes ==
  /\ wpc = "sleep" /\ wpc' = "loop"
  /\ UNCHANGED <<cwd, write_size, copied, reader, held>>

\* SIGPIPE.
BrokenPipe ==
  /\ wpc = "write" /\ copied < Asked /\ ~HasReader
  /\ wpc' = "dead"
  /\ UNCHANGED <<cwd, write_size, copied, reader, held>>

-----------------------------------------------------------------------------
(* The parent. *)

ReaderStart ==
  /\ prog # "18" /\ rpc = "start"
  /\ rpc' = "read"
  /\ UNCHANGED <<cwd, writer, received, held>>

\* 16 and 18 print what one read returns and end.
Read ==
  /\ rpc = "read" /\ held > 0
  /\ LET n == Least(ReadLen, held) IN received' = received + n /\ held' = held - n
  /\ rpc' = IF prog = "17" THEN "read" ELSE "done"
  /\ UNCHANGED <<cwd, writer>>

ReadEof ==
  /\ rpc = "read" /\ held = 0 /\ ~HasWriter
  /\ rpc' = "done"
  /\ UNCHANGED <<cwd, writer, received, held>>

KillWriter ==
  /\ wpc \notin Gone \cup {"unborn"} /\ wpc' = "dead"
  /\ UNCHANGED <<cwd, write_size, copied, reader, held>>

KillReader ==
  /\ rpc \notin Gone \cup {"begin"} /\ rpc' = "dead"
  /\ UNCHANGED <<cwd, writer, received, held>>

-----------------------------------------------------------------------------

Writer ==
  \/ WriterOpens \/ WriterOpenFails \/ WriterStart \/ WriterLoop \/ Copy
  \/ WriteReturns \/ WriterWakes \/ BrokenPipe
Reader ==
  \/ Begin \/ BeginFails \/ ReaderOpens \/ ReaderOpenFails \/ ReaderWaits
  \/ ReaderStart \/ Read \/ ReadEof
PipeNext == Writer \/ Reader \/ KillWriter \/ KillReader

-----------------------------------------------------------------------------
(* Properties. *)

\* However many writes and reads the transfer is cut into, every byte that the
\* child counts as written is in the pipe or was read once.  When the parent has
\* read all it reads, the pipe is drained, and if not all has arrived, the child
\* was killed: one read is enough for 16 and 18.
NothingLost ==
  /\ received + held = Size - write_size + copied
  /\ copied <= write_size /\ held <= Capacity
  /\ rpc = "done" => held = 0 /\ (received = Size \/ wpc = "dead")

\* All bytes arrive, unless a process is killed, a call fails on the way to the
\* first write or read, or no write can copy anything.
AllDelivered ==
  Pipes /\ Mapped > 0 => <>(received = Size \/ {wpc, rpc} \cap {"failed", "dead"} # {})

\* Whoever is left ends: the parent at the end of the pipe, the child by SIGPIPE,
\* unless 17 has nothing left to write: then the child sleeps and writes 0 bytes
\* for ever (39-50).  In 18, however, whoever is left before both have opened the
\* FIFO waits for ever in its open (37, 61), also when the other's open failed.
SurvivorEnds ==
  /\ wpc \in Gone ~> (rpc \in Gone \/ rpc = "open")
  /\ Mapped > 0 =>
       rpc \in {"failed", "dead"} /\ wpc # "unborn"
         ~> (wpc \in Gone \/ wpc = "open" \/ (prog = "17" /\ write_size = 0))
=============================================================================
