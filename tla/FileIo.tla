------------------------------- MODULE FileIo -------------------------------
(***************************************************************************)
(* Programs started at once in one directory, on its files:                *)
(*   01-open.c creates test.txt, 02-read.c prints it, 03-write.c writes    *)
(*   over its beginning, 10-fcntl01.c appends to it;                       *)
(*   06-lseek.c creates hole.txt, 08-m_map.c creates mmap.txt and writes   *)
(*   through a mapping of it.                                              *)
(* A file is the sequence of what its bytes say.  open is given the mode   *)
(* S_IRWXU among its flags, where it means O_CREAT, O_EXCL and O_NOCTTY,   *)
(* and no mode: whether a file can be opened later is left to chance.      *)
(***************************************************************************)
EXTENDS Integers, Sequences, FiniteSets, Cwd

CONSTANTS
  FileRuns,     \* the programs that run at once
  Jobs,         \* functions: the program of each
  HelloLen,     \* strlen(buf) of 03
  ChunkLen,     \* what 02 reads at once
  HoleAt        \* where 06 and 08 continue after a hole, 32 and 79

ASSUME FileAssumption ==
  /\ Jobs # {} /\ Jobs \subseteq [FileRuns -> {"01", "02", "03", "06", "08", "10"}]
  /\ {HelloLen, ChunkLen, HoleAt} \subseteq Nat \ {0}

VARIABLES
  job, fpc,      \* per run: its program, its control
  content,       \* per file
  seen,          \* what a run of 02 has printed
  torn, behind   \* history: runs of 02 that a 03 wrote under; texts appended behind a whole hello

fileVars == <<job, fpc, content, seen, torn, behind>>

FileInit ==
  /\ job \in Jobs
  /\ fpc = [r \in FileRuns |-> "open"]
  /\ content \in [{"test.txt", "hole.txt", "mmap.txt"} -> {<<>>, <<"old">>}]
  /\ \A f \in DOMAIN content : f \notin names \/ f # "test.txt" => content[f] = <<>>
  /\ seen = [r \in FileRuns |-> <<>>]
  /\ torn = {} /\ behind = 0

Runs(r, program) == ~Pipes /\ job[r] = program
Goto(r, at) == fpc' = [fpc EXCEPT ![r] = at]

\* Writing text at position pos of a file: what is between it and the end is zero.
WriteAt(s, pos, text) ==
  LET n == pos + Len(text) IN
  [i \in 1 .. (IF n > Len(s) THEN n ELSE Len(s)) |->
     IF i \in pos + 1 .. n THEN text[i - pos] ELSE IF i <= Len(s) THEN s[i] ELSE "zero"]

Put(f, pos, text) == content' = [content EXCEPT ![f] = WriteAt(@, pos, text)]

-----------------------------------------------------------------------------
(* open. *)

\* With the flags that the three programs pass, only a name that is not there.
AnyName(f) == TRUE
Openable(f) == f \notin names

\* 08 also passes O_TRUNC.
Create(r, program, f, at) ==
  /\ Runs(r, program) /\ fpc[r] = "open" /\ Openable(f)
  /\ names' = names \cup {f}
  /\ content' = IF program = "08" THEN [content EXCEPT ![f] = <<>>] ELSE content
  /\ Goto(r, at)
  /\ UNCHANGED <<prog, job, seen, torn, behind>>

\* 02, 03 and 10 open what is there.
OpenText(r, program, at) ==
  /\ Runs(r, program) /\ fpc[r] = "open" /\ "test.txt" \in names
  /\ Goto(r, at)
  /\ UNCHANGED <<cwd, job, content, seen, torn, behind>>

\* The name is there, or is not, or may not be opened.
OpenFails(r) ==
  /\ ~Pipes /\ fpc[r] = "open"
  /\ Goto(r, "failed")
  /\ UNCHANGED <<cwd, job, content, seen, torn, behind>>

-----------------------------------------------------------------------------
(* test.txt. *)

\* 02 reads on until a read returns nothing.
ReadChunk(r) ==
  /\ Runs(r, "02") /\ fpc[r] = "read"
  /\ LET text == content["test.txt"]
         from == Len(seen[r])
         chunk == SubSeq(text, from + 1, Least(from + ChunkLen, Len(text)))
     IN  /\ seen' = [seen EXCEPT ![r] = @ \o chunk]
         /\ Goto(r, IF chunk = <<>> THEN "done" ELSE "read")
  /\ UNCHANGED <<cwd, job, content, torn, behind>>

\* 03 writes at its offset, 0.
WriteHello(r) ==
  /\ Runs(r, "03") /\ fpc[r] = "write"
  /\ Put("test.txt", 0, [k \in 1 .. HelloLen |-> "hello"])
  /\ torn' = torn \cup {o \in FileRuns : fpc[o] = "read"}
  /\ Goto(r, "done")
  /\ UNCHANGED <<cwd, job, seen, behind>>

SetAppend(r) ==
  /\ Runs(r, "10") /\ fpc[r] = "setfl"
  /\ \E at \in {"append", "failed"} : Goto(r, at)
  /\ UNCHANGED <<cwd, job, content, seen, torn, behind>>

\* With O_APPEND a write starts at the end, wherever that is by now.
AtOffset == 0
AtEnd == Len(content["test.txt"])

AppendText(r) ==
  /\ Runs(r, "10") /\ fpc[r] = "append"
  /\ Put("test.txt", AtEnd, <<"fcntl">>)
  /\ behind' = IF Len(content["test.txt"]) >= HelloLen THEN behind + 1 ELSE behind
  /\ Goto(r, "done")
  /\ UNCHANGED <<cwd, job, seen, torn>>

-----------------------------------------------------------------------------
(* The files with a hole. *)

\* 06: each of its writes may fail, and ends it.
WriteBuf(r, at, pos, text, next) ==
  /\ Runs(r, "06") /\ fpc[r] = at
  /\ \/ Put("hole.txt", pos, <<text>>) /\ Goto(r, next)
     \/ UNCHANGED content /\ Goto(r, "failed")
  /\ UNCHANGED <<cwd, job, seen, torn, behind>>

WriteBuf1(r) == WriteBuf(r, "buf1", 0, "buf1", "buf2")
WriteBuf2(r) == WriteBuf(r, "buf2", HoleAt, "buf2", "done")

\* 08 does not look whether it could write the last byte before it maps.
WriteLast(r) ==
  /\ Runs(r, "08") /\ fpc[r] = "last"
  /\ \/ Put("mmap.txt", HoleAt, <<"last">>) /\ Goto(r, "map")
     \/ UNCHANGED content /\ Goto(r, "mapShort")
  /\ UNCHANGED <<cwd, job, seen, torn, behind>>

\* Without the byte the file is empty, and writing through the mapping raises SIGBUS.
CopyToMap(r) ==
  /\ Runs(r, "08") /\ fpc[r] \in {"map", "mapShort"}
  /\ IF content["mmap.txt"] = <<>>
     THEN UNCHANGED content /\ Goto(r, "dead")
     ELSE Put("mmap.txt", 1, <<"fox">>) /\ Goto(r, "done")
  /\ UNCHANGED <<cwd, job, seen, torn, behind>>

-----------------------------------------------------------------------------

KillRun(r) ==
  /\ ~Pipes /\ fpc[r] \notin {"done", "failed", "dead"}
  /\ Goto(r, "dead")
  /\ UNCHANGED <<cwd, job, content, seen, torn, behind>>

Run(r) ==
  \/ Create(r, "01", "test.txt", "done") \/ Create(r, "06", "hole.txt", "buf1")
  \/ Create(r, "08", "mmap.txt", "last")
  \/ OpenText(r, "02", "read") \/ OpenText(r, "03", "write") \/ OpenText(r, "10", "setfl")
  \/ OpenFails(r) \/ ReadChunk(r) \/ WriteHello(r) \/ SetAppend(r) \/ AppendText(r)
  \/ WriteBuf1(r) \/ WriteBuf2(r) \/ WriteLast(r) \/ CopyToMap(r)

FileNext == \E r \in FileRuns : Run(r) \/ KillRun(r)

-----------------------------------------------------------------------------
(* Properties. *)

\* A text that 10 has appended behind a whole hello is never written over.  02 has
\* so far printed the beginning of the file as it is, however it has grown
\* meanwhile, unless a 03 wrote under it.
TextKept ==
  LET text == content["test.txt"] IN
  /\ Cardinality({k \in DOMAIN text : k > HelloLen /\ text[k] = "fcntl"}) >= behind
  /\ \A r \in FileRuns \ torn : fpc[r] = "read" => seen[r] = SubSeq(text, 1, Len(seen[r]))

\* No other run empties the file that a run of 08 has mapped and is about to
\* write through; when 06 has ended, its two texts are where it wrote them.  It is
\* O_EXCL, which none of them asks for by name, that keeps a second run out.
MappedKept ==
  \A r \in FileRuns :
    /\ fpc[r] = "map" => content["mmap.txt"] # <<>>
    /\ Runs(r, "06") /\ fpc[r] = "done" =>
         content["hole.txt"] = WriteAt(<<"buf1">>, HoleAt, <<"buf2">>)
=============================================================================
