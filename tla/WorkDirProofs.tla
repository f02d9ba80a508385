--------------------------- MODULE WorkDirProofs ----------------------------
(***************************************************************************)
(* Proofs about 16, 17 and 18: pipes of any capacity, texts of any length, *)
(* writes and reads cut in any way, whatever the files of the directory;   *)
(* then about 01, 02, 03, 06, 08 and 10: any number of runs at once, texts *)
(* of any length and holes of any size, whatever the pipe does.            *)
(***************************************************************************)
EXTENDS WorkDir, FiniteSetTheorems, SequenceTheorems, TLAPS

TypeOK ==
  /\ prog \in {"16", "17", "18", "files"}
  /\ wpc \in {"unborn", "start", "open", "loop", "write", "sleep", "done", "failed", "dead"}
  /\ rpc \in {"begin", "failed", "start", "open", "wait", "read", "done", "dead"}
  /\ write_size \in Nat /\ copied \in Nat /\ received \in Nat /\ held \in Nat
  /\ rpc = "begin" => wpc = "unborn"
  /\ wpc = "failed" => prog = "18"

\* What was written is in the pipe or was read; a child that has ended has written
\* everything.
WrittenInv ==
  /\ received + held = Size - write_size + copied
  /\ copied <= write_size /\ held <= Capacity
  /\ wpc = "done" => write_size = 0 /\ copied = 0

\* The text of 16 and 18 goes into the pipe as a whole and stays there until the
\* one read.
WholeInv ==
  prog # "17" =>
    /\ write_size \in {0, Size} /\ copied \in {0, write_size}
    /\ rpc \notin {"done", "dead"} => received = 0

\* Nobody reads from the FIFO before both have opened it.
FifoInv ==
  prog = "18" /\ wpc \in {"unborn", "start", "open", "failed"} => rpc \notin {"wait", "read", "done"}

EndInv == rpc = "done" => held = 0 /\ (received = Size \/ wpc = "dead")

IInv == TypeOK /\ WrittenInv /\ WholeInv /\ FifoInv /\ EndInv

LEMMA SizeType == Size \in Nat \ {0} /\ (prog # "17" => Size = TextLen)
  BY PipeAssumption DEF Size

LEMMA AskedBound == TypeOK => Asked \in Nat /\ Asked <= write_size
  BY PipeAssumption DEF TypeOK, Asked, Least

LEMMA InitIInv == Init => IInv
  BY SizeType, PipeAssumption
  DEF Init, CwdInit, PipeInit, IInv, TypeOK, WrittenInv, WholeInv, FifoInv, EndInv

\* Steps that move control only.
LEMMA ControlIInv ==
  ASSUME IInv, prog' = prog, UNCHANGED <<write_size, copied, received, held>>,
         wpc' \in {"unborn", "start", "open", "loop", "write", "sleep", "failed", "dead", wpc},
         rpc' \in {"begin", "failed", "start", "open", "wait", "read", "dead", rpc},
         rpc \notin {"done", "dead"} \/ rpc' = rpc,
         wpc # "dead" \/ wpc' = wpc,
         rpc' = "begin" => wpc' = "unborn",
         wpc' = "failed" => prog = "18",
         prog = "18" /\ wpc' \in {"unborn", "start", "open", "failed"}
           => rpc' \notin {"wait", "read", "done"}
  PROVE  IInv'
<1>1. Size' = Size
  BY DEF Size
<1> QED
  BY <1>1 DEF IInv, TypeOK, WrittenInv, WholeInv, FifoInv, EndInv

LEMMA PipeIInv == IInv /\ PipeNext => IInv'
<1> SUFFICES ASSUME IInv, PipeNext PROVE IInv'
  OBVIOUS
<1> USE DEF IInv
<1>1. ASSUME WriterLoop PROVE IInv'
  <2>1. WhileLeft
    BY DEF TypeOK, WhileLeft
  <2> QED
    BY <1>1, <2>1, ControlIInv DEF WriterLoop, cwd, reader, TypeOK
<1>2. ASSUME Copy PROVE IInv'
  <2>1. PICK n \in 1 .. Capacity - held :
          /\ n <= Asked - copied /\ (prog = "17" \/ n = Asked)
          /\ copied' = copied + n /\ held' = held + n
    BY <1>2 DEF Copy
  <2>2. /\ wpc = "write" /\ UNCHANGED <<prog, wpc, rpc, write_size, received>> /\ Size' = Size
        /\ rpc \notin {"done", "dead"}
    BY <1>2 DEF Copy, cwd, reader, Size, HasReader, ReadEndKept, Gone
  <2>3. /\ n \in Nat /\ held + n <= Capacity /\ copied + n <= write_size
        /\ n <= write_size - copied
    BY <2>1, AskedBound, PipeAssumption DEF TypeOK
  <2>4. TypeOK'
    BY <2>1, <2>2, <2>3 DEF TypeOK
  <2>5. WrittenInv'
    BY <2>1, <2>2, <2>3, SizeType DEF TypeOK, WrittenInv
  <2>6. prog # "17" => copied' \in {0, write_size}
    BY <2>1, <2>3, AskedBound DEF TypeOK, Asked, WholeInv
  <2>7. WholeInv' /\ FifoInv' /\ EndInv'
    BY <2>2, <2>6 DEF WholeInv, FifoInv, EndInv
  <2> QED
    BY <2>4, <2>5, <2>7
<1>3. ASSUME WriteReturns PROVE IInv'
  <2>1. /\ wpc = "write" /\ copied = Asked /\ copied' = 0
        /\ UNCHANGED <<prog, rpc, received, held>> /\ Size' = Size
    BY <1>3 DEF WriteReturns, cwd, reader, Size
  <2>2. CASE copied > 0 /\ write_size' = write_size - copied
                        /\ wpc' = IF prog = "17" THEN "loop" ELSE "done"
    <3>1. write_size' \in Nat /\ (prog # "17" => write_size' = 0)
      BY <2>1, <2>2 DEF TypeOK, WrittenInv, Asked
    <3>2. TypeOK' /\ WrittenInv'
      BY <2>1, <2>2, <3>1, SizeType DEF TypeOK, WrittenInv
    <3>3. WholeInv' /\ FifoInv' /\ EndInv'
      BY <2>1, <2>2, <3>1 DEF TypeOK, WholeInv, FifoInv, EndInv
    <3> QED
      BY <3>2, <3>3
  <2>3. CASE copied = 0 /\ wpc' = "sleep" /\ UNCHANGED write_size
    BY <2>1, <2>3 DEF TypeOK, WrittenInv, WholeInv, FifoInv, EndInv
  <2> QED
    BY <1>3, <2>2, <2>3 DEF WriteReturns, LeftAfterWrite
<1>4. ASSUME Read PROVE IInv'
  <2> DEFINE n == Least(ReadLen, held)
  <2>1. /\ rpc = "read" /\ held > 0 /\ received' = received + n /\ held' = held - n
        /\ rpc' = IF prog = "17" THEN "read" ELSE "done"
        /\ UNCHANGED <<prog, wpc, write_size, copied>> /\ Size' = Size
    BY <1>4 DEF Read, cwd, writer, Size
  <2>2. n \in Nat /\ n <= held
    BY PipeAssumption DEF TypeOK, Least
  <2>3. prog # "17" => received = 0 /\ held = Size /\ n = held
    BY <2>1, SizeType, PipeAssumption DEF TypeOK, WrittenInv, WholeInv, Least
  <2> HIDE DEF n
  <2>4. TypeOK' /\ WrittenInv'
    BY <2>1, <2>2, SizeType, PipeAssumption DEF TypeOK, WrittenInv
  <2>5. WholeInv' /\ FifoInv' /\ EndInv'
    BY <2>1, <2>2, <2>3, SizeType DEF TypeOK, WholeInv, FifoInv, EndInv
  <2> QED
    BY <2>4, <2>5
<1>5. ASSUME ReadEof PROVE IInv'
  <2>1. /\ rpc = "read" /\ held = 0 /\ rpc' = "done" /\ wpc \in {"done", "failed", "dead"}
        /\ UNCHANGED <<prog, wpc, write_size, copied, received, held>> /\ Size' = Size
    BY <1>5 DEF ReadEof, cwd, writer, Size, HasWriter, Gone
  <2>2. wpc # "failed"
    BY <2>1 DEF TypeOK, FifoInv
  <2>3. wpc = "done" => received = Size
    BY <2>1, SizeType DEF TypeOK, WrittenInv
  <2> QED
    BY <2>1, <2>2, <2>3 DEF TypeOK, WrittenInv, WholeInv, FifoInv, EndInv
<1>6. ASSUME \/ Begin \/ BeginFails \/ WriterOpens \/ WriterOpenFails
             \/ ReaderOpens \/ ReaderOpenFails \/ ReaderWaits
      PROVE  IInv'
  <2>1. CASE Begin
    BY <2>1, ControlIInv DEF Begin, TypeOK
  <2>2. CASE BeginFails
    BY <2>2, ControlIInv DEF BeginFails, writer, TypeOK
  <2>3. CASE WriterOpens
    BY <2>3, ControlIInv DEF WriterOpens, cwd, TypeOK, FifoInv
  <2>4. CASE WriterOpenFails
    BY <2>4, ControlIInv DEF WriterOpenFails, cwd, reader, TypeOK, FifoInv
  <2>5. CASE ReaderOpens
    BY <2>5, ControlIInv DEF ReaderOpens, cwd, TypeOK
  <2>6. CASE ReaderOpenFails
    BY <2>6, ControlIInv DEF ReaderOpenFails, cwd, writer, TypeOK
  <2>7. CASE ReaderWaits
    BY <2>7, ControlIInv DEF ReaderWaits, cwd, writer, TypeOK, FifoInv
  <2> QED
    BY <1>6, <2>1, <2>2, <2>3, <2>4, <2>5, <2>6, <2>7
<1>7. ASSUME WriterStart \/ WriterWakes \/ BrokenPipe \/ ReaderStart PROVE IInv'
  BY <1>7, ControlIInv
  DEF WriterStart, WriterWakes, BrokenPipe, ReaderStart, cwd, writer, reader, TypeOK, FifoInv
<1>8. ASSUME KillWriter \/ KillReader PROVE IInv'
  BY <1>8, ControlIInv DEF KillWriter, KillReader, cwd, writer, reader, Gone, TypeOK, FifoInv
<1> QED
  BY <1>1, <1>2, <1>3, <1>4, <1>5, <1>6, <1>7, <1>8 DEF PipeNext, Writer, Reader

\* The programs on files leave the pipe alone.
LEMMA FilesKeepProg == FileNext => UNCHANGED prog
  BY DEF FileNext, Run, Create, OpenText, OpenFails, ReadChunk, WriteHello, SetAppend,
     AppendText, WriteBuf, WriteBuf1, WriteBuf2, WriteLast, CopyToMap, KillRun, cwd

LEMMA NextIInv == IInv /\ [Next]_vars => IInv'
<1>1. IInv /\ UNCHANGED <<prog, pipeVars>> => IInv'
  BY ControlIInv DEF pipeVars, writer, reader, IInv, TypeOK, FifoInv
<1> QED
  BY <1>1, PipeIInv, FilesKeepProg DEF Next, vars, cwd

\* Every byte counted as written is in the pipe or was read once, and a parent
\* that has read to its end has read all, unless the child was killed.
THEOREM PipeLosesNothing == Spec => []NothingLost
<1>1. IInv => NothingLost
  BY DEF IInv, WrittenInv, EndInv, NothingLost
<1> QED
  BY <1>1, InitIInv, NextIInv, PTL DEF Spec

-----------------------------------------------------------------------------
(* The files. *)

Files == {"test.txt", "hole.txt", "mmap.txt"}
Pieces == {"old", "zero", "hello", "fcntl", "buf1", "buf2", "last", "fox"}

FileTypeOK ==
  /\ job \in Jobs
  /\ fpc \in [FileRuns -> {"open", "read", "write", "setfl", "append", "buf1", "buf2", "last",
                           "map", "mapShort", "done", "failed", "dead"}]
  /\ content \in [Files -> Seq(Pieces)]
  /\ seen \in [FileRuns -> Seq(Pieces)]
  /\ behind \in Nat

\* hole.txt is empty until a run of 06 has created it.  No other can then create
\* it: what it holds is what that run has written, and what mmap.txt holds, the
\* runs of 08 do not truncate.
Has06(r) == job[r] = "06" /\ fpc[r] \in {"buf1", "buf2", "done"}
HoleInv ==
  /\ "hole.txt" \notin names => content["hole.txt"] = <<>>
  /\ \A r \in FileRuns :
       /\ Has06(r) => "hole.txt" \in names
       /\ fpc[r] \in {"buf1", "buf2"} => job[r] = "06"
       /\ Has06(r) =>
            content["hole.txt"] =
              CASE fpc[r] = "buf1" -> <<>> [] fpc[r] = "buf2" -> <<"buf1">>
                [] OTHER -> WriteAt(<<"buf1">>, HoleAt, <<"buf2">>)
  /\ \A r, o \in FileRuns : Has06(r) /\ Has06(o) => r = o

MapInv ==
  \A r \in FileRuns :
    /\ fpc[r] \in {"last", "map"} => "mmap.txt" \in names
    /\ fpc[r] = "map" => content["mmap.txt"] # <<>>

\* The texts of 10 that no 03 can reach.
Safe(text) == {k \in DOMAIN text : k > HelloLen /\ text[k] = "fcntl"}
IsPrefixOf(s, text) == Len(s) <= Len(text) /\ \A k \in 1 .. Len(s) : s[k] = text[k]

TextInv ==
  /\ behind <= Cardinality(Safe(content["test.txt"]))
  /\ \A r \in FileRuns :
       /\ fpc[r] = "open" => seen[r] = <<>>
       /\ fpc[r] = "read" /\ r \notin torn => IsPrefixOf(seen[r], content["test.txt"])

FileInv == FileTypeOK /\ HoleInv /\ MapInv /\ TextInv

\* A write leaves what is before and behind it.
LEMMA WriteAtLaw ==
  ASSUME NEW s \in Seq(Pieces), NEW pos \in Nat, NEW text \in Seq(Pieces)
  PROVE  /\ WriteAt(s, pos, text) \in Seq(Pieces)
         /\ Len(WriteAt(s, pos, text)) =
              IF pos + Len(text) > Len(s) THEN pos + Len(text) ELSE Len(s)
         /\ \A i \in 1 .. Len(WriteAt(s, pos, text)) :
              WriteAt(s, pos, text)[i] =
                IF i \in pos + 1 .. pos + Len(text) THEN text[i - pos]
                ELSE IF i <= Len(s) THEN s[i] ELSE "zero"
<1> DEFINE n == pos + Len(text)
           m == IF n > Len(s) THEN n ELSE Len(s)
           w == [i \in 1 .. m |-> IF i \in pos + 1 .. n THEN text[i - pos]
                                  ELSE IF i <= Len(s) THEN s[i] ELSE "zero"]
<1>1. WriteAt(s, pos, text) = w
  BY DEF WriteAt
<1>2. Len(s) \in Nat /\ Len(text) \in Nat /\ n \in Nat /\ m \in Nat
  BY LenProperties
<1>3. ASSUME NEW i \in 1 .. m
      PROVE  (IF i \in pos + 1 .. n THEN text[i - pos] ELSE IF i <= Len(s) THEN s[i] ELSE "zero") \in Pieces
  <2>1. CASE i \in pos + 1 .. n
    <3>1. i - pos \in 1 .. Len(text)
      BY <1>2, <2>1
    <3> QED
      BY <2>1, <3>1, ElementOfSeq
  <2>2. CASE i \notin pos + 1 .. n /\ i <= Len(s)
    <3>1. i \in 1 .. Len(s)
      BY <1>2, <2>2
    <3> QED
      BY <2>2, <3>1, ElementOfSeq
  <2> QED
    BY <2>1, <2>2 DEF Pieces
<1>4. w \in [1 .. m -> Pieces]
  BY <1>3
<1>5. w \in Seq(Pieces) /\ Len(w) = m
  <2> HIDE DEF w, m
  <2> QED
    BY <1>2, <1>4
<1>6. \A i \in 1 .. m : w[i] = IF i \in pos + 1 .. n THEN text[i - pos]
                               ELSE IF i <= Len(s) THEN s[i] ELSE "zero"
  OBVIOUS
<1> HIDE DEF w
<1> QED
  BY <1>1, <1>5, <1>6

LEMMA PutType ==
  ASSUME FileTypeOK, NEW f \in Files, NEW pos \in Nat, NEW text \in Seq(Pieces), Put(f, pos, text)
  PROVE  /\ content' \in [Files -> Seq(Pieces)]
         /\ content'[f] = WriteAt(content[f], pos, text)
         /\ \A g \in Files \ {f} : content'[g] = content[g]
<1>1. content[f] \in Seq(Pieces)
  BY DEF FileTypeOK
<1>2. WriteAt(content[f], pos, text) \in Seq(Pieces)
  BY <1>1, WriteAtLaw
<1> QED
  BY <1>2 DEF FileTypeOK, Put

LEMMA WriteAtLength ==
  ASSUME NEW s \in Seq(Pieces), NEW pos \in Nat, NEW text \in Seq(Pieces), Len(text) = 1
  PROVE  Len(WriteAt(s, pos, text)) = IF pos + 1 > Len(s) THEN pos + 1 ELSE Len(s)
<1>1. Len(WriteAt(s, pos, text)) = IF pos + Len(text) > Len(s) THEN pos + Len(text) ELSE Len(s)
  BY WriteAtLaw
<1> QED
  BY <1>1

LEMMA OneType == \A p \in Pieces : <<p>> \in Seq(Pieces) /\ Len(<<p>>) = 1
  OBVIOUS

LEMMA HelloType ==
  LET hello == [k \in 1 .. HelloLen |-> "hello"] IN
  hello \in Seq(Pieces) /\ Len(hello) = HelloLen
<1>1. HelloLen \in Nat /\ [k \in 1 .. HelloLen |-> "hello"] \in [1 .. HelloLen -> Pieces]
  BY FileAssumption DEF Pieces
<1> QED
  BY <1>1

\* Where each action on files goes, and which file it changes.
LEMMA FileTypeStep ==
  ASSUME FileTypeOK, FileNext
  PROVE  FileTypeOK'
<1>1. PICK r \in FileRuns : Run(r) \/ KillRun(r)
  BY DEF FileNext
<1>2. CASE \/ OpenText(r, "02", "read") \/ OpenText(r, "03", "write") \/ OpenText(r, "10", "setfl")
           \/ OpenFails(r) \/ SetAppend(r) \/ KillRun(r)
  BY <1>2 DEF OpenText, OpenFails, SetAppend, KillRun, Goto, FileTypeOK
<1>3. CASE \/ Create(r, "01", "test.txt", "done") \/ Create(r, "06", "hole.txt", "buf1")
           \/ Create(r, "08", "mmap.txt", "last")
  <2>1. \E f \in Files : content' \in {content, [content EXCEPT ![f] = <<>>]}
    BY <1>3 DEF Create, Files
  <2>2. content' \in [Files -> Seq(Pieces)]
    BY <2>1, EmptySeq DEF FileTypeOK
  <2> QED
    BY <1>3, <2>2 DEF Create, Goto, FileTypeOK
<1>4. CASE ReadChunk(r)
  <2> DEFINE text == content["test.txt"]
             chunk == SubSeq(text, Len(seen[r]) + 1, Least(Len(seen[r]) + ChunkLen, Len(text)))
  <2>1. text \in Seq(Pieces) /\ seen[r] \in Seq(Pieces)
    BY DEF FileTypeOK, Files
  <2>2. chunk \in Seq(Pieces)
    <3>1. Len(text) \in Nat /\ Len(seen[r]) \in Nat /\ ChunkLen \in Nat
      BY <2>1, LenProperties, FileAssumption
    <3>2. /\ Len(seen[r]) + 1 \in Int /\ Least(Len(seen[r]) + ChunkLen, Len(text)) \in Int
          /\ \A i \in Len(seen[r]) + 1 .. Least(Len(seen[r]) + ChunkLen, Len(text)) : i \in 1 .. Len(text)
      BY <3>1 DEF Least
    <3>3. \A i \in Len(seen[r]) + 1 .. Least(Len(seen[r]) + ChunkLen, Len(text)) : text[i] \in Pieces
      BY <2>1, <3>2, ElementOfSeq
    <3> HIDE DEF text
    <3> QED
      BY <3>2, <3>3, SubSeqProperties
  <2>3. seen' = [seen EXCEPT ![r] = @ \o chunk]
    BY <1>4 DEF ReadChunk
  <2> HIDE DEF chunk
  <2>4. seen[r] \o chunk \in Seq(Pieces)
    BY <2>1, <2>2, ConcatProperties
  <2>5. seen' \in [FileRuns -> Seq(Pieces)]
    BY <2>3, <2>4 DEF FileTypeOK
  <2> QED
    BY <1>4, <2>5 DEF ReadChunk, Goto, FileTypeOK
<1>5. CASE WriteHello(r)
  <2>1. content' \in [Files -> Seq(Pieces)]
    BY <1>5, HelloType, PutType DEF WriteHello, Files
  <2> QED
    BY <1>5, <2>1 DEF WriteHello, Goto, FileTypeOK
<1>6. CASE AppendText(r)
  <2>1. AtEnd \in Nat
    BY LenProperties DEF FileTypeOK, AtEnd, Files
  <2>2. content' \in [Files -> Seq(Pieces)]
    BY <1>6, <2>1, OneType, PutType DEF AppendText, Files, Pieces
  <2> QED
    BY <1>6, <2>2 DEF AppendText, Goto, FileTypeOK
<1>7. ASSUME NEW f \in Files, NEW pos \in Nat, NEW p \in Pieces,
             Put(f, pos, <<p>>) \/ UNCHANGED content
      PROVE  content' \in [Files -> Seq(Pieces)]
  BY <1>7, OneType, PutType DEF FileTypeOK
<1>8. CASE WriteBuf1(r) \/ WriteBuf2(r)
  <2>1. content' \in [Files -> Seq(Pieces)]
    BY <1>7, <1>8, FileAssumption DEF WriteBuf1, WriteBuf2, WriteBuf, Files, Pieces
  <2> QED
    BY <1>8, <2>1 DEF WriteBuf1, WriteBuf2, WriteBuf, Goto, FileTypeOK
<1>9. CASE WriteLast(r) \/ CopyToMap(r)
  <2>1. content' \in [Files -> Seq(Pieces)]
    BY <1>7, <1>9, FileAssumption DEF WriteLast, CopyToMap, Files, Pieces
  <2> QED
    BY <1>9, <2>1 DEF WriteLast, CopyToMap, Goto, FileTypeOK
<1> QED
  BY <1>1, <1>2, <1>3, <1>4, <1>5, <1>6, <1>8, <1>9 DEF Run

-----------------------------------------------------------------------------
(* The files with a hole. *)

\* Steps that do not concern hole.txt.
LEMMA HoleSame ==
  ASSUME HoleInv, NEW r \in FileRuns, job' = job,
         "hole.txt" \in names' <=> "hole.txt" \in names,
         content'["hole.txt"] = content["hole.txt"],
         \A o \in FileRuns \ {r} : fpc'[o] = fpc[o],
         fpc'[r] \in {"buf1", "buf2"} => fpc'[r] = fpc[r],
         fpc'[r] = "done" => job[r] # "06"
  PROVE  HoleInv'
  BY DEF HoleInv, Has06

\* The file that Put changes.
LEMMA PutOther ==
  ASSUME FileTypeOK, NEW f \in Files, NEW pos, NEW text, Put(f, pos, text)
  PROVE  \A g \in Files \ {f} : content'[g] = content[g]
  BY DEF FileTypeOK, Put

\* A write to an empty file is what the file holds.
LEMMA WriteEmpty ==
  ASSUME NEW s \in Seq(Pieces), Len(s) = 0, NEW b \in Seq(Pieces), Len(b) = 1
  PROVE  WriteAt(s, 0, b) = b
<1>1. PICK z \in Nat : z = 0
  OBVIOUS
<1> DEFINE w == WriteAt(s, z, b)
<1>2. w \in Seq(Pieces)
  BY WriteAtLaw
<1>3. Len(w) = IF z + Len(b) > Len(s) THEN z + Len(b) ELSE Len(s)
  BY WriteAtLaw
<1>4. \A i \in 1 .. Len(w) : w[i] = IF i \in z + 1 .. z + Len(b) THEN b[i - z]
                                    ELSE IF i <= Len(s) THEN s[i] ELSE "zero"
  BY WriteAtLaw
<1> HIDE DEF w
<1>5. Len(w) = 1
  BY <1>1, <1>3
<1>6. \A i \in 1 .. Len(w) : w[i] = b[i]
  BY <1>1, <1>4, <1>5
<1>7. w = b
  BY <1>2, <1>5, <1>6, SeqEqual
<1> QED
  BY <1>1, <1>7 DEF w

LEMMA FirstBuf == WriteAt(<<>>, 0, <<"buf1">>) = <<"buf1">>
<1>1. <<>> \in Seq(Pieces) /\ Len(<<>>) = 0
  BY EmptySeq
<1>2. <<"buf1">> \in Seq(Pieces) /\ Len(<<"buf1">>) = 1
  BY OneType DEF Pieces
<1> QED
  BY <1>1, <1>2, WriteEmpty

LEMMA HoleStep ==
  ASSUME FileTypeOK, HoleInv, FileNext
  PROVE  HoleInv'
<1>1. PICK r \in FileRuns : Run(r) \/ KillRun(r)
  BY DEF FileNext
<1>2. CASE \/ OpenText(r, "02", "read") \/ OpenText(r, "03", "write") \/ OpenText(r, "10", "setfl")
           \/ OpenFails(r) \/ SetAppend(r) \/ KillRun(r)
  BY <1>2, HoleSame DEF OpenText, OpenFails, SetAppend, KillRun, Goto, FileTypeOK, cwd
<1>3. CASE Create(r, "01", "test.txt", "done") \/ Create(r, "08", "mmap.txt", "last")
  <2>1. content'["hole.txt"] = content["hole.txt"] /\ job' = job
    BY <1>3 DEF Create, FileTypeOK, Files
  <2>2. "hole.txt" \in names' <=> "hole.txt" \in names
    BY <1>3 DEF Create
  <2>3. /\ \A o \in FileRuns \ {r} : fpc'[o] = fpc[o]
        /\ fpc'[r] \notin {"buf1", "buf2"} /\ job[r] # "06"
    BY <1>3 DEF Create, Goto, Runs, FileTypeOK
  <2> QED
    BY <2>1, <2>2, <2>3, HoleSame
<1>4. CASE Create(r, "06", "hole.txt", "buf1")
  <2>1. /\ job[r] = "06" /\ "hole.txt" \notin names /\ "hole.txt" \in names'
        /\ content' = content /\ job' = job /\ fpc' = [fpc EXCEPT ![r] = "buf1"]
    BY <1>4 DEF Create, Runs, Openable, Goto
  <2> QED
    BY <2>1 DEF HoleInv, Has06, FileTypeOK
<1>5. CASE ReadChunk(r) \/ WriteHello(r) \/ AppendText(r) \/ WriteLast(r) \/ CopyToMap(r)
  <2>1. content'["hole.txt"] = content["hole.txt"]
    BY <1>5, PutOther DEF ReadChunk, WriteHello, AppendText, WriteLast, CopyToMap, Files
  <2>2. job' = job /\ names' = names
    BY <1>5 DEF ReadChunk, WriteHello, AppendText, WriteLast, CopyToMap, cwd
  <2>3. /\ \A o \in FileRuns \ {r} : fpc'[o] = fpc[o]
        /\ fpc'[r] \notin {"buf1", "buf2"} /\ job[r] # "06"
    BY <1>5 DEF ReadChunk, WriteHello, AppendText, WriteLast, CopyToMap, Goto, Runs, FileTypeOK
  <2> QED
    BY <2>1, <2>2, <2>3, HoleSame
<1>6. CASE WriteBuf1(r) \/ WriteBuf2(r)
  <2>1. /\ job' = job /\ names' = names /\ fpc[r] \in {"buf1", "buf2"} /\ job[r] = "06"
        /\ \A o \in FileRuns \ {r} : fpc'[o] = fpc[o]
    BY <1>6 DEF WriteBuf1, WriteBuf2, WriteBuf, Goto, FileTypeOK, cwd, Runs
  <2>2. Has06(r) /\ "hole.txt" \in names
    BY <2>1 DEF Has06, HoleInv
  <2>3. \A o \in FileRuns \ {r} : ~Has06(o)' /\ fpc'[o] \notin {"buf1", "buf2"}
    BY <2>1, <2>2 DEF Has06, HoleInv
  <2>4. CASE content' = content /\ fpc'[r] = "failed"
    BY <2>1, <2>2, <2>3, <2>4 DEF HoleInv, Has06
  <2>5. CASE fpc[r] = "buf1" /\ Put("hole.txt", 0, <<"buf1">>) /\ fpc'[r] = "buf2"
    <3>1. content["hole.txt"] = <<>>
      BY <2>2, <2>5 DEF HoleInv
    <3>2. content'["hole.txt"] = <<"buf1">>
      BY <2>5, <3>1, FirstBuf DEF Put, FileTypeOK, Files
    <3> QED
      BY <2>1, <2>2, <2>3, <2>5, <3>2 DEF HoleInv, Has06
  <2>6. CASE fpc[r] = "buf2" /\ Put("hole.txt", HoleAt, <<"buf2">>) /\ fpc'[r] = "done"
    <3>1. content["hole.txt"] = <<"buf1">>
      BY <2>2, <2>6 DEF HoleInv
    <3>2. content'["hole.txt"] = WriteAt(<<"buf1">>, HoleAt, <<"buf2">>)
      BY <2>6, <3>1 DEF Put, FileTypeOK, Files
    <3> QED
      BY <2>1, <2>2, <2>3, <2>6, <3>2 DEF HoleInv, Has06
  <2> QED
    BY <1>6, <2>4, <2>5, <2>6 DEF WriteBuf1, WriteBuf2, WriteBuf, Goto, FileTypeOK
<1> QED
  BY <1>1, <1>2, <1>3, <1>4, <1>5, <1>6 DEF Run

\* Nobody empties the mapped file.
LEMMA MapStep ==
  ASSUME FileTypeOK, MapInv, FileNext
  PROVE  MapInv'
<1>1. PICK r \in FileRuns : Run(r) \/ KillRun(r)
  BY DEF FileNext
<1>2. ASSUME "mmap.txt" \in names => "mmap.txt" \in names',
             content'["mmap.txt"] = content["mmap.txt"],
             \A o \in FileRuns \ {r} : fpc'[o] = fpc[o], fpc'[r] \notin {"last", "map"}
      PROVE  MapInv'
  BY <1>2 DEF MapInv
<1>3. CASE \/ OpenText(r, "02", "read") \/ OpenText(r, "03", "write") \/ OpenText(r, "10", "setfl")
           \/ OpenFails(r) \/ SetAppend(r) \/ KillRun(r)
  BY <1>2, <1>3 DEF OpenText, OpenFails, SetAppend, KillRun, Goto, FileTypeOK, cwd
<1>4. CASE Create(r, "01", "test.txt", "done") \/ Create(r, "06", "hole.txt", "buf1")
  BY <1>2, <1>4 DEF Create, Goto, FileTypeOK
<1>5. CASE Create(r, "08", "mmap.txt", "last")
  BY <1>5 DEF Create, Goto, Openable, MapInv, FileTypeOK
<1>6. CASE ReadChunk(r) \/ WriteHello(r) \/ AppendText(r) \/ WriteBuf1(r) \/ WriteBuf2(r)
  <2>1. content'["mmap.txt"] = content["mmap.txt"]
    BY <1>6, PutOther DEF ReadChunk, WriteHello, AppendText, WriteBuf1, WriteBuf2, WriteBuf, Files
  <2> QED
    BY <1>2, <1>6, <2>1
    DEF ReadChunk, WriteHello, AppendText, WriteBuf1, WriteBuf2, WriteBuf, Goto, FileTypeOK, cwd
<1>7. ASSUME NEW pos \in Nat, NEW p \in Pieces, Put("mmap.txt", pos, <<p>>)
      PROVE  content'["mmap.txt"] # <<>>
  <2>1. content["mmap.txt"] \in Seq(Pieces) /\ <<p>> \in Seq(Pieces) /\ Len(<<p>>) = 1
    BY OneType DEF FileTypeOK, Files
  <2>2. content'["mmap.txt"] = WriteAt(content["mmap.txt"], pos, <<p>>)
    BY <1>7 DEF Put, FileTypeOK, Files
  <2>3. Len(content["mmap.txt"]) \in Nat
    BY <2>1, LenProperties
  <2>4. Len(WriteAt(content["mmap.txt"], pos, <<p>>)) =
          IF pos + 1 > Len(content["mmap.txt"]) THEN pos + 1 ELSE Len(content["mmap.txt"])
    BY <2>1, <2>3, WriteAtLength
  <2>5. Len(WriteAt(content["mmap.txt"], pos, <<p>>)) > 0
    BY <2>3, <2>4
  <2> QED
    BY <2>2, <2>5, EmptySeq
<1>8. CASE WriteLast(r) \/ CopyToMap(r)
  <2>1. /\ \A o \in FileRuns \ {r} : fpc'[o] = fpc[o]
        /\ fpc'[r] # "last" /\ names' = names
        /\ fpc'[r] = "map" => fpc[r] = "last" /\ Put("mmap.txt", HoleAt, <<"last">>)
        /\ content' = content \/ content'["mmap.txt"] # <<>>
    BY <1>7, <1>8, FileAssumption DEF WriteLast, CopyToMap, Goto, FileTypeOK, cwd, Pieces
  <2>2. fpc'[r] = "map" => content'["mmap.txt"] # <<>>
    BY <1>7, <2>1, FileAssumption DEF Pieces
  <2> QED
    BY <2>1, <2>2 DEF MapInv
<1> QED
  BY <1>1, <1>3, <1>4, <1>5, <1>6, <1>8 DEF Run

-----------------------------------------------------------------------------
(* test.txt. *)

LEMMA SafeFinite ==
  ASSUME NEW text \in Seq(Pieces)
  PROVE  IsFiniteSet(Safe(text)) /\ Cardinality(Safe(text)) \in Nat
<1>1. Len(text) \in Nat /\ DOMAIN text = 1 .. Len(text)
  BY LenProperties
<1>2. IsFiniteSet(1 .. Len(text))
  BY <1>1, FS_Interval
<1>3. Safe(text) \in SUBSET (1 .. Len(text))
  BY <1>1 DEF Safe
<1> QED
  BY <1>2, <1>3, FS_Subset, FS_CardinalityType

\* 03 does not reach the safe texts.
LEMMA HelloKeeps ==
  ASSUME FileTypeOK, NEW r, WriteHello(r)
  PROVE  Safe(content'["test.txt"]) = Safe(content["test.txt"])
<1> DEFINE hello == [k \in 1 .. HelloLen |-> "hello"]
<1>1. /\ content["test.txt"] \in Seq(Pieces) /\ hello \in Seq(Pieces) /\ Len(hello) = HelloLen
      /\ HelloLen \in Nat
  BY HelloType, FileAssumption DEF FileTypeOK, Files
<1>2. PICK z \in Nat : z = 0
  OBVIOUS
<1>3. content'["test.txt"] = WriteAt(content["test.txt"], z, hello)
  BY <1>2 DEF WriteHello, Put, FileTypeOK, Files
<1>4. PICK s \in Seq(Pieces) : s = content["test.txt"]
  BY <1>1
<1>5. PICK w \in Seq(Pieces) : w = content'["test.txt"]
  BY <1>1, <1>3, WriteAtLaw
<1> HIDE DEF hello
<1>6. Len(w) = IF z + HelloLen > Len(s) THEN z + HelloLen ELSE Len(s)
  <2>1. Len(WriteAt(s, z, hello)) = IF z + Len(hello) > Len(s) THEN z + Len(hello) ELSE Len(s)
    BY <1>1, WriteAtLaw
  <2> QED
    BY <1>1, <1>3, <1>4, <1>5, <2>1
<1>7. \A i \in 1 .. Len(w) : w[i] = IF i \in z + 1 .. z + HelloLen THEN hello[i - z]
                                    ELSE IF i <= Len(s) THEN s[i] ELSE "zero"
  <2>1. \A i \in 1 .. Len(WriteAt(s, z, hello)) :
          WriteAt(s, z, hello)[i] = IF i \in z + 1 .. z + Len(hello) THEN hello[i - z]
                                    ELSE IF i <= Len(s) THEN s[i] ELSE "zero"
    BY <1>1, WriteAtLaw
  <2> QED
    BY <1>1, <1>3, <1>4, <1>5, <2>1
<1>8. DOMAIN s = 1 .. Len(s) /\ DOMAIN w = 1 .. Len(w) /\ Len(s) \in Nat
  BY LenProperties
<1>9. \A k : k \in Safe(w) <=> k \in Safe(s)
  <2> SUFFICES ASSUME NEW k PROVE k \in Safe(w) <=> k \in Safe(s)
    OBVIOUS
  <2>1. CASE k \in 1 .. Len(w) /\ k > HelloLen
    <3>1. w[k] = IF k <= Len(s) THEN s[k] ELSE "zero"
      BY <1>1, <1>2, <1>7, <2>1
    <3> QED
      BY <1>8, <2>1, <3>1 DEF Safe
  <2>2. CASE ~(k \in 1 .. Len(w) /\ k > HelloLen)
    BY <1>1, <1>2, <1>6, <1>8, <2>2 DEF Safe
  <2> QED
    BY <2>1, <2>2
<1> QED
  BY <1>4, <1>5, <1>9

\* 10 adds its text at the end.
LEMMA AppendAdds ==
  ASSUME FileTypeOK, NEW r, AppendText(r)
  PROVE  LET s == content["test.txt"]
             w == content'["test.txt"]
         IN  /\ Len(w) = Len(s) + 1 /\ \A k \in 1 .. Len(s) : w[k] = s[k]
             /\ Safe(w) = Safe(s) \cup (IF Len(s) >= HelloLen THEN {Len(s) + 1} ELSE {})
<1>1. /\ content["test.txt"] \in Seq(Pieces) /\ <<"fcntl">> \in Seq(Pieces)
      /\ Len(<<"fcntl">>) = 1 /\ HelloLen \in Nat
  BY OneType, FileAssumption DEF FileTypeOK, Files, Pieces
<1>2. PICK s \in Seq(Pieces) : s = content["test.txt"]
  BY <1>1
<1>3. Len(s) \in Nat /\ DOMAIN s = 1 .. Len(s)
  BY LenProperties
<1>4. PICK n \in Nat, t \in Seq(Pieces) : n = Len(s) /\ t = <<"fcntl">>
  BY <1>1, <1>3
<1>5. content'["test.txt"] = WriteAt(s, n, t)
  BY <1>2, <1>4 DEF AppendText, Put, AtEnd, FileTypeOK, Files
<1>6. PICK w \in Seq(Pieces) : w = WriteAt(s, n, t)
  BY WriteAtLaw
<1>7. /\ Len(w) = IF n + Len(t) > Len(s) THEN n + Len(t) ELSE Len(s)
      /\ \A i \in 1 .. Len(w) : w[i] = IF i \in n + 1 .. n + Len(t) THEN t[i - n]
                                       ELSE IF i <= Len(s) THEN s[i] ELSE "zero"
  BY <1>6, WriteAtLaw
<1>8. Len(w) = Len(s) + 1 /\ DOMAIN w = 1 .. Len(w)
  BY <1>1, <1>4, <1>7, LenProperties
<1>9. ASSUME NEW k \in 1 .. Len(s) PROVE w[k] = s[k]
  <2>1. k \in 1 .. Len(w) /\ k \notin n + 1 .. n + Len(t) /\ k <= Len(s)
    BY <1>1, <1>3, <1>4, <1>8
  <2> QED
    BY <1>7, <2>1
<1>10. w[Len(s) + 1] = "fcntl"
  <2>1. Len(s) + 1 \in 1 .. Len(w) /\ Len(s) + 1 \in n + 1 .. n + Len(t) /\ Len(s) + 1 - n = 1
    BY <1>1, <1>3, <1>4, <1>8
  <2>2. w[Len(s) + 1] = t[Len(s) + 1 - n]
    BY <1>7, <2>1
  <2> QED
    BY <1>4, <2>1, <2>2
<1>11. Safe(w) = Safe(s) \cup (IF Len(s) >= HelloLen THEN {Len(s) + 1} ELSE {})
  BY <1>1, <1>3, <1>8, <1>9, <1>10 DEF Safe
<1> QED
  BY <1>2, <1>5, <1>6, <1>8, <1>9, <1>11

\* A chunk read behind a prefix makes a longer prefix.
LEMMA ReadPrefix ==
  ASSUME NEW text \in Seq(Pieces), NEW s \in Seq(Pieces), IsPrefixOf(s, text)
  PROVE  IsPrefixOf(s \o SubSeq(text, Len(s) + 1, Least(Len(s) + ChunkLen, Len(text))), text)
<1>1. Len(text) \in Nat /\ Len(s) \in Nat /\ Len(s) <= Len(text) /\ ChunkLen \in Nat
  BY LenProperties, FileAssumption DEF IsPrefixOf
<1>2. PICK n \in Nat : n = Least(Len(s) + ChunkLen, Len(text))
  BY <1>1 DEF Least
<1>3. Len(s) <= n /\ n <= Len(text)
  BY <1>1, <1>2 DEF Least
<1>4. PICK m \in Int : m = Len(s) + 1
  BY <1>1
<1>5. \A i \in m .. n : text[i] \in Pieces
  <2>1. \A i \in m .. n : i \in 1 .. Len(text)
    BY <1>1, <1>3, <1>4
  <2> QED
    BY <2>1, ElementOfSeq
<1>6. PICK c \in Seq(Pieces) : c = SubSeq(text, m, n)
  <2>1. n \in Int
    OBVIOUS
  <2> QED
    BY <1>5, <2>1, SubSeqProperties
<1>7. Len(c) = IF m <= n THEN n - m + 1 ELSE 0
  BY <1>5, <1>6, SubSeqProperties
<1>8. \A i \in 1 .. n - m + 1 : c[i] = text[m + i - 1]
  BY <1>5, <1>6, SubSeqProperties
<1>9. Len(c) = n - Len(s)
  BY <1>1, <1>3, <1>4, <1>7
<1>10. /\ Len(s \o c) = Len(s) + Len(c)
       /\ \A i \in 1 .. Len(s) + Len(c) : (s \o c)[i] = IF i <= Len(s) THEN s[i] ELSE c[i - Len(s)]
  BY ConcatProperties
<1>11. ASSUME NEW k \in 1 .. n PROVE (s \o c)[k] = text[k]
  <2>1. k \in 1 .. Len(s) + Len(c)
    BY <1>1, <1>9
  <2>2. CASE k <= Len(s)
    <3>1. k \in 1 .. Len(s)
      BY <1>1, <2>2
    <3> QED
      BY <1>10, <2>1, <2>2, <3>1 DEF IsPrefixOf
  <2>3. CASE k > Len(s)
    <3>1. k - Len(s) \in 1 .. n - m + 1 /\ m + (k - Len(s)) - 1 = k
      BY <1>1, <1>4, <2>3
    <3>2. c[k - Len(s)] = text[k]
      BY <1>8, <3>1
    <3> QED
      BY <1>1, <1>10, <2>1, <2>3, <3>2
  <2>4. k <= Len(s) \/ k > Len(s)
    BY <1>1
  <2> QED
    BY <2>2, <2>3, <2>4
<1>12. Len(s \o c) = n
  BY <1>1, <1>9, <1>10
<1> QED
  BY <1>2, <1>3, <1>4, <1>6, <1>11, <1>12 DEF IsPrefixOf

LEMMA TextStep ==
  ASSUME FileTypeOK, TextInv, FileNext
  PROVE  TextInv'
<1>1. PICK r \in FileRuns : Run(r) \/ KillRun(r)
  BY DEF FileNext
<1>2. content["test.txt"] \in Seq(Pieces) /\ Len(content["test.txt"]) \in Nat
  BY LenProperties DEF FileTypeOK, Files
<1>3. ASSUME content'["test.txt"] = content["test.txt"], UNCHANGED <<seen, torn, behind>>,
             \A o \in FileRuns \ {r} : fpc'[o] = fpc[o], fpc'[r] \notin {"open", "read"}
      PROVE  TextInv'
  BY <1>3 DEF TextInv
<1>4. CASE \/ OpenText(r, "03", "write") \/ OpenText(r, "10", "setfl")
           \/ OpenFails(r) \/ SetAppend(r) \/ KillRun(r)
  BY <1>3, <1>4 DEF OpenText, OpenFails, SetAppend, KillRun, Goto, FileTypeOK
<1>5. CASE OpenText(r, "02", "read")
  <2>1. fpc[r] = "open" /\ fpc' = [fpc EXCEPT ![r] = "read"] /\ UNCHANGED <<content, seen, torn, behind>>
    BY <1>5 DEF OpenText, Goto
  <2>2. IsPrefixOf(seen[r], content["test.txt"])
    BY <1>2, <2>1, EmptySeq DEF TextInv, IsPrefixOf
  <2> QED
    BY <2>1, <2>2 DEF TextInv, FileTypeOK
<1>6. CASE \/ Create(r, "01", "test.txt", "done") \/ Create(r, "06", "hole.txt", "buf1")
           \/ Create(r, "08", "mmap.txt", "last")
  BY <1>3, <1>6 DEF Create, Goto, FileTypeOK, Files
<1>7. CASE WriteBuf1(r) \/ WriteBuf2(r) \/ WriteLast(r) \/ CopyToMap(r)
  <2>1. content'["test.txt"] = content["test.txt"]
    BY <1>7, PutOther DEF WriteBuf1, WriteBuf2, WriteBuf, WriteLast, CopyToMap, Files
  <2> QED
    BY <1>3, <1>7, <2>1 DEF WriteBuf1, WriteBuf2, WriteBuf, WriteLast, CopyToMap, Goto, FileTypeOK
<1>8. CASE ReadChunk(r)
  <2> DEFINE text == content["test.txt"]
             more == seen[r] \o SubSeq(text, Len(seen[r]) + 1, Least(Len(seen[r]) + ChunkLen, Len(text)))
  <2>1. /\ fpc[r] = "read" /\ seen' = [seen EXCEPT ![r] = more]
        /\ \A o \in FileRuns \ {r} : fpc'[o] = fpc[o]
        /\ fpc'[r] # "open" /\ UNCHANGED <<content, torn, behind>>
    BY <1>8 DEF ReadChunk, Goto, FileTypeOK
  <2>2. seen[r] \in Seq(Pieces)
    BY DEF FileTypeOK
  <2>3. r \notin torn => IsPrefixOf(more, text)
    BY <1>2, <2>1, <2>2, ReadPrefix DEF TextInv
  <2>4. seen'[r] = more /\ \A o \in FileRuns \ {r} : seen'[o] = seen[o]
    BY <2>1 DEF FileTypeOK
  <2> HIDE DEF more
  <2> QED
    BY <2>1, <2>3, <2>4 DEF TextInv
<1>9. CASE WriteHello(r)
  <2>1. /\ fpc'[r] = "done" /\ \A o \in FileRuns \ {r} : fpc'[o] = fpc[o]
        /\ torn' = torn \cup {o \in FileRuns : fpc[o] = "read"} /\ UNCHANGED <<seen, behind>>
    BY <1>9 DEF WriteHello, Goto, FileTypeOK
  <2>2. Safe(content'["test.txt"]) = Safe(content["test.txt"])
    BY <1>9, HelloKeeps
  <2> QED
    BY <2>1, <2>2 DEF TextInv
<1>10. CASE AppendText(r)
  <2>1. PICK s \in Seq(Pieces) : s = content["test.txt"]
    BY <1>2
  <2>2. PICK w : w = content'["test.txt"]
    OBVIOUS
  <2>3. /\ Len(w) = Len(s) + 1 /\ \A k \in 1 .. Len(s) : w[k] = s[k]
        /\ Safe(w) = Safe(s) \cup (IF Len(s) >= HelloLen THEN {Len(s) + 1} ELSE {})
    BY <1>10, <2>1, <2>2, AppendAdds
  <2>4. /\ fpc'[r] = "done" /\ \A o \in FileRuns \ {r} : fpc'[o] = fpc[o]
        /\ behind' = (IF Len(s) >= HelloLen THEN behind + 1 ELSE behind)
        /\ UNCHANGED <<seen, torn>>
    BY <1>10, <2>1 DEF AppendText, Goto, FileTypeOK
  <2>5. behind' <= Cardinality(Safe(w))
    <3>1. IsFiniteSet(Safe(s)) /\ Cardinality(Safe(s)) \in Nat /\ behind \in Nat
          /\ behind <= Cardinality(Safe(s))
      BY <2>1, SafeFinite DEF TextInv, FileTypeOK
    <3>2. Len(s) + 1 \notin Safe(s)
      BY LenProperties DEF Safe
    <3>3. CASE Len(s) >= HelloLen
      <4>1. Safe(w) = Safe(s) \cup {Len(s) + 1}
        BY <2>3, <3>3
      <4>2. Cardinality(Safe(w)) = Cardinality(Safe(s)) + 1
        BY <3>1, <3>2, <4>1, FS_AddElement
      <4> QED
        BY <2>4, <3>1, <3>3, <4>2
    <3>4. CASE ~(Len(s) >= HelloLen)
      BY <2>3, <2>4, <3>1, <3>4
    <3> QED
      BY <3>3, <3>4
  <2>6. ASSUME NEW o \in FileRuns, IsPrefixOf(seen[o], s) PROVE IsPrefixOf(seen[o], w)
    <3>1. Len(seen[o]) \in Nat /\ Len(s) \in Nat
      BY LenProperties DEF FileTypeOK
    <3> QED
      BY <2>3, <2>6, <3>1 DEF IsPrefixOf
  <2> QED
    BY <2>1, <2>2, <2>4, <2>5, <2>6 DEF TextInv
<1> QED
  BY <1>1, <1>4, <1>5, <1>6, <1>7, <1>8, <1>9, <1>10 DEF Run

-----------------------------------------------------------------------------
(* The invariant of the files and its consequences. *)

LEMMA InitFileInv == Init => FileInv
<1> SUFFICES ASSUME Init PROVE FileInv
  OBVIOUS
<1>1. /\ job \in Jobs /\ fpc = [r \in FileRuns |-> "open"] /\ seen = [r \in FileRuns |-> <<>>]
      /\ behind = 0
  BY DEF Init, FileInit
<1>2. content \in [Files -> {<<>>, <<"old">>}] /\ content["hole.txt"] = <<>>
  BY DEF Init, FileInit, Files
<1>3. <<>> \in Seq(Pieces) /\ <<"old">> \in Seq(Pieces)
  BY EmptySeq, OneType DEF Pieces
<1>4. FileTypeOK
  BY <1>1, <1>2, <1>3 DEF FileTypeOK
<1>5. TextInv
  <2>1. content["test.txt"] \in Seq(Pieces)
    BY <1>4 DEF FileTypeOK, Files
  <2>2. 0 <= Cardinality(Safe(content["test.txt"]))
    BY <2>1, SafeFinite
  <2> QED
    BY <1>1, <2>2 DEF TextInv
<1> QED
  BY <1>1, <1>2, <1>4, <1>5 DEF FileInv, HoleInv, MapInv, Has06

LEMMA FileStep == FileInv /\ [Next]_vars => FileInv'
<1>1. FileInv /\ FileNext => FileInv'
  BY FileTypeStep, HoleStep, MapStep, TextStep DEF FileInv
<1>2. ASSUME FileInv, UNCHANGED fileVars, names' \in {names, names \cup {"named_fifo"}}
      PROVE  FileInv'
  <2>1. /\ "hole.txt" \in names' <=> "hole.txt" \in names
        /\ "mmap.txt" \in names' <=> "mmap.txt" \in names
    BY <1>2
  <2> QED
    BY <1>2, <2>1 DEF FileInv, FileTypeOK, HoleInv, MapInv, TextInv, Has06, fileVars
<1>3. PipeNext => names' \in {names, names \cup {"named_fifo"}}
  BY DEF PipeNext, Writer, Reader, Begin, BeginFails, WithFifo, WriterOpens, WriterOpenFails, ReaderOpens,
     ReaderOpenFails, ReaderWaits, WriterStart, WriterLoop, WriterWakes, BrokenPipe, Copy, WriteReturns, ReaderStart, Read, ReadEof,
     KillWriter, KillReader, cwd
<1> QED
  BY <1>1, <1>2, <1>3 DEF Next, vars, cwd

LEMMA FileInvariant == Spec => []FileInv
  BY InitFileInv, FileStep, PTL DEF Spec

\* However the runs of 02, 03 and 10 meet on test.txt, a text appended behind a whole
\* hello stays, and 02 has printed the beginning of the file as it is, unless 03
\* wrote under it.
THEOREM AppendedTextKept == Spec => []TextKept
<1>1. FileInv => TextKept
  <2> SUFFICES ASSUME FileInv PROVE TextKept
    OBVIOUS
  <2>1. PICK text \in Seq(Pieces) : text = content["test.txt"]
    BY DEF FileInv, FileTypeOK, Files
  <2>2. Cardinality({k \in DOMAIN text : k > HelloLen /\ text[k] = "fcntl"}) >= behind
    <3>1. Cardinality(Safe(text)) \in Nat /\ behind \in Nat /\ behind <= Cardinality(Safe(text))
      BY <2>1, SafeFinite DEF FileInv, FileTypeOK, TextInv
    <3>2. {k \in DOMAIN text : k > HelloLen /\ text[k] = "fcntl"} = Safe(text)
      BY DEF Safe
    <3> QED
      BY <3>1, <3>2
  <2>3. ASSUME NEW r \in FileRuns \ torn, fpc[r] = "read"
        PROVE  seen[r] = SubSeq(text, 1, Len(seen[r]))
    <3>1. PICK s \in Seq(Pieces) : s = seen[r]
      BY DEF FileInv, FileTypeOK
    <3>2. IsPrefixOf(s, text)
      BY <2>1, <2>3, <3>1 DEF FileInv, TextInv
    <3>3. PICK n \in Int : n = Len(s) /\ n \in Nat /\ n <= Len(text) /\ Len(text) \in Nat
      BY <3>2, LenProperties DEF IsPrefixOf
    <3>4. PICK m \in Int : m = 1
      OBVIOUS
    <3>5. \A i \in m .. n : text[i] \in Pieces
      <4>1. \A i \in m .. n : i \in 1 .. Len(text)
        BY <3>3, <3>4
      <4> QED
        BY <4>1, ElementOfSeq
    <3>6. PICK u \in Seq(Pieces) : u = SubSeq(text, m, n)
      BY <3>5, SubSeqProperties
    <3>7. /\ Len(u) = IF m <= n THEN n - m + 1 ELSE 0
          /\ \A i \in 1 .. n - m + 1 : u[i] = text[m + i - 1]
      BY <3>5, <3>6, SubSeqProperties
    <3>8. Len(s) = Len(u)
      BY <3>3, <3>4, <3>7
    <3>9. ASSUME NEW i \in 1 .. Len(s) PROVE s[i] = u[i]
      <4>1. i \in 1 .. n - m + 1 /\ m + i - 1 = i
        BY <3>3, <3>4
      <4> QED
        BY <3>2, <3>7, <4>1 DEF IsPrefixOf
    <3>10. s = u
      BY <3>8, <3>9, SeqEqual
    <3> QED
      BY <3>1, <3>3, <3>4, <3>6, <3>10
  <2> QED
    BY <2>1, <2>2, <2>3 DEF TextKept
<1> QED
  BY <1>1, FileInvariant, PTL

\* Through O_EXCL no two runs of 06 write hole.txt and no run of 08 empties the file
\* that another has mapped, whatever was in the directory before.
THEOREM MappedFileKept == Spec => []MappedKept
<1>1. FileInv => MappedKept
  BY DEF FileInv, HoleInv, MapInv, Has06, MappedKept, Runs
<1> QED
  BY <1>1, FileInvariant, PTL
=============================================================================
