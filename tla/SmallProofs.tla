---------------------------- MODULE SmallProofs -----------------------------
(***************************************************************************)
(* Proofs about the two smallest systems, which share nothing.  First      *)
(* 38-nooblock_server.c and 39-noblock_client.c, for any set of clients    *)
(* and messages; then 24-mutil-thread.c and 25-mutil-thread-mutex.c, for   *)
(* any number of rounds.                                                   *)
(***************************************************************************)
EXTENDS NonBlock, Threads, SequenceTheorems, TLAPS

Empty == <<0, 0, 0>>

ControlOK ==
  /\ spc \in {"accept", "recv", "check"} /\ cut \in BOOLEAN
  /\ cpc \in [Clients -> {"new", "type", "wait", "closed", "gone"}]
  /\ pending \in Seq(Clients)
  /\ DOMAIN inq = Clients /\ DOMAIN sent = Clients /\ DOMAIN out = Clients
  /\ \A c \in Clients : sent[c] = <<>> \/ sent[c] \in Messages

\* The server accepts one client; whoever is not that one has not been read from
\* nor answered.
OneServedInv ==
  /\ spc = "accept" => s_c = NoConn /\ buffer = Empty
  /\ spc # "accept" => s_c \in Clients
  /\ \A c \in Clients : cpc[c] \in {"new", "type"} => sent[c] = <<>> /\ inq[c] = <<>>
  /\ \A c \in Clients \ {s_c} : inq[c] = sent[c] /\ out[c] = <<>>

\* Unless a message was cut, the buffer holds nothing yet, or all that the client
\* has sent.
BufferInv ==
  spc # "accept" /\ cut = FALSE =>
    \/ inq[s_c] = sent[s_c] /\ buffer = Empty
    \/ inq[s_c] = <<>> /\ buffer = sent[s_c] /\ sent[s_c] \in Messages

\* The descriptor is open until the answer, and what was answered was asked.
AnswerInv ==
  /\ spc = "check" => open = TRUE
  /\ spc # "accept" /\ open = TRUE => out[s_c] = <<>>
  /\ spc # "accept" /\ open # TRUE =>
       \/ out[s_c] = <<"OK">> /\ (cut = FALSE => sent[s_c] \in Messages /\ Command(sent[s_c]) = HELLO)
       \/ out[s_c] = <<"BYE">> /\ (cut = FALSE => sent[s_c] \in Messages /\ Command(sent[s_c]) = SHUTDOWN)

IInv == ControlOK /\ OneServedInv /\ BufferInv /\ AnswerInv

\* All of a message, received at once, is the buffer.
LEMMA WholeMessage ==
  ASSUME NEW m \in Messages
  PROVE  /\ Len(m) = 3 /\ m # <<>>
         /\ SubSeq(m, 1, 3) \o SubSeq(Empty, 4, 3) = m
         /\ SubSeq(m, 4, 3) = <<>>
<1>1. m \in [1 .. 3 -> 0 .. 4]
  BY NonBlockAssumption
<1>2. m \in Seq(0 .. 4) /\ Len(m) = 3
  <2>1. PICK k \in Nat : k = 3
    OBVIOUS
  <2>2. \A i \in 1 .. k : m[i] \in 0 .. 4
    BY <1>1, <2>1
  <2>3. [i \in 1 .. k |-> m[i]] \in Seq(0 .. 4)
    BY <2>1, <2>2, IsASeq
  <2>4. m = [i \in 1 .. k |-> m[i]]
    BY <1>1, <2>1
  <2>5. Len([i \in 1 .. k |-> m[i]]) = k
    BY <2>1
  <2> QED
    BY <2>1, <2>3, <2>4, <2>5
<1>3. SubSeq(m, 1, 3) = m
  BY <1>1, <1>2
<1>4. SubSeq(m, 4, 3) = <<>> /\ SubSeq(Empty, 4, 3) = <<>>
  BY <1>2 DEF Empty
<1>5. m \o <<>> = m
  BY <1>2
<1> QED
  <2>1. m # <<>>
    BY <1>2
  <2> QED
    BY <1>2, <1>3, <1>4, <1>5, <2>1

\* Nothing received yet is no command.
LEMMA EmptyNoCommand == Command(Empty) \notin {HELLO, SHUTDOWN}
<1>1. Len(SubSeq(Empty, 1, 2)) = 2 /\ SubSeq(Empty, 1, 2)[1] = 0
  BY DEF Empty
<1>2. HELLO[1] = 1 /\ SHUTDOWN[1] = 3
  BY DEF HELLO, SHUTDOWN
<1> QED
  BY <1>1, <1>2 DEF Command

LEMMA InitIInv == Init => IInv
<1> SUFFICES ASSUME Init PROVE IInv
  OBVIOUS
<1>1. ControlOK
  <2>1. pending \in Seq(Clients)
    BY DEF Init
  <2>2. cut \in BOOLEAN
    BY DEF Init
  <2>3. cpc \in [Clients -> {"new", "type", "wait", "closed", "gone"}]
    BY DEF Init
  <2>4. /\ DOMAIN inq = Clients /\ DOMAIN sent = Clients /\ DOMAIN out = Clients
        /\ \A c \in Clients : sent[c] = <<>>
    BY DEF Init
  <2> QED
    BY <2>1, <2>2, <2>3, <2>4 DEF Init, ControlOK
<1>2. OneServedInv
  BY DEF Init, OneServedInv, Empty
<1> QED
  BY <1>1, <1>2 DEF Init, IInv, BufferInv, AnswerInv

LEMMA AcceptIInv == IInv /\ Accept => IInv'
<1> SUFFICES ASSUME IInv, Accept PROVE IInv'
  OBVIOUS
<1>1. /\ spc = "accept" /\ pending # <<>> /\ s_c' = Head(pending) /\ open' = TRUE
      /\ pending' = Tail(pending) /\ spc' = "recv"
      /\ UNCHANGED <<buffer, cpc, sent, inq, out, cut>>
  BY DEF Accept
<1>2. pending \in Seq(Clients) /\ s_c = NoConn /\ buffer = Empty
  BY <1>1 DEF IInv, ControlOK, OneServedInv
<1>3. s_c' \in Clients /\ pending' \in Seq(Clients)
  BY <1>1, <1>2, HeadTailProperties
<1>4. \A c \in Clients : inq[c] = sent[c] /\ out[c] = <<>>
  BY <1>2, NonBlockAssumption DEF IInv, OneServedInv
<1>5. ControlOK'
  BY <1>1, <1>3 DEF IInv, ControlOK
<1>6. OneServedInv'
  BY <1>1, <1>3, <1>4 DEF IInv, OneServedInv
<1> QED
  BY <1>1, <1>2, <1>3, <1>4, <1>5, <1>6 DEF IInv, BufferInv, AnswerInv

LEMMA RecvIInv == IInv /\ Recv => IInv'
<1> SUFFICES ASSUME IInv, Recv PROVE IInv'
  OBVIOUS
<1>1. /\ spc = "recv" /\ open = TRUE /\ inq[s_c] # <<>> /\ spc' = "check"
      /\ UNCHANGED <<s_c, open, pending, cpc, sent, out>>
  BY DEF Recv
<1>2. PICK n \in 1 .. Len(inq[s_c]) :
        /\ buffer' = Overwritten(n)
        /\ inq' = [inq EXCEPT ![s_c] = SubSeq(@, n + 1, Len(@))]
        /\ cut' = (cut \/ n < Len(inq[s_c]))
  BY DEF Recv
<1>3. s_c \in Clients /\ s_c \in DOMAIN inq /\ cut \in BOOLEAN /\ out[s_c] = <<>>
  BY <1>1 DEF IInv, ControlOK, OneServedInv, AnswerInv
<1>4. cut' \in BOOLEAN
  BY <1>2, <1>3
<1>5. ControlOK'
  BY <1>1, <1>2, <1>4 DEF IInv, ControlOK
<1>6. sent[s_c] # <<>> \/ cpc[s_c] \notin {"new", "type"}
  BY <1>1, <1>3 DEF IInv, OneServedInv
<1>7. cpc[s_c] \notin {"new", "type"}
  BY <1>1, <1>3 DEF IInv, OneServedInv
<1>8. OneServedInv'
  <2>1. \A c \in Clients \ {s_c} : inq'[c] = inq[c]
    BY <1>2, <1>3 DEF IInv, ControlOK
  <2> QED
    BY <1>1, <1>3, <1>7, <2>1 DEF IInv, OneServedInv
<1>9. ASSUME cut' = FALSE
      PROVE  inq'[s_c] = <<>> /\ buffer' = sent[s_c] /\ sent[s_c] \in Messages
  <2>1. cut = FALSE /\ ~(n < Len(inq[s_c]))
    BY <1>2, <1>3, <1>9
  <2>2. inq[s_c] = sent[s_c] /\ buffer = Empty
    BY <1>1, <2>1 DEF IInv, BufferInv
  <2>3. sent[s_c] \in Messages
    BY <1>1, <1>3, <2>2 DEF IInv, ControlOK
  <2>4. PICK m \in Messages : m = sent[s_c]
    BY <2>3
  <2>5. Len(inq[s_c]) = 3
    BY <2>2, <2>4, WholeMessage
  <2>6. n = 3
    BY <2>1, <2>5
  <2>7. buffer' = SubSeq(m, 1, 3) \o SubSeq(Empty, 4, 3)
    BY <1>2, <2>2, <2>4, <2>6 DEF Overwritten
  <2>8. inq'[s_c] = SubSeq(m, 4, 3)
    BY <1>2, <1>3, <2>2, <2>4, <2>5, <2>6
  <2> QED
    BY <2>3, <2>4, <2>7, <2>8, WholeMessage
<1>10. BufferInv'
  BY <1>1, <1>9 DEF BufferInv
<1>11. AnswerInv'
  BY <1>1, <1>3 DEF AnswerInv
<1> QED
  BY <1>5, <1>8, <1>10, <1>11 DEF IInv

\* An answer: what the buffer holds, uncut, the client has sent.
LEMMA CheckIInv == IInv /\ (CheckHello \/ CheckShutdown) => IInv'
<1> SUFFICES ASSUME IInv, CheckHello \/ CheckShutdown PROVE IInv'
  OBVIOUS
<1>1. /\ spc = "check" /\ spc' = "recv" /\ open' = FALSE
      /\ UNCHANGED <<s_c, buffer, pending, cpc, sent, inq, cut>>
      /\ \/ Command(buffer) = HELLO /\ out' = [out EXCEPT ![s_c] = Append(@, "OK")]
         \/ Command(buffer) = SHUTDOWN /\ out' = [out EXCEPT ![s_c] = Append(@, "BYE")]
  BY DEF CheckHello, CheckShutdown, Answer, OpenAfterAnswer
<1>2. s_c \in Clients /\ s_c \in DOMAIN out /\ out[s_c] = <<>>
  BY <1>1 DEF IInv, ControlOK, OneServedInv, AnswerInv
<1>3. Append(<<>>, "OK") = <<"OK">> /\ Append(<<>>, "BYE") = <<"BYE">>
  OBVIOUS
<1>4. \/ Command(buffer) = HELLO /\ out'[s_c] = <<"OK">>
      \/ Command(buffer) = SHUTDOWN /\ out'[s_c] = <<"BYE">>
  BY <1>1, <1>2, <1>3
<1>5. DOMAIN out' = DOMAIN out /\ \A c \in Clients \ {s_c} : out'[c] = out[c]
  BY <1>1, <1>2 DEF IInv, ControlOK
<1>6. cut = FALSE => buffer = sent[s_c] /\ sent[s_c] \in Messages
  BY <1>1, EmptyNoCommand DEF IInv, BufferInv
<1>7. ControlOK'
  BY <1>1, <1>5 DEF IInv, ControlOK
<1>8. OneServedInv'
  BY <1>1, <1>5 DEF IInv, OneServedInv
<1>9. BufferInv'
  BY <1>1 DEF IInv, BufferInv
<1>10. AnswerInv'
  BY <1>1, <1>4, <1>6 DEF AnswerInv
<1> QED
  BY <1>7, <1>8, <1>9, <1>10 DEF IInv

LEMMA ServerIInv == IInv /\ (AcceptNothing \/ RecvEnd \/ RecvClosed \/ CheckOther \/ UNCHANGED vars) => IInv'
<1> SUFFICES ASSUME IInv, AcceptNothing \/ RecvEnd \/ RecvClosed \/ CheckOther \/ UNCHANGED vars PROVE IInv'
  OBVIOUS
<1>1. UNCHANGED <<s_c, open, buffer, pending, cpc, sent, inq, out, cut>>
  BY DEF AcceptNothing, RecvEnd, RecvClosed, CheckOther, vars, sVars
<1>2. \/ spc' = spc
      \/ spc = "recv" /\ spc' = "check" /\ open = TRUE
      \/ spc = "check" /\ spc' = "recv"
  BY DEF AcceptNothing, RecvEnd, RecvClosed, CheckOther, vars, sVars
<1> QED
  BY <1>1, <1>2 DEF IInv, ControlOK, OneServedInv, BufferInv, AnswerInv

LEMMA ClientIInv ==
  ASSUME IInv, NEW c \in Clients,
         Connect(c) \/ ConnectFails(c) \/ Receive(c) \/ Leave(c) \/ (\E m \in Messages : Send(c, m))
  PROVE  IInv'
<1>1. UNCHANGED <<s_c, open, buffer, spc, out, cut>>
  BY DEF Connect, ConnectFails, Receive, Leave, Send, sVars
<1>2. /\ cpc' = [cpc EXCEPT ![c] = cpc'[c]] /\ cpc'[c] \in {"type", "wait", "closed", "gone"}
      /\ cpc'[c] = "type" => cpc[c] = "new"
  BY DEF Connect, ConnectFails, Receive, Leave, Send, IInv, ControlOK
<1>3. pending' \in Seq(Clients)
  <2>1. pending \in Seq(Clients)
    BY DEF IInv, ControlOK
  <2>2. pending' = pending \/ pending' = Append(pending, c)
    BY DEF Connect, ConnectFails, Receive, Leave, Send
  <2> QED
    BY <2>1, <2>2, AppendProperties
<1>4. CASE UNCHANGED <<sent, inq>>
  <2>1. ControlOK'
    BY <1>1, <1>2, <1>3, <1>4 DEF IInv, ControlOK
  <2>2. \A d \in Clients : cpc'[d] \in {"new", "type"} => cpc[d] \in {"new", "type"}
    BY <1>2 DEF IInv, ControlOK
  <2>3. OneServedInv'
    BY <1>1, <1>4, <2>2 DEF IInv, OneServedInv
  <2> QED
    BY <1>1, <1>4, <2>1, <2>3 DEF IInv, BufferInv, AnswerInv
<1>5. CASE \E m \in Messages : Send(c, m)
  <2>1. PICK m \in Messages : /\ cpc[c] = "type" /\ cpc'[c] = "wait"
                              /\ sent' = [sent EXCEPT ![c] = m] /\ inq' = [inq EXCEPT ![c] = m]
    BY <1>5 DEF Send, IInv, ControlOK
  <2>2. sent[c] = <<>> /\ inq[c] = <<>>
    BY <2>1 DEF IInv, OneServedInv
  <2>3. /\ sent'[c] = m /\ inq'[c] = m
        /\ \A d \in Clients \ {c} : sent'[d] = sent[d] /\ inq'[d] = inq[d]
    BY <2>1 DEF IInv, ControlOK
  <2>4. ControlOK'
    BY <1>1, <1>2, <1>3, <2>1, <2>3 DEF IInv, ControlOK
  <2>5. \A d \in Clients : cpc'[d] \in {"new", "type"} => d # c /\ cpc[d] = cpc'[d]
    BY <1>2, <2>1 DEF IInv, ControlOK
  <2>6. OneServedInv'
    BY <1>1, <2>3, <2>5 DEF IInv, OneServedInv
  <2>7. \A n \in Messages : n # <<>>
    BY WholeMessage
  <2>8. BufferInv'
    BY <1>1, <2>2, <2>3, <2>7 DEF IInv, OneServedInv, BufferInv
  <2>9. AnswerInv'
    BY <1>1, <2>2, <2>3, <2>7 DEF IInv, OneServedInv, AnswerInv
  <2> QED
    BY <2>4, <2>6, <2>8, <2>9 DEF IInv
<1> QED
  BY <1>4, <1>5 DEF Connect, ConnectFails, Receive, Leave

\* A client gets one answer at most, and if its message arrived whole it is the
\* answer to it.
THEOREM AnsweredOnce == Spec => []AnswersOnce
<1>1. IInv /\ [Next]_vars => IInv'
  BY AcceptIInv, RecvIInv, CheckIInv, ServerIInv, ClientIInv DEF Next, Server
<1>2. IInv => AnswersOnce
  <2> SUFFICES ASSUME IInv, NEW c \in Clients
               PROVE  /\ Len(out[c]) <= 1
                      /\ ~cut /\ out[c] = <<"OK">> => Command(sent[c]) = HELLO
                      /\ ~cut /\ out[c] = <<"BYE">> => Command(sent[c]) = SHUTDOWN
    BY DEF AnswersOnce
  <2>1. out[c] = <<>> \/ (spc # "accept" /\ open # TRUE /\ c = s_c)
    <3>1. c # s_c => out[c] = <<>>
      BY DEF IInv, OneServedInv
    <3>2. c = s_c => spc # "accept"
      BY NonBlockAssumption DEF IInv, OneServedInv
    <3>3. c = s_c /\ open = TRUE => out[c] = <<>>
      BY <3>2 DEF IInv, AnswerInv
    <3> QED
      BY <3>1, <3>2, <3>3
  <2>2. CASE out[c] = <<>>
    <3>1. Len(out[c]) = 0 /\ out[c] # <<"OK">> /\ out[c] # <<"BYE">>
      BY <2>2
    <3> QED
      BY <3>1
  <2>3. CASE spc # "accept" /\ open # TRUE /\ c = s_c
    <3>1. cut \in BOOLEAN
      BY DEF IInv, ControlOK
    <3>2. \/ out[c] = <<"OK">> /\ (cut = FALSE => Command(sent[c]) = HELLO)
          \/ out[c] = <<"BYE">> /\ (cut = FALSE => Command(sent[c]) = SHUTDOWN)
      BY <2>3 DEF IInv, AnswerInv
    <3>3. /\ Len(<<"OK">>) = 1 /\ Len(<<"BYE">>) = 1 /\ <<"OK">> # <<"BYE">>
      <4>1. <<"OK">>[1] = "OK" /\ <<"BYE">>[1] = "BYE"
        OBVIOUS
      <4>2. <<"OK">> # <<"BYE">>
        BY <4>1
      <4> QED
        BY <4>2
    <3>4. Len(out[c]) = 1
      BY <3>2, <3>3
    <3>5. ~cut /\ out[c] = <<"OK">> => Command(sent[c]) = HELLO
      BY <3>1, <3>2, <3>3
    <3>6. ~cut /\ out[c] = <<"BYE">> => Command(sent[c]) = SHUTDOWN
      BY <3>1, <3>2, <3>3
    <3> QED
      BY <3>4, <3>5, <3>6
  <2> QED
    BY <2>1, <2>2, <2>3
<1> QED
  BY <1>1, <1>2, InitIInv, PTL DEF Spec

-----------------------------------------------------------------------------
(* The threads. *)

\* A thread of 25 never runs the body of 24, and the other way round.
PcOf(t) ==
  IF t = "static_routine" THEN {"unborn", "while", "print", "return", "exit"}
  ELSE {"unborn", "while", "lock", "load", "store", "unlock", "exit"}

ThreadsOK ==
  /\ prog \in {"24", "25"} /\ running \in BOOLEAN
  /\ buffer_has_item \in Int
  /\ register \in [Threads -> Int]
  /\ DOMAIN pc = Threads /\ \A t \in Threads : pc[t] \in PcOf(t)
  /\ rounds \in [Threads -> Nat] /\ late \in [Threads -> Nat]
  /\ \A t \in Threads : t \notin Started => pc[t] = "unborn"

\* Whoever is between lock and unlock holds the mutex, and what it has loaded is
\* what the counter still is.
MutexInv ==
  /\ \A t \in Threads : pc[t] \in {"load", "store", "unlock"} => mutex = t
  /\ \A t \in Threads : pc[t] = "store" => register[t] = buffer_has_item

\* A thread that has ended a round since running was cleared has left the body of
\* the loop, and the loop will not let it in again.
LateInv ==
  /\ running => \A t \in Threads : late[t] = 0
  /\ \A t \in Threads :
       late[t] = 0 \/ (late[t] = 1 /\ pc[t] \in {"unlock", "while", "return", "exit"})

ThreadsInv == ThreadsOK /\ MutexInv /\ CounterExact /\ LateInv

LEMMA InitThreads == ThreadsInit => ThreadsInv
  BY DEF ThreadsInit, ThreadsInv, ThreadsOK, PcOf, Threads, MutexInv, CounterExact, LateInv

LEMMA NextThreads == ThreadsInv /\ [ThreadsNext]_threadsVars => ThreadsInv'
<1> SUFFICES ASSUME ThreadsInv, [ThreadsNext]_threadsVars PROVE ThreadsInv'
  OBVIOUS
<1> USE DEF ThreadsInv
<1>1. ASSUME NEW t \in Threads, While(t) PROVE ThreadsInv'
  <2>1. ThreadsOK'
    BY <1>1 DEF While, ThreadsOK, PcOf, Running, Body, AfterLoop, Started, Threads
  <2>2. MutexInv' /\ CounterExact'
    BY <1>1 DEF While, ThreadsOK, MutexInv, CounterExact, Running, Body, AfterLoop
  <2>3. LateInv'
    BY <1>1 DEF While, ThreadsOK, LateInv, Running, AfterLoop
  <2> QED
    BY <2>1, <2>2, <2>3
<1>2. ASSUME NEW t \in Threads, Lock(t) PROVE ThreadsInv'
  <2>1. ThreadsOK'
    BY <1>2 DEF Lock, ThreadsOK, PcOf, Started, Threads
  <2>2. MutexInv' /\ CounterExact'
    BY <1>2 DEF Lock, FreeMutex, ThreadsOK, MutexInv, CounterExact, Threads
  <2>3. LateInv'
    BY <1>2 DEF Lock, ThreadsOK, LateInv
  <2> QED
    BY <2>1, <2>2, <2>3
<1>3. ASSUME NEW t \in Threads, Load(t) PROVE ThreadsInv'
  <2>1. ThreadsOK'
    BY <1>3 DEF Load, ThreadsOK, PcOf, Started, Threads
  <2>2. MutexInv' /\ CounterExact'
    BY <1>3 DEF Load, ThreadsOK, MutexInv, CounterExact
  <2>3. LateInv'
    BY <1>3 DEF Load, ThreadsOK, LateInv
  <2> QED
    BY <2>1, <2>2, <2>3
<1>4. ASSUME NEW t \in Threads, Store(t) PROVE ThreadsInv'
  <2>1. t \in {"producter", "consumer"}
    BY <1>4 DEF Store, ThreadsOK, PcOf, Threads
  <2>2. ThreadsOK'
    BY <1>4, <2>1 DEF Store, Round, ThreadsOK, PcOf, Started, Threads
  <2>3. MutexInv'
    BY <1>4, <2>1 DEF Store, ThreadsOK, MutexInv
  <2>4. CounterExact'
    BY <1>4, <2>1 DEF Store, Round, ThreadsOK, MutexInv, CounterExact, Threads
  <2>5. LateInv'
    BY <1>4 DEF Store, Round, ThreadsOK, LateInv
  <2> QED
    BY <2>2, <2>3, <2>4, <2>5
<1>5. ASSUME NEW t \in Threads, Unlock(t) PROVE ThreadsInv'
  <2>1. ThreadsOK'
    BY <1>5 DEF Unlock, ThreadsOK, PcOf, Started, Threads
  <2>2. MutexInv' /\ CounterExact'
    BY <1>5 DEF Unlock, ThreadsOK, MutexInv, CounterExact
  <2>3. LateInv'
    BY <1>5 DEF Unlock, ThreadsOK, LateInv
  <2> QED
    BY <2>1, <2>2, <2>3
<1>6. ASSUME NEW t \in Threads, PrintRound(t) PROVE ThreadsInv'
  <2>1. t = "static_routine"
    BY <1>6 DEF PrintRound, ThreadsOK, PcOf, Threads
  <2>2. ThreadsOK'
    BY <1>6, <2>1 DEF PrintRound, Round, ThreadsOK, PcOf, Started, Threads
  <2>3. MutexInv' /\ CounterExact'
    BY <1>6, <2>1 DEF PrintRound, Round, ThreadsOK, MutexInv, CounterExact, Threads
  <2>4. LateInv'
    BY <1>6 DEF PrintRound, Round, ThreadsOK, LateInv
  <2> QED
    BY <2>2, <2>3, <2>4
<1>7. ASSUME NEW t \in Threads, Return(t) PROVE ThreadsInv'
  <2>1. ThreadsOK'
    BY <1>7 DEF Return, ThreadsOK, PcOf, Started, Threads
  <2>2. MutexInv' /\ CounterExact' /\ LateInv'
    BY <1>7 DEF Return, ThreadsOK, MutexInv, CounterExact, LateInv
  <2> QED
    BY <2>1, <2>2
<1>8. ASSUME NEW t \in Threads, Create(t) PROVE ThreadsInv'
  <2>1. ThreadsOK'
    BY <1>8 DEF Create, ThreadsOK, PcOf, Started, Threads
  <2>2. MutexInv' /\ CounterExact'
    BY <1>8 DEF Create, ThreadsOK, MutexInv, CounterExact
  <2>3. LateInv'
    BY <1>8 DEF Create, ThreadsOK, LateInv
  <2> QED
    BY <2>1, <2>2, <2>3
<1>9. CASE Stop
  <2>1. ThreadsOK'
    BY <1>9 DEF Stop, tVars, ThreadsOK, PcOf, Started
  <2>2. MutexInv' /\ CounterExact' /\ LateInv'
    BY <1>9 DEF Stop, tVars, MutexInv, CounterExact, LateInv
  <2> QED
    BY <2>1, <2>2
<1>10. CASE Destroy
  <2>1. \A t \in Threads : pc[t] \in {"exit", "unborn"}
    BY <1>10 DEF Destroy, Joined, ThreadsOK
  <2>2. ThreadsOK'
    BY <1>10 DEF Destroy, ThreadsOK, PcOf, Started
  <2>3. MutexInv' /\ CounterExact' /\ LateInv'
    BY <1>10, <2>1 DEF Destroy, MutexInv, CounterExact, LateInv
  <2> QED
    BY <2>2, <2>3
<1>11. CASE CreateFails \/ PrintJoined \/ UNCHANGED threadsVars
  BY <1>11 DEF CreateFails, PrintJoined, threadsVars, tVars, ThreadsOK, PcOf, Started, MutexInv,
     CounterExact, LateInv
<1> QED
  BY <1>1, <1>2, <1>3, <1>4, <1>5, <1>6, <1>7, <1>8, <1>9, <1>10, <1>11
  DEF ThreadsNext, Main, Thread

LEMMA ThreadsInvariant == ThreadsSpec => []ThreadsInv
  BY InitThreads, NextThreads, PTL DEF ThreadsSpec

\* However the threads interleave, no increment or decrement is lost.
THEOREM CounterIsExact == ThreadsSpec => []CounterExact
<1>1. ThreadsInv => CounterExact
  BY DEF ThreadsInv
<1> QED
  BY <1>1, ThreadsInvariant, PTL

\* However many rounds a thread has done, it does one more at most once it is told
\* to stop.
THEOREM AtMostOneLateRound == ThreadsSpec => []OneLateRound
<1>1. ThreadsInv => OneLateRound
  BY DEF ThreadsInv, LateInv, OneLateRound
<1> QED
  BY <1>1, ThreadsInvariant, PTL
=============================================================================
