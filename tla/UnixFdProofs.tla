---------------------------- MODULE UnixFdProofs ----------------------------
(***************************************************************************)
(* Proofs about 45-unix_fd_server.c and 46-unix_fd_client.c, for any set   *)
(* of servers and clients and any number of lines.                         *)
(***************************************************************************)
EXTENDS UnixFdProps, SequenceTheorems, TLAPS

TypeOK ==
  /\ owner \in Servers \cup {Nobody} /\ (Domain \in files => owner \in Servers)
  /\ spc \in [Servers -> {"unlink", "bind", "accept", "read"} \cup Gone]
  /\ client_fd \in [Servers -> Clients \cup {Nobody}]
  /\ head \in [Servers -> [1 .. 3 -> Bytes \cup {"zero"}]]
  /\ cut \in [Servers -> BOOLEAN]
  /\ pending \in [Servers -> Seq(Clients)]
  /\ sent \in [Clients -> Seq(Bytes)]
  /\ taken \in [Clients -> Nat]

\* A server that goes on has not read "exi" yet, and one that reads has a client.
StopInv ==
  \A s \in Servers :
    /\ spc[s] = "read" => head[s] # Exi /\ client_fd[s] \in Clients
    /\ spc[s] = "stopped" => head[s] = Exi /\ client_fd[s] \in Clients

TakenInv == \A c \in Clients : taken[c] <= Len(sent[c])

\* The k-th byte of the buffer of s, unless it is still zero, was byte k of a read
\* that began after o[k] bytes of the client's text.
FromReads(s, c, o) ==
  /\ \A k \in 1 .. 3 :
       head[s][k] # "zero" =>
         o[k] + k <= taken[c] /\ o[k] + k <= Len(sent[c]) /\ sent[c][o[k] + k] = head[s][k]
  /\ o[1] <= taken[c] /\ o[3] <= o[2] /\ o[2] <= o[1]
  /\ (~cut[s] => o[1] = o[2] /\ o[2] = o[3])

HeadInv ==
  \A s \in Servers :
    /\ client_fd[s] \notin Clients => head[s] = [k \in 1 .. 3 |-> "zero"]
    /\ client_fd[s] \in Clients =>
         \E o \in [1 .. 3 -> Nat] : FromReads(s, client_fd[s], o)

\* A server that has accepted nobody has no client.
AcceptInv ==
  \A s \in Servers : spc[s] \in {"unlink", "bind", "accept"} => client_fd[s] = Nobody

IInv == TypeOK /\ OneServer /\ AcceptInv /\ StopInv /\ TakenInv /\ HeadInv

LEMMA InitIInv == Init => IInv
<1> SUFFICES ASSUME Init PROVE IInv
  OBVIOUS
<1>1. [k \in 1 .. 3 |-> "zero"] \in [1 .. 3 -> Bytes \cup {"zero"}]
  OBVIOUS
<1> USE UnixFdAssumption DEF Init
<1>2. TypeOK
  BY <1>1 DEF TypeOK, Gone
<1>3. TakenInv
  BY DEF TakenInv
<1> QED
  BY <1>2, <1>3 DEF IInv, OneServer, Running, AcceptInv, StopInv, HeadInv

\* What the buffers hold keeps its origin when more is sent and read.
LEMMA HeadKept ==
  ASSUME TypeOK, HeadInv, UNCHANGED <<client_fd, head, cut>>,
         \A c \in Clients :
           /\ taken'[c] \in Nat /\ taken[c] <= taken'[c]
           /\ Len(sent[c]) <= Len(sent'[c])
           /\ \A n \in 1 .. Len(sent[c]) : sent'[c][n] = sent[c][n]
  PROVE  HeadInv'
<1> SUFFICES ASSUME NEW s \in Servers, client_fd[s] \in Clients
             PROVE  \E o \in [1 .. 3 -> Nat] : FromReads(s, client_fd[s], o)'
  BY DEF HeadInv
<1> DEFINE c == client_fd[s]
<1>1. PICK o \in [1 .. 3 -> Nat] : FromReads(s, c, o)
  BY DEF HeadInv
<1>2. taken[c] \in Nat /\ taken'[c] \in Nat /\ taken[c] <= taken'[c]
      /\ Len(sent[c]) \in Nat /\ Len(sent'[c]) \in Nat /\ Len(sent[c]) <= Len(sent'[c])
  BY DEF TypeOK
<1>3. client_fd'[s] = c /\ head'[s] = head[s] /\ cut'[s] = cut[s]
  OBVIOUS
<1>4. ASSUME NEW k \in 1 .. 3, head[s][k] # "zero"
      PROVE  /\ o[k] + k <= taken'[c] /\ o[k] + k <= Len(sent'[c])
             /\ sent'[c][o[k] + k] = head[s][k]
  <2>1. /\ o[k] + k <= taken[c] /\ o[k] + k <= Len(sent[c])
        /\ sent[c][o[k] + k] = head[s][k]
    BY <1>1, <1>4 DEF FromReads
  <2>2. o[k] + k \in 1 .. Len(sent[c])
    BY <1>2, <2>1
  <2>3. sent'[c][o[k] + k] = sent[c][o[k] + k]
    BY <2>2
  <2> QED
    BY SMTT(20), <1>2, <2>1, <2>2, <2>3
<1>5. /\ o[1] <= taken'[c] /\ o[3] <= o[2] /\ o[2] <= o[1]
      /\ ~cut[s] => o[1] = o[2] /\ o[2] = o[3]
  BY <1>1, <1>2 DEF FromReads
<1> HIDE DEF c
<1>6. FromReads(s, client_fd[s], o)'
  BY <1>3, <1>4, <1>5 DEF FromReads
<1> QED
  BY <1>6

LEMMA WithinRead ==
  ASSUME NEW m \in Nat, NEW n \in Nat, NEW k \in Nat, NEW l \in Nat, k <= n, m + n <= l
  PROVE  m + k <= m + n /\ m + k <= l
OBVIOUS

LEMMA NextIInv == IInv /\ [Next]_vars => IInv'
<1> SUFFICES ASSUME IInv, [Next]_vars PROVE IInv'
  OBVIOUS
<1> USE UnixFdAssumption DEF IInv
<1>0. \A c \in Clients : Len(sent[c]) \in Nat /\ taken[c] \in Nat
  BY DEF TypeOK
<1>1. ASSUME NEW s \in Servers, Unlink(s) \/ Bind(s) PROVE IInv'
  <2>1. TypeOK'
    BY <1>1 DEF Unlink, Bind, cVars, TypeOK, AfterUnlink
  <2>2. OneServer'
    BY <1>1 DEF Unlink, Bind, TypeOK, OneServer, Running, AfterUnlink, Path, Domain
  <2>3. AcceptInv' /\ StopInv' /\ TakenInv'
    BY <1>1 DEF Unlink, Bind, cVars, TypeOK, AcceptInv, StopInv, TakenInv
  <2>4. HeadInv'
    BY <1>0, <1>1, HeadKept DEF Unlink, Bind, cVars
  <2> QED
    BY <2>1, <2>2, <2>3, <2>4
<1>3. ASSUME NEW s \in Servers, BindFails(s) \/ KillServer(s) \/ ServerReadFails(s) PROVE IInv'
  <2>1. /\ \E x \in {"failed", "dead", "error"} : spc' = [spc EXCEPT ![s] = x]
        /\ files' \in {files, files \ {Path}}
        /\ UNCHANGED <<owner, client_fd, head, cut, pending, sent, taken>>
    BY <1>3 DEF BindFails, KillServer, ServerReadFails, cVars, AfterUnlink
  <2>2. TypeOK' /\ OneServer'
    BY <2>1 DEF TypeOK, Gone, OneServer, Running, Path, Domain
  <2>3. AcceptInv' /\ StopInv' /\ TakenInv'
    BY <2>1 DEF TypeOK, Gone, AcceptInv, StopInv, TakenInv
  <2>4. HeadInv'
    BY <1>0, <2>1, HeadKept
  <2> QED
    BY <2>2, <2>3, <2>4
<1>4. ASSUME NEW s \in Servers, Accept(s) PROVE IInv'
  <2>1. Head(pending[s]) \in Clients /\ Tail(pending[s]) \in Seq(Clients)
    BY <1>4, HeadTailProperties DEF Accept, TypeOK
  <2>2. TypeOK'
    BY <1>4, <2>1 DEF Accept, cVars, TypeOK
  <2>3. OneServer'
    BY <1>4 DEF Accept, TypeOK, OneServer, Running
  <2> DEFINE c == Head(pending[s])
  <2>4. /\ client_fd[s] = Nobody /\ head[s] = [k \in 1 .. 3 |-> "zero"] /\ head[s] # Exi
    <3>1. client_fd[s] = Nobody
      BY <1>4 DEF Accept, AcceptInv
    <3>2. head[s] = [k \in 1 .. 3 |-> "zero"]
      BY <3>1 DEF HeadInv
    <3>3. head[s][1] # Exi[1]
      BY <3>2 DEF Exi
    <3> QED
      BY <3>1, <3>2, <3>3
  <2>5. /\ spc' = [spc EXCEPT ![s] = "read"] /\ client_fd' = [client_fd EXCEPT ![s] = c]
        /\ UNCHANGED <<head, cut, sent, taken>> /\ spc[s] = "accept"
    BY <1>4 DEF Accept, cVars
  <2> HIDE DEF c
  <2>6. AcceptInv' /\ StopInv' /\ TakenInv'
    BY <2>1, <2>4, <2>5 DEF TypeOK, AcceptInv, StopInv, TakenInv, c
  <2>7. HeadInv'
    <3> SUFFICES ASSUME NEW t \in Servers, client_fd'[t] \in Clients
                 PROVE  \E o \in [1 .. 3 -> Nat] : FromReads(t, client_fd[t], o)'
      <4>1. \A t \in Servers : client_fd'[t] \notin Clients => client_fd[t] \notin Clients
        BY <2>1, <2>5 DEF TypeOK, c
      <4> QED
        BY <2>5, <4>1 DEF HeadInv
    <3>1. CASE t = s
      <4> DEFINE o == [k \in 1 .. 3 |-> 0]
      <4>1. taken[client_fd'[t]] \in Nat
        BY <1>0
      <4>2. head'[t][1] = "zero" /\ head'[t][2] = "zero" /\ head'[t][3] = "zero"
        BY <2>4, <2>5, <3>1
      <4>3. FromReads(t, client_fd[t], o)'
        BY <2>5, <4>1, <4>2 DEF FromReads
      <4>4. o \in [1 .. 3 -> Nat]
        OBVIOUS
      <4> QED
        BY <4>3, <4>4
    <3>2. CASE t # s
      <4>1. client_fd'[t] = client_fd[t]
        BY <2>5, <3>2 DEF TypeOK
      <4>2. PICK o \in [1 .. 3 -> Nat] : FromReads(t, client_fd[t], o)
        BY <4>1 DEF HeadInv
      <4>3. FromReads(t, client_fd[t], o)'
        BY <2>5, <4>1, <4>2 DEF FromReads
      <4> QED
        BY <4>3
    <3> QED
      BY <3>1, <3>2
  <2> QED
    BY <2>2, <2>3, <2>6, <2>7
<1>5. ASSUME NEW s \in Servers, ServerRead(s) PROVE IInv'
  <2> DEFINE c == client_fd[s]
             n == IF Unread(c) < ReadLen THEN Unread(c) ELSE ReadLen
             h == Overwrite(head[s], c, n)
  <2>1. /\ c \in Clients /\ sent[c] \in Seq(Bytes) /\ taken[c] \in Nat /\ Len(sent[c]) \in Nat
        /\ Unread(c) > 0 /\ Unread(c) = Len(sent[c]) - taken[c] /\ spc[s] = "read"
    BY <1>0, <1>5 DEF ServerRead, TypeOK, StopInv, Unread
  <2>2. n \in Nat /\ n >= 1 /\ taken[c] + n <= Len(sent[c])
    BY <2>1
  <2>3. /\ head' = [head EXCEPT ![s] = h] /\ cut' = [cut EXCEPT ![s] = @ \/ n < 3]
        /\ spc' = [spc EXCEPT ![s] = AfterRead(h)]
        /\ files' \in {files, files \ {Path}}
        /\ taken' = [taken EXCEPT ![c] = @ + n]
        /\ UNCHANGED <<owner, client_fd, pending, sent>>
    BY <1>5 DEF ServerRead, cVars, AfterUnlink
  <2> HIDE DEF n
  <2>4. \A k \in 1 .. 3 : k <= n => /\ taken[c] + k \in 1 .. Len(sent[c])
                                   /\ sent[c][taken[c] + k] \in Bytes
    <3> SUFFICES ASSUME NEW k \in 1 .. 3, k <= n
                 PROVE  /\ taken[c] + k \in 1 .. Len(sent[c])
                        /\ sent[c][taken[c] + k] \in Bytes
      OBVIOUS
    <3> HIDE DEF c
    <3>1. taken[c] + k \in 1 .. Len(sent[c])
      BY SMTT(20), <2>1, <2>2
    <3> QED
      BY <2>1, <3>1, ElementOfSeq
  <2>5. /\ h \in [1 .. 3 -> Bytes \cup {"zero"}]
        /\ \A k \in 1 .. 3 : h[k] = IF k <= n THEN sent[c][taken[c] + k] ELSE head[s][k]
    BY <2>4 DEF Overwrite, TypeOK
  <2> HIDE DEF c, h
  <2>6. TypeOK'
    <3>1. taken' \in [Clients -> Nat]
      BY <2>1, <2>2, <2>3 DEF TypeOK
    <3>2. AfterRead(h) \in {"stopped", "read"} /\ (n < 3) \in BOOLEAN
      BY DEF AfterRead
    <3>3. cut' \in [Servers -> BOOLEAN]
      BY <2>3 DEF TypeOK
    <3> QED
      BY <2>3, <2>5, <3>1, <3>2, <3>3 DEF TypeOK, Gone
  <2>7. OneServer'
    BY <2>1, <2>3 DEF TypeOK, OneServer, Running, AfterRead, Path, Domain
  <2>8. AcceptInv' /\ StopInv'
    BY <2>1, <2>3 DEF TypeOK, AcceptInv, StopInv, AfterRead, c
  <2>9. TakenInv'
    BY <2>1, <2>2, <2>3 DEF TypeOK, TakenInv
  <2>10. HeadInv'
    <3> SUFFICES ASSUME NEW t \in Servers, client_fd[t] \in Clients
                 PROVE  \E o \in [1 .. 3 -> Nat] : FromReads(t, client_fd[t], o)'
      BY <2>1, <2>3 DEF HeadInv, TypeOK, c
    <3>1. PICK o \in [1 .. 3 -> Nat] : FromReads(t, client_fd[t], o)
      BY DEF HeadInv
    <3>2. /\ \A k \in 1 .. 3 : o[k] \in Nat
          /\ taken'[client_fd[t]] \in Nat /\ taken[client_fd[t]] \in Nat
          /\ taken[client_fd[t]] <= taken'[client_fd[t]]
      BY SMTT(20), <1>0, <2>1, <2>2, <2>3 DEF TypeOK
    <3>3. CASE t # s
      <4>1. head'[t] = head[t] /\ cut'[t] = cut[t]
        BY <2>3, <3>3 DEF TypeOK
      <4>2. FromReads(t, client_fd[t], o)'
        BY SMTT(20), <2>3, <3>1, <3>2, <4>1 DEF FromReads
      <4> QED
        BY <4>2
    <3>4. CASE t = s
      <4>1. PICK o1 \in [1 .. 3 -> Nat] :
              o1 = [k \in 1 .. 3 |-> IF k <= n THEN taken[c] ELSE o[k]]
        BY <2>1, <3>2
      <4>2. /\ head'[s] = h /\ cut'[s] = (cut[s] \/ n < 3) /\ client_fd'[s] = c
            /\ taken'[c] = taken[c] + n /\ sent'[c] = sent[c]
        BY <2>1, <2>3 DEF TypeOK, c
      <4>3. FromReads(s, c, o)
        BY <3>1, <3>4 DEF c
      <4>4. ASSUME NEW k \in 1 .. 3, h[k] # "zero"
            PROVE  /\ o1[k] + k <= taken[c] + n /\ o1[k] + k <= Len(sent[c])
                   /\ sent[c][o1[k] + k] = h[k]
        <5>1. CASE k <= n
          <6>1. o1[k] = taken[c]
            BY <4>1, <5>1
          <6>2. h[k] = sent[c][taken[c] + k]
            BY <2>5, <5>1
          <6>3. k \in Nat /\ n \in Nat /\ taken[c] \in Nat /\ Len(sent[c]) \in Nat
            BY <2>1, <2>2
          <6>4. taken[c] + k <= taken[c] + n /\ taken[c] + k <= Len(sent[c])
            BY <2>2, <5>1, <6>3, WithinRead
          <6> QED
            BY <6>1, <6>2, <6>4
        <5>2. CASE ~(k <= n)
          <6>1. h[k] = head[s][k] /\ o1[k] = o[k]
            BY <2>5, <4>1, <5>2
          <6>2. o[k] + k <= taken[c] /\ o[k] + k <= Len(sent[c]) /\ sent[c][o[k] + k] = head[s][k]
            BY <4>3, <4>4, <6>1 DEF FromReads
          <6>3. o[k] \in Nat /\ k \in Nat /\ taken[c] \in Nat /\ n \in Nat
            BY SMTT(20), <2>1, <2>2, <3>2
          <6>4. o[k] + k <= taken[c] + n
            BY SMTT(20), <6>2, <6>3
          <6> QED
            BY <6>1, <6>2, <6>4
        <5> QED
          BY <5>1, <5>2
      <4>5. /\ o1[1] <= taken[c] + n /\ o1[3] <= o1[2] /\ o1[2] <= o1[1]
            /\ n >= 3 => o1[1] = o1[2] /\ o1[2] = o1[3]
        <5>1. o[1] <= taken[c] /\ o[3] <= o[2] /\ o[2] <= o[1]
          BY <4>3 DEF FromReads
        <5> QED
          BY SMTT(20), <2>1, <2>2, <3>2, <4>1, <5>1
      <4>6. \A k \in 1 .. 3 : h[k] # "zero" =>
                 /\ o1[k] + k <= taken[c] + n /\ o1[k] + k <= Len(sent[c])
                 /\ sent[c][o1[k] + k] = h[k]
        BY <4>4
      <4>7. ~(cut[s] \/ n < 3) => n >= 3
        BY <2>2
      <4>8. FromReads(s, client_fd[s], o1)'
        <5>1. \A k \in 1 .. 3 :
                head'[s][k] # "zero" =>
                  /\ o1[k] + k <= taken'[c] /\ o1[k] + k <= Len(sent'[c])
                  /\ sent'[c][o1[k] + k] = head'[s][k]
          BY <4>2, <4>6
        <5>2. o1[1] <= taken'[c] /\ o1[3] <= o1[2] /\ o1[2] <= o1[1]
          BY <4>2, <4>5
        <5>3. ~cut'[s] => o1[1] = o1[2] /\ o1[2] = o1[3]
          BY <4>2, <4>5, <4>7
        <5> QED
          BY <4>2, <5>1, <5>2, <5>3 DEF FromReads
      <4>9. FromReads(t, client_fd[t], o1)'
        BY <3>4, <4>8
      <4> QED
        BY <4>9
    <3> QED
      BY <3>3, <3>4
  <2> QED
    BY <2>6, <2>7, <2>8, <2>9, <2>10
<1>6. ASSUME NEW s \in Servers, ServerReadEnd(s) PROVE IInv'
  <2>1. AfterRead(head[s]) = "read"
    BY <1>6 DEF ServerReadEnd, StopInv, AfterRead
  <2>2. UNCHANGED <<files, owner, spc, client_fd, head, cut, pending, sent, taken>>
    BY <1>6, <2>1 DEF ServerReadEnd, cVars, TypeOK
  <2>3. HeadInv'
    BY <1>0, <2>2, HeadKept
  <2> QED
    BY <2>2, <2>3 DEF TypeOK, OneServer, Running, AcceptInv, StopInv, TakenInv
<1>7. ASSUME NEW c \in Clients, Connect(c) PROVE IInv'
  <2>1. owner \in Servers
    BY <1>7 DEF Connect, TypeOK, Running
  <2>2. UNCHANGED <<files, owner, spc, client_fd, head, cut, sent, taken>>
    BY <1>7 DEF Connect, sVars
  <2>3. TypeOK'
    <3>1. Append(pending[owner], c) \in Seq(Clients)
      BY <2>1, AppendProperties DEF TypeOK
    <3> QED
      BY <1>7, <2>2, <3>1 DEF Connect, TypeOK
  <2>4. OneServer' /\ AcceptInv' /\ StopInv' /\ TakenInv'
    BY <2>2 DEF OneServer, Running, AcceptInv, StopInv, TakenInv
  <2>5. HeadInv'
    BY <1>0, <2>2, HeadKept
  <2> QED
    BY <2>3, <2>4, <2>5
<1>8. ASSUME NEW c \in Clients, NEW t \in Texts, LineRead(c, t) PROVE IInv'
  <2>1. UNCHANGED <<files, owner, spc, client_fd, head, cut, pending, taken>>
    BY <1>8 DEF LineRead, sVars
  <2>2. sent' = sent \/ sent' = [sent EXCEPT ![c] = sent[c] \o t]
    BY <1>8 DEF LineRead
  <2>3. /\ sent[c] \o t \in Seq(Bytes) /\ Len(sent[c] \o t) = Len(sent[c]) + Len(t)
        /\ Len(t) \in Nat
        /\ \A n \in 1 .. Len(sent[c]) : (sent[c] \o t)[n] = sent[c][n]
    BY ConcatProperties, LenProperties DEF TypeOK
  <2>4. ASSUME NEW d \in Clients
        PROVE  /\ Len(sent[d]) <= Len(sent'[d]) /\ sent'[d] \in Seq(Bytes)
               /\ \A n \in 1 .. Len(sent[d]) : sent'[d][n] = sent[d][n]
    <3>1. CASE sent'[d] = sent[d]
      BY <1>0, <3>1 DEF TypeOK
    <3>2. CASE sent'[d] = sent[c] \o t /\ d = c
      BY <1>0, <2>3, <3>2
    <3> QED
      BY <2>2, <3>1, <3>2 DEF TypeOK
  <2>5. TypeOK' /\ TakenInv'
    <3>1. sent' \in [Clients -> Seq(Bytes)]
      BY <2>2, <2>3 DEF TypeOK
    <3>2. \A d \in Clients : Len(sent'[d]) \in Nat
      BY <3>1
    <3> QED
      BY <1>0, <2>1, <2>4, <3>1, <3>2 DEF TypeOK, TakenInv
  <2>6. OneServer' /\ AcceptInv' /\ StopInv'
    BY <2>1 DEF OneServer, Running, AcceptInv, StopInv
  <2>7. HeadInv'
    BY <1>0, <2>1, <2>4, HeadKept
  <2> QED
    BY <2>5, <2>6, <2>7
<1>9. ASSUME NEW c \in Clients, ConnectFails(c) \/ InputEnd(c) \/ ServerGone(c) PROVE IInv'
  <2>1. UNCHANGED <<files, owner, spc, client_fd, head, cut, pending, sent, taken>>
    BY <1>9 DEF ConnectFails, InputEnd, ServerGone, sVars
  <2>2. HeadInv'
    BY <1>0, <2>1, HeadKept
  <2> QED
    BY <2>1, <2>2 DEF TypeOK, OneServer, Running, AcceptInv, StopInv, TakenInv
<1>10. CASE UNCHANGED vars
  <2>1. UNCHANGED <<files, owner, spc, client_fd, head, cut, pending, sent, taken>>
    BY <1>10 DEF vars, sVars, cVars
  <2>2. HeadInv'
    BY <1>0, <2>1, HeadKept
  <2> QED
    BY <2>1, <2>2 DEF TypeOK, OneServer, Running, AcceptInv, StopInv, TakenInv
<1> QED
  BY <1>1, <1>3, <1>4, <1>5, <1>6, <1>7, <1>8, <1>9, <1>10 DEF Next, Server

LEMMA Invariant == Spec => []IInv
  BY InitIInv, NextIInv, PTL DEF Spec

\* However many servers are started, and in whatever order, at most one listens.
THEOREM OnlyOneServer == Spec => []OneServer
<1>1. IInv => OneServer
  BY DEF IInv
<1> QED
  BY <1>1, Invariant, PTL

\* A server is only stopped by bytes e, x and i of the client it serves, however long
\* a read may be, however many texts of whatever bytes the client types, and however
\* they arrive.
THEOREM ExitOnly == Spec => []StopsOnlyOnExit
<1>1. ASSUME IInv, NEW s \in Servers, spc[s] = "stopped"
      PROVE  /\ client_fd[s] \in Clients
             /\ LET b == sent[client_fd[s]]
                    From(k) == {n \in 0 .. Len(b) : n + k <= Len(b) /\ b[n + k] = Exi[k]}
                IN  \E e \in From(1), x \in From(2), i \in From(3) :
                      e >= x /\ x >= i /\ (~cut[s] => e = x /\ x = i)
  <2> DEFINE b == sent[client_fd[s]]
             From(k) == {n \in 0 .. Len(b) : n + k <= Len(b) /\ b[n + k] = Exi[k]}
  <2>1. client_fd[s] \in Clients /\ head[s] = Exi
    BY <1>1 DEF IInv, StopInv
  <2>2. PICK o \in [1 .. 3 -> Nat] : FromReads(s, client_fd[s], o)
    BY <1>1, <2>1 DEF IInv, HeadInv
  <2>3. Len(b) \in Nat
    BY <1>1, <2>1 DEF IInv, TypeOK
  <2>4. \A k \in 1 .. 3 : Exi[k] # "zero"
    BY DEF Exi
  <2>5. \A k \in 1 .. 3 : o[k] \in From(k)
    BY SMTT(20), <2>1, <2>2, <2>3, <2>4 DEF FromReads
  <2>6. o[1] \in From(1) /\ o[2] \in From(2) /\ o[3] \in From(3)
    BY <2>5
  <2>7. o[1] >= o[2] /\ o[2] >= o[3] /\ (~cut[s] => o[1] = o[2] /\ o[2] = o[3])
    BY <2>2 DEF FromReads
  <2> HIDE DEF From
  <2>8. \E e \in From(1), x \in From(2), i \in From(3) :
          e >= x /\ x >= i /\ (~cut[s] => e = x /\ x = i)
    BY <2>6, <2>7
  <2> QED
    BY <2>1, <2>8 DEF From
<1>2. IInv => StopsOnlyOnExit
  BY <1>1 DEF StopsOnlyOnExit
<1> QED
  BY <1>2, Invariant, PTL
=============================================================================
