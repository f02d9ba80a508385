-------------------------- MODULE ForkServerProofs --------------------------
(***************************************************************************)
(* Proofs about 26-tcp_server.c, 33-tcp_server_io.c, 34-tcp_readv_server.c *)
(* and their clients, for any number of processes, clients and messages,   *)
(* any backlog and any sizes.                                              *)
(***************************************************************************)
EXTENDS ForkServerProps, SequenceTheorems, TLAPS

TypeOK ==
  /\ prog \in Programs
  /\ pc \in [Procs -> Serving \cup {"unborn", "accept", "fork", "parent", "dead"}]
  /\ fds \in [Procs -> SUBSET Conns]
  /\ sc \in [Procs -> Conns \cup {NoConn}]
  /\ size \in [Procs -> Int]
  /\ backlog \in Seq(Conns)
  /\ link \in [Conns -> {"up", "fin", "rst", "half", "broken"}]
  /\ cli \in [Conns -> {"new", "idle", "wait", "gone"}]
  /\ inq \in [Conns -> Int] /\ asked \in [Conns -> Int] /\ replied \in [Conns -> Int]

\* The process that the user started never serves, and nothing ends it.
RootInv == pc[1] \in {"accept", "fork", "parent"}

\* A client connects once and waits once for accept.
BacklogInv ==
  /\ \A i, j \in DOMAIN backlog : backlog[i] = backlog[j] => i = j
  /\ \A c \in Conns : Pending(c) => cli[c] # "new"

Active(p) == pc[p] \in Serving \cup {"fork"}

\* From accept to the end of the service, one process has the connection in sc.
ReaderInv ==
  \A p \in Procs :
    Active(p) /\ sc[p] # NoConn =>
      /\ sc[p] \in fds[p] /\ cli[sc[p]] # "new" /\ ~Pending(sc[p])
      /\ \A q \in Procs : Active(q) /\ sc[q] = sc[p] => p = q

\* What a process keeps open beside sc is no longer up.
HolderInv ==
  \A p \in Procs : \A c \in fds[p] :
    link[c] = "up" => sc[p] = c /\ (Active(p) \/ pc[p] = "parent")

BytesInv ==
  \A c \in Conns :
    /\ cli[c] = "new" => asked[c] = inq[c] + replied[c]
    /\ Pending(c) /\ link[c] = "up" => asked[c] = inq[c] + replied[c]
    /\ \A p \in Procs :
         link[c] = "up" /\ Active(p) /\ sc[p] = c =>
           asked[c] = inq[c] + replied[c] + (IF pc[p] = "write" THEN size[p] ELSE 0)

IInv ==
  /\ TypeOK /\ RootInv /\ BacklogInv /\ ReaderInv /\ NoDescriptorLeak
  /\ HolderInv /\ BytesInv

LEMMA ProcsType == 1 \in Procs /\ Procs \subseteq Nat
  BY ServerAssumption DEF Procs

LEMMA InitIInv == Init => IInv
<1> SUFFICES ASSUME Init PROVE IInv
  OBVIOUS
<1>1. /\ backlog = <<>> /\ backlog \in Seq(Conns) /\ DOMAIN backlog = {}
  BY DEF Init
<1>2. TypeOK /\ RootInv
  BY <1>1, ProcsType, ServerAssumption DEF Init, TypeOK, RootInv, Serving
<1>3. BacklogInv /\ ReaderInv /\ NoDescriptorLeak /\ HolderInv
  BY <1>1, ProcsType DEF Init, BacklogInv, Pending, ReaderInv, Active, Serving, NoDescriptorLeak,
     HolderInv
<1>4. BytesInv
  BY <1>1 DEF Init, BytesInv, Pending, Active, Serving
<1> QED
  BY <1>2, <1>3, <1>4 DEF IInv

-----------------------------------------------------------------------------

LEMMA AcceptBacklog ==
  ASSUME TypeOK, BacklogInv, backlog # <<>>, backlog' = Tail(backlog)
  PROVE  /\ Head(backlog) \in Conns /\ Pending(Head(backlog))
         /\ backlog' \in Seq(Conns)
         /\ \A i, j \in DOMAIN backlog' : backlog'[i] = backlog'[j] => i = j
         /\ \A c \in Conns : Pending(c)' <=> Pending(c) /\ c # Head(backlog)
<1>1. backlog \in Seq(Conns) /\ Len(backlog) \in Nat /\ DOMAIN backlog = 1 .. Len(backlog)
  BY LenProperties DEF TypeOK
<1>2. /\ Head(backlog) \in Conns /\ Head(backlog) = backlog[1] /\ Len(backlog) > 0
      /\ backlog' \in Seq(Conns) /\ Len(backlog') = Len(backlog) - 1
      /\ \A i \in 1 .. Len(backlog') : backlog'[i] = backlog[i + 1]
  BY <1>1, HeadTailProperties, EmptySeq
<1>3. DOMAIN backlog' = 1 .. Len(backlog) - 1
  BY <1>2, LenProperties
<1>4. Pending(Head(backlog))
  BY <1>1, <1>2 DEF Pending
<1>5. \A i, j \in DOMAIN backlog' : backlog'[i] = backlog'[j] => i = j
  BY <1>1, <1>2, <1>3 DEF BacklogInv
<1>6. ASSUME NEW c \in Conns, Pending(c)' PROVE Pending(c) /\ c # Head(backlog)
  <2>1. PICK i \in 1 .. Len(backlog) - 1 : backlog[i + 1] = c
    BY <1>6, <1>2, <1>3 DEF Pending
  <2>2. i + 1 \in 1 .. Len(backlog) /\ 1 \in 1 .. Len(backlog) /\ i + 1 # 1
    BY <1>1, <2>1
  <2> QED
    BY <1>1, <1>2, <2>1, <2>2 DEF Pending, BacklogInv
<1>7. ASSUME NEW c \in Conns, Pending(c), c # Head(backlog) PROVE Pending(c)'
  <2>1. PICK i \in 1 .. Len(backlog) : backlog[i] = c
    BY <1>1, <1>7 DEF Pending
  <2>2. i - 1 \in 1 .. Len(backlog) - 1 /\ backlog'[i - 1] = c
    BY <1>1, <1>2, <1>7, <2>1
  <2> QED
    BY <1>3, <2>2 DEF Pending
<1> QED
  BY <1>2, <1>4, <1>5, <1>6, <1>7

LEMMA ConnectBacklog ==
  ASSUME TypeOK, BacklogInv, NEW d \in Conns, ~Pending(d), backlog' = Append(backlog, d)
  PROVE  /\ backlog' \in Seq(Conns)
         /\ \A i, j \in DOMAIN backlog' : backlog'[i] = backlog'[j] => i = j
         /\ \A c \in Conns : Pending(c)' <=> Pending(c) \/ c = d
<1>1. backlog \in Seq(Conns) /\ Len(backlog) \in Nat /\ DOMAIN backlog = 1 .. Len(backlog)
  BY LenProperties DEF TypeOK
<1>2. /\ backlog' \in Seq(Conns) /\ Len(backlog') = Len(backlog) + 1
      /\ \A i \in 1 .. Len(backlog) : backlog'[i] = backlog[i]
      /\ backlog'[Len(backlog) + 1] = d
  BY <1>1, AppendProperties
<1>3. DOMAIN backlog' = 1 .. Len(backlog) + 1
  BY <1>2, LenProperties
<1>4. \A i \in DOMAIN backlog' : i \in 1 .. Len(backlog) \/ i = Len(backlog) + 1
  BY <1>1, <1>3
<1>5. \A i \in 1 .. Len(backlog) : backlog[i] # d
  BY <1>1 DEF Pending
<1>6. \A i, j \in DOMAIN backlog' : backlog'[i] = backlog'[j] => i = j
  BY <1>1, <1>2, <1>4, <1>5 DEF BacklogInv
<1>7. 1 .. Len(backlog) \subseteq DOMAIN backlog' /\ Len(backlog) + 1 \in DOMAIN backlog'
  BY <1>1, <1>3
<1>8. \A c \in Conns : Pending(c)' <=> Pending(c) \/ c = d
  BY <1>1, <1>2, <1>4, <1>7 DEF Pending
<1> QED
  BY <1>2, <1>6, <1>8

-----------------------------------------------------------------------------
(* Steps of a process that leave backlog and the clients alone. *)

Unchanged == UNCHANGED <<prog, backlog, cli, asked>>

\* A process that becomes active in no step but accept and fork cannot disturb the
\* others' connections.
LEMMA StepReader ==
  ASSUME ReaderInv, BacklogInv, TypeOK, Unchanged, sc' = sc, NEW p \in Procs,
         \A q \in Procs : Active(q)' => Active(q),
         \A q \in Procs : Active(q)' => fds'[q] = fds[q]
  PROVE  ReaderInv' /\ BacklogInv'
<1>1. \A c \in Conns : Pending(c)' <=> Pending(c)
  BY DEF Unchanged, Pending
<1>2. BacklogInv'
  BY <1>1 DEF BacklogInv, Unchanged
<1>3. \A q \in Procs : Active(q)' =>
        Active(q) /\ fds'[q] = fds[q] /\ sc'[q] = sc[q] /\ sc[q] \in Conns \cup {NoConn}
  BY DEF TypeOK
<1> QED
  BY <1>1, <1>2, <1>3 DEF ReaderInv, Unchanged

\* Steps that count no bytes and put no process in reach of a reply.
LEMMA StepBytes ==
  ASSUME TypeOK, BytesInv, Unchanged, UNCHANGED <<sc, inq, replied>>,
         \A c \in Conns : link'[c] = "up" => link[c] = "up",
         \A q \in Procs : Active(q)' => Active(q),
         \A q \in Procs : sc[q] # NoConn /\ link'[sc[q]] = "up" /\ Active(q)' =>
           (pc'[q] = "write" <=> pc[q] = "write") /\ size'[q] = size[q]
  PROVE  BytesInv'
<1>1. \A c \in Conns : Pending(c)' <=> Pending(c)
  BY DEF Unchanged, Pending
<1>2. NoConn \notin Conns
  BY ServerAssumption
<1> SUFFICES ASSUME NEW c \in Conns
             PROVE  /\ cli'[c] = "new" => asked'[c] = inq'[c] + replied'[c]
                    /\ Pending(c)' /\ link'[c] = "up" => asked'[c] = inq'[c] + replied'[c]
                    /\ \A q \in Procs : link'[c] = "up" /\ Active(q)' /\ sc'[q] = c =>
                         asked'[c] = inq'[c] + replied'[c] + (IF pc'[q] = "write" THEN size'[q] ELSE 0)
  BY DEF BytesInv
<1>3. \A q \in Procs : link'[c] = "up" /\ Active(q)' /\ sc'[q] = c =>
         asked'[c] = inq'[c] + replied'[c] + (IF pc'[q] = "write" THEN size'[q] ELSE 0)
  BY <1>2 DEF BytesInv, Unchanged
<1> QED
  BY <1>1, <1>3 DEF BytesInv, Unchanged

LEMMA AcceptIInv == ASSUME IInv, NEW p \in Procs, Accept(p) PROVE IInv'
<1> USE DEF IInv
<1> DEFINE c == Head(backlog)
<1>1. /\ c \in Conns /\ Pending(c) /\ backlog' \in Seq(Conns)
      /\ \A i, j \in DOMAIN backlog' : backlog'[i] = backlog'[j] => i = j
      /\ \A d \in Conns : Pending(d)' <=> Pending(d) /\ d # c
  BY AcceptBacklog DEF Accept
<1>2. /\ pc[p] = "accept" /\ pc' = [pc EXCEPT ![p] = "fork"] /\ sc' = [sc EXCEPT ![p] = c]
      /\ fds' = [fds EXCEPT ![p] = @ \cup {c}]
      /\ UNCHANGED <<prog, size, link, inq, cli, asked, replied>>
  BY DEF Accept, cliVars
<1> HIDE DEF c
<1>3. c # NoConn
  BY <1>1, ServerAssumption
<1>4. TypeOK'
  BY <1>1, <1>2 DEF TypeOK
<1>5. RootInv'
  BY <1>2, ProcsType DEF TypeOK, RootInv
<1>6. BacklogInv'
  BY <1>1, <1>2 DEF BacklogInv
<1>7. \A q \in Procs : Active(q)' <=> Active(q) \/ q = p
  BY <1>2 DEF TypeOK, Active
<1>8. \A q \in Procs : q # p => sc'[q] = sc[q] /\ fds'[q] = fds[q] /\ pc'[q] = pc[q]
  BY <1>2 DEF TypeOK
<1>9. sc'[p] = c /\ fds'[p] = fds[p] \cup {c} /\ pc'[p] = "fork"
  BY <1>2 DEF TypeOK
<1>10. ReaderInv'
  <2>1. \A q \in Procs : q # p /\ Active(q) => sc[q] # c
    BY <1>1, <1>3 DEF ReaderInv
  <2>2. cli[c] # "new"
    BY <1>1 DEF BacklogInv
  <2>3. \A q \in Procs : sc[q] \in Conns \cup {NoConn}
    BY DEF TypeOK
  <2> QED
    BY <1>1, <1>2, <1>7, <1>8, <1>9, <2>1, <2>2, <2>3 DEF ReaderInv
<1>11. NoDescriptorLeak'
  BY <1>2, <1>8, <1>9 DEF NoDescriptorLeak
<1>12. HolderInv'
  <2>1. \A d \in fds[p] : link[d] # "up"
    BY <1>2 DEF HolderInv, Active, Serving
  <2> QED
    BY <1>2, <1>7, <1>8, <1>9, <2>1 DEF HolderInv
<1>13. BytesInv'
  <2>1. \A d \in Conns : \A q \in Procs : link[d] = "up" /\ Active(q)' /\ sc'[q] = d =>
          asked[d] = inq[d] + replied[d] + (IF pc'[q] = "write" THEN size[q] ELSE 0)
    <3> SUFFICES ASSUME NEW d \in Conns, NEW q \in Procs, link[d] = "up", Active(q)', sc'[q] = d
                 PROVE  asked[d] = inq[d] + replied[d] + (IF pc'[q] = "write" THEN size[q] ELSE 0)
      OBVIOUS
    <3>1. CASE q = p
      <4>1. d = c /\ pc'[q] # "write"
        BY <3>1, <1>9
      <4>2. asked[d] = inq[d] + replied[d] /\ inq[d] \in Int /\ replied[d] \in Int
        BY <4>1, <1>1 DEF BytesInv, TypeOK
      <4> QED
        BY <4>1, <4>2
    <3>2. CASE q # p
      BY <3>2, <1>7, <1>8 DEF BytesInv
    <3> QED
      BY <3>1, <3>2
  <2> QED
    BY <1>1, <1>2, <2>1 DEF BytesInv
<1> QED
  BY <1>4, <1>5, <1>6, <1>10, <1>11, <1>12, <1>13

LEMMA ForkIInv == ASSUME IInv, NEW p \in Procs, Fork(p) PROVE IInv'
<1> USE DEF IInv
<1>1. PICK q \in Procs :
        /\ pc[q] = "unborn" /\ pc' = [pc EXCEPT ![p] = "parent", ![q] = "child"]
        /\ fds' = [fds EXCEPT ![q] = fds[p]] /\ sc' = [sc EXCEPT ![q] = sc[p]]
  BY DEF Fork, ParentCloses
<1>2. /\ pc[p] = "fork" /\ p # q
      /\ UNCHANGED <<prog, size, backlog, link, inq, cli, asked, replied>>
  BY <1>1 DEF Fork, netVars, cliVars
<1>3. /\ pc'[p] = "parent" /\ sc'[p] = sc[p] /\ fds'[p] = fds[p]
      /\ pc'[q] = "child" /\ sc'[q] = sc[p] /\ fds'[q] = fds[p]
      /\ \A r \in Procs \ {p, q} : pc'[r] = pc[r] /\ sc'[r] = sc[r] /\ fds'[r] = fds[r]
  BY <1>1, <1>2 DEF TypeOK
<1>4. \A r \in Procs : Active(r)' <=> (Active(r) /\ r # p) \/ r = q
  BY <1>1, <1>2, <1>3 DEF Active, Serving
<1>5. Active(p) /\ ~Active(q)
  BY <1>1, <1>2 DEF Active, Serving
<1>6. TypeOK'
  BY <1>1, <1>2 DEF TypeOK, Serving
<1>7. RootInv' /\ q # 1
  BY <1>1, <1>2, <1>3, ProcsType DEF RootInv
<1>8. \A c \in Conns : Pending(c)' <=> Pending(c)
  BY <1>2 DEF Pending
<1>9. BacklogInv'
  BY <1>2, <1>8 DEF BacklogInv
<1>10. ReaderInv'
  <2>1. \A r \in Procs : sc[r] \in Conns \cup {NoConn}
    BY DEF TypeOK
  <2> QED
    BY <1>2, <1>3, <1>4, <1>5, <1>8, <2>1 DEF ReaderInv
<1>11. NoDescriptorLeak'
  BY <1>2, <1>3, <1>7 DEF NoDescriptorLeak
<1>12. HolderInv'
  BY <1>2, <1>3, <1>4, <1>5 DEF HolderInv
<1>13. BytesInv'
  <2>1. \A c \in Conns : \A r \in Procs : link[c] = "up" /\ Active(r)' /\ sc'[r] = c =>
          asked[c] = inq[c] + replied[c] + (IF pc'[r] = "write" THEN size[r] ELSE 0)
    BY <1>2, <1>3, <1>4, <1>5 DEF BytesInv
  <2> QED
    BY <1>2, <1>8, <2>1 DEF BytesInv
<1> QED
  BY <1>6, <1>7, <1>9, <1>10, <1>11, <1>12, <1>13

\* A process that ends closes what it has open and disturbs no other.
LEMMA EndIInv ==
  ASSUME IInv, NEW p \in Procs, p # 1, End(p) PROVE IInv'
<1> USE DEF IInv
<1>1. /\ pc' = [pc EXCEPT ![p] = "dead"] /\ fds' = [fds EXCEPT ![p] = {}]
      /\ UNCHANGED <<prog, sc, size, backlog, link, inq, cli, asked, replied>>
  BY DEF End, netVars, cliVars
<1>2. TypeOK' /\ RootInv'
  BY <1>1, ProcsType DEF TypeOK, RootInv
<1>3. \A q \in Procs : Active(q)' => Active(q) /\ q # p /\ pc'[q] = pc[q] /\ fds'[q] = fds[q]
  BY <1>1 DEF TypeOK, Active, Serving
<1>4. Unchanged
  BY <1>1 DEF Unchanged
<1>5. ReaderInv' /\ BacklogInv'
  BY <1>1, <1>3, <1>4, StepReader
<1>6. BytesInv'
  BY <1>1, <1>3, <1>4, StepBytes
<1>7. NoDescriptorLeak'
  BY <1>1 DEF NoDescriptorLeak, TypeOK
<1>8. HolderInv'
  BY <1>1 DEF HolderInv, TypeOK, Active
<1> QED
  BY <1>2, <1>5, <1>6, <1>7, <1>8

\* A step of p that only moves its control, between states in which it serves, or
\* that takes it out of fork, or leaves it where it was.
LEMMA ControlIInv ==
  ASSUME IInv, NEW p \in Procs, NEW x \in Serving \cup {"parent"},
         Active(p), p = 1 => x = "parent",
         pc' = [pc EXCEPT ![p] = x], Unchanged, UNCHANGED <<fds, sc, inq, replied>>,
         size' \in [Procs -> Int], \A q \in Procs \ {p} : size'[q] = size[q],
         link' \in [Conns -> {"up", "fin", "rst", "half", "broken"}],
         \A c \in Conns : link'[c] = "up" => link[c] = "up",
         sc[p] = NoConn \/ link'[sc[p]] # "up" \/ (pc[p] # "write" /\ x # "write" /\ size' = size)
  PROVE  IInv'
<1> USE DEF IInv
<1>1. TypeOK'
  BY DEF TypeOK, Unchanged
<1>2. RootInv'
  BY ProcsType DEF TypeOK, RootInv
<1>3. \A q \in Procs : Active(q)' => Active(q)
  BY DEF TypeOK, Active
<1>4. ReaderInv' /\ BacklogInv'
  BY <1>3, StepReader
<1>5. BytesInv'
  <2>1. \A q \in Procs : sc[q] # NoConn /\ link'[sc[q]] = "up" /\ Active(q)' =>
           (pc'[q] = "write" <=> pc[q] = "write") /\ size'[q] = size[q]
    BY DEF TypeOK
  <2> QED
    BY <1>3, <2>1, StepBytes
<1>6. NoDescriptorLeak'
  BY DEF NoDescriptorLeak, TypeOK, Unchanged, Serving, Active
<1>7. HolderInv'
  BY <1>1 DEF HolderInv, TypeOK, Active, Serving
<1> QED
  BY <1>1, <1>2, <1>4, <1>5, <1>6, <1>7

-----------------------------------------------------------------------------
(* The other steps of a process. *)

LEMMA AcceptFailIInv == ASSUME IInv, NEW p \in Procs, AcceptFail(p) PROVE IInv'
<1> USE DEF IInv
<1>1. /\ pc[p] = "accept" /\ sc' = [sc EXCEPT ![p] = NoConn]
      /\ \E x \in {"fork", "accept"} : pc' = [pc EXCEPT ![p] = x]
      /\ UNCHANGED <<prog, fds, size, backlog, link, inq, cli, asked, replied>>
  BY DEF AcceptFail, netVars, cliVars
<1>2. TypeOK' /\ RootInv'
  BY <1>1, ProcsType DEF TypeOK, RootInv
<1>3. sc'[p] = NoConn /\ \A q \in Procs \ {p} : pc'[q] = pc[q] /\ sc'[q] = sc[q]
  BY <1>1 DEF TypeOK
<1>4. \A c \in Conns : Pending(c)' <=> Pending(c)
  BY <1>1 DEF Pending
<1>5. BacklogInv' /\ ReaderInv'
  <2>1. BacklogInv'
    BY <1>1, <1>4 DEF BacklogInv
  <2>2. \A q \in Procs : Active(q)' /\ sc'[q] # NoConn => Active(q) /\ sc'[q] = sc[q]
    BY <1>3 DEF Active
  <2> QED
    BY <1>1, <1>4, <2>1, <2>2 DEF ReaderInv, TypeOK
<1>6. NoDescriptorLeak'
  BY <1>1, <1>3 DEF NoDescriptorLeak
<1>7. HolderInv'
  <2>1. \A c \in fds[p] : link[c] # "up"
    BY <1>1 DEF HolderInv, Active, Serving
  <2> QED
    BY <1>1, <1>3, <2>1 DEF HolderInv, Active
<1>8. BytesInv'
  BY <1>1, <1>3, <1>4, ServerAssumption DEF BytesInv, Active
<1> QED
  BY <1>2, <1>5, <1>6, <1>7, <1>8

\* After close(sc) the process is where accept may take the next connection.
LEMMA LeaveIInv ==
  ASSUME IInv, NEW p \in Procs, ~Active(p) \/ (p # 1 /\ link[sc[p]] # "up"),
         pc[p] \in {"parent", "read"}, sc[p] \in Conns \/ pc[p] = "parent",
         pc' = [pc EXCEPT ![p] = "accept"],
         \/ fds' = [fds EXCEPT ![p] = @ \ {sc[p]}]
         \/ UNCHANGED fds /\ ~prog.closesConn /\ pc[p] = "read",
         Unchanged, UNCHANGED <<sc, inq, link, replied>>,
         size' \in [Procs -> Int], \A q \in Procs \ {p} : size'[q] = size[q]
  PROVE  IInv'
<1> USE DEF IInv
<1>1. /\ pc'[p] = "accept" /\ (fds'[p] = fds[p] \ {sc[p]} \/ (fds'[p] = fds[p] /\ ~prog.closesConn /\ pc[p] = "read"))
      /\ fds'[p] \subseteq fds[p]
      /\ \A q \in Procs \ {p} : pc'[q] = pc[q] /\ fds'[q] = fds[q]
  BY DEF TypeOK
<1>2. TypeOK' /\ RootInv'
  <2>1. fds' \in [Procs -> SUBSET Conns]
    BY <1>1 DEF TypeOK
  <2>2. TypeOK'
    BY <2>1 DEF TypeOK, Unchanged
  <2> QED
    BY <1>1, <2>2, ProcsType DEF TypeOK, RootInv, Unchanged
<1>3. \A q \in Procs : Active(q)' => Active(q) /\ q # p /\ pc'[q] = pc[q] /\ fds'[q] = fds[q]
  BY <1>1 DEF Active, Serving
<1>4. ReaderInv' /\ BacklogInv'
  BY <1>3, StepReader
<1>5. BytesInv'
  BY <1>3, StepBytes
<1>6. NoDescriptorLeak'
  <2>1. p = 1 => fds'[p] = fds[p] \ {sc[p]}
    BY <1>1, ProcsType DEF RootInv
  <2> QED
    BY <1>1, <2>1 DEF NoDescriptorLeak, Unchanged
<1>7. HolderInv'
  <2>1. \A c \in fds'[p] : link[c] # "up"
    <3>1. \A c \in fds[p] : link[c] = "up" => c = sc[p]
      BY DEF HolderInv
    <3>2. pc[p] = "read" => link[sc[p]] # "up"
      BY DEF Active, Serving
    <3> QED
      BY <1>1, <3>1, <3>2
  <2>2. \A q \in Procs \ {p} : Active(q)' <=> Active(q)
    BY <1>1 DEF Active
  <2> QED
    BY <1>1, <2>1, <2>2 DEF HolderInv
<1> QED
  BY <1>2, <1>4, <1>5, <1>6, <1>7

\* The bytes move from inq to the process that has read them, and from there to the
\* reply; nobody else has the connection.
LEMMA BytesIInv ==
  ASSUME IInv, NEW p \in Procs, pc[p] \in {"read", "write"}, p # 1,
         sc[p] # NoConn,
         Unchanged, UNCHANGED <<fds, sc, link>>,
         NEW x \in {"read", "write"}, pc' = [pc EXCEPT ![p] = x],
         size' \in [Procs -> Int], \A q \in Procs \ {p} : size'[q] = size[q],
         inq' \in [Conns -> Int], replied' \in [Conns -> Int],
         \A c \in Conns \ {sc[p]} : inq'[c] = inq[c] /\ replied'[c] = replied[c],
         inq'[sc[p]] + replied'[sc[p]] + (IF x = "write" THEN size'[p] ELSE 0)
           = inq[sc[p]] + replied[sc[p]] + (IF pc[p] = "write" THEN size[p] ELSE 0)
  PROVE  IInv'
<1> USE DEF IInv
<1>1. pc'[p] = x /\ \A q \in Procs \ {p} : pc'[q] = pc[q]
  BY DEF TypeOK
<1>2. TypeOK' /\ RootInv'
  BY ProcsType DEF TypeOK, RootInv, Unchanged, Serving
<1>3. Active(p) /\ \A q \in Procs : Active(q)' <=> Active(q)
  BY <1>1 DEF Active, Serving
<1>4. ReaderInv' /\ BacklogInv'
  BY <1>3, StepReader
<1>5. NoDescriptorLeak'
  BY <1>1 DEF NoDescriptorLeak, Unchanged
<1>6. HolderInv'
  BY <1>1, <1>3 DEF HolderInv
<1>7. BytesInv'
  <2>1. \A c \in Conns : Pending(c)' <=> Pending(c)
    BY DEF Unchanged, Pending
  <2>2. sc[p] \in Conns /\ cli[sc[p]] # "new" /\ ~Pending(sc[p])
    BY <1>3 DEF ReaderInv, TypeOK
  <2>3. ASSUME NEW q \in Procs, NEW c \in Conns, link[c] = "up", Active(q)', sc[q] = c
        PROVE  asked[c] = inq'[c] + replied'[c] + (IF pc'[q] = "write" THEN size'[q] ELSE 0)
    <3>1. CASE q = p
      BY <3>1, <2>3, <1>1, <1>3 DEF BytesInv
    <3>2. CASE q # p
      <4>1. c # sc[p]
        BY <3>2, <2>3, <1>3 DEF ReaderInv
      <4> QED
        BY <3>2, <4>1, <2>3, <1>1, <1>3 DEF BytesInv
    <3> QED
      BY <3>1, <3>2
  <2>4. \A c \in Conns :
          /\ cli[c] = "new" => asked[c] = inq'[c] + replied'[c]
          /\ Pending(c) /\ link[c] = "up" => asked[c] = inq'[c] + replied'[c]
    BY <2>2 DEF BytesInv
  <2> QED
    BY <2>1, <2>3, <2>4 DEF BytesInv, Unchanged
<1> QED
  BY <1>2, <1>4, <1>5, <1>6, <1>7

LEMMA ProcessIInv == ASSUME IInv, NEW p \in Procs, Process(p) PROVE IInv'
<1> USE DEF IInv
<1>1. p = 1 => pc[p] \notin Serving
  BY DEF RootInv, Serving
<1>2. CASE Accept(p)
  BY <1>2, AcceptIInv
<1>3. CASE Fork(p)
  BY <1>3, ForkIInv
<1>4. CASE ForkFail(p)
  <2>1. /\ pc[p] = "fork" /\ pc' = [pc EXCEPT ![p] = "parent"] /\ Unchanged
        /\ UNCHANGED <<fds, sc, size, inq, link, replied>>
    BY <1>4 DEF ForkFail, netVars, cliVars, Unchanged
  <2> QED
    BY <2>1, ControlIInv DEF TypeOK, Active, Serving
<1>5. CASE CloseConn(p)
  <2>1. /\ pc[p] = "parent" /\ pc' = [pc EXCEPT ![p] = "accept"] /\ Unchanged
        /\ fds' = [fds EXCEPT ![p] = @ \ {sc[p]}]
        /\ UNCHANGED <<sc, size, inq, link, replied>>
    BY <1>5 DEF CloseConn, ConnClosed, netVars, cliVars, Unchanged
  <2> QED
    BY <2>1, LeaveIInv DEF TypeOK, Active, Serving
<1>6. CASE StartChild(p)
  <2>1. /\ pc[p] = "child" /\ pc' = [pc EXCEPT ![p] = "read"] /\ Unchanged
        /\ UNCHANGED <<fds, sc, size, inq, link, replied>>
    BY <1>6 DEF StartChild, netVars, cliVars, Unchanged
  <2> QED
    BY <1>1, <2>1, ControlIInv DEF TypeOK, Active, Serving
<1>7. CASE ReadData(p)
  <2>1. PICK n \in 1 .. BufLen :
          /\ inq' = [inq EXCEPT ![sc[p]] = @ - n] /\ size' = [size EXCEPT ![p] = n]
    BY <1>7 DEF ReadData, Reported
  <2>2. /\ pc[p] = "read" /\ sc[p] # NoConn /\ pc' = [pc EXCEPT ![p] = "write"] /\ Unchanged
        /\ UNCHANGED <<fds, sc, link, replied>>
    BY <1>7 DEF ReadData, cliVars, Unchanged
  <2>3. sc[p] \in Conns /\ inq[sc[p]] \in Int /\ replied[sc[p]] \in Int /\ n \in Int
    BY <2>2, ServerAssumption DEF TypeOK
  <2>4. /\ inq'[sc[p]] = inq[sc[p]] - n /\ size'[p] = n /\ inq' \in [Conns -> Int]
        /\ size' \in [Procs -> Int] /\ (\A q \in Procs \ {p} : size'[q] = size[q])
        /\ \A c \in Conns \ {sc[p]} : inq'[c] = inq[c]
    BY <2>1, <2>3 DEF TypeOK
  <2>5. inq'[sc[p]] + replied'[sc[p]] + size'[p] = inq[sc[p]] + replied[sc[p]] + 0
    BY <2>2, <2>3, <2>4
  <2> HIDE DEF IInv
  <2>6. replied' \in [Conns -> Int]
    BY <2>2 DEF IInv, TypeOK
  <2> QED
    BY <1>1, <2>2, <2>4, <2>5, <2>6, BytesIInv DEF Serving
<1>8. CASE ReadEnd(p)
  <2>1. /\ pc[p] = "read" /\ sc[p] # NoConn /\ link[sc[p]] # "up"
        /\ pc' = [pc EXCEPT ![p] = "accept"] /\ Unchanged
        /\ UNCHANGED <<sc, inq, link, replied>> /\ size' = [size EXCEPT ![p] = 0]
        /\ fds' = [fds EXCEPT ![p] = FdsAfterService(p)]
    BY <1>8 DEF ReadEnd, netVars, cliVars, Unchanged
  <2>2. \/ fds' = [fds EXCEPT ![p] = @ \ {sc[p]}]
        \/ UNCHANGED fds /\ ~prog.closesConn
    BY <2>1 DEF FdsAfterService, TypeOK
  <2>3. sc[p] \in Conns
    BY <2>1 DEF TypeOK
  <2>4. size' \in [Procs -> Int] /\ \A q \in Procs \ {p} : size'[q] = size[q]
    BY <2>1 DEF TypeOK
  <2> QED
    BY <1>1, <2>1, <2>2, <2>3, <2>4, LeaveIInv DEF Serving
<1>9. CASE ReadError(p) \/ ReplyLost(p)
  <2>1. /\ pc[p] \in {"read", "write"} /\ Unchanged /\ UNCHANGED <<fds, sc, inq, replied>>
        /\ \E x \in {"read", "write"} : pc' = [pc EXCEPT ![p] = x]
        /\ size' = size \/ size' = [size EXCEPT ![p] = -1]
    BY <1>9 DEF ReadError, ReplyLost, cliVars, Unchanged
  <2>2. \/ sc[p] = NoConn /\ UNCHANGED link
        \/ /\ sc[p] # NoConn
           /\ \E l \in {"half", "broken"} : link' = [link EXCEPT ![sc[p]] = l]
    BY <1>9 DEF ReadError, ReplyLost
  <2>3. size' \in [Procs -> Int] /\ \A q \in Procs \ {p} : size'[q] = size[q]
    BY <2>1 DEF TypeOK
  <2>4. /\ link' \in [Conns -> {"up", "fin", "rst", "half", "broken"}]
        /\ \A c \in Conns : link'[c] = "up" => link[c] = "up"
        /\ sc[p] = NoConn \/ link'[sc[p]] # "up"
    <3>1. CASE sc[p] = NoConn /\ UNCHANGED link
      BY <3>1 DEF TypeOK
    <3>2. ASSUME NEW l \in {"half", "broken"}, sc[p] \in Conns, link' = [link EXCEPT ![sc[p]] = l]
          PROVE  /\ link' \in [Conns -> {"up", "fin", "rst", "half", "broken"}]
                 /\ \A c \in Conns : link'[c] = "up" => link[c] = "up"
                 /\ link'[sc[p]] # "up"
      BY <3>2 DEF TypeOK
    <3> QED
      BY <2>2, <3>1, <3>2 DEF TypeOK
  <2> QED
    BY <1>1, <2>1, <2>3, <2>4, ControlIInv DEF Active, Serving
<1>10. CASE Reply(p)
  <2>1. /\ pc[p] = "write" /\ sc[p] # NoConn /\ pc' = [pc EXCEPT ![p] = "read"] /\ Unchanged
        /\ UNCHANGED <<fds, sc, link, inq, size>>
        /\ replied' = [replied EXCEPT ![sc[p]] = @ + size[p]]
    BY <1>10 DEF Reply, Unchanged
  <2>2. sc[p] \in Conns /\ inq[sc[p]] \in Int /\ replied[sc[p]] \in Int /\ size[p] \in Int
    BY <2>1 DEF TypeOK
  <2>3. /\ replied' \in [Conns -> Int] /\ replied'[sc[p]] = replied[sc[p]] + size[p]
        /\ \A c \in Conns \ {sc[p]} : replied'[c] = replied[c]
    BY <2>1, <2>2 DEF TypeOK
  <2>4. inq'[sc[p]] + replied'[sc[p]] + 0 = inq[sc[p]] + replied[sc[p]] + size[p]
    BY <2>1, <2>2, <2>3
  <2>5. size' \in [Procs -> Int] /\ inq' \in [Conns -> Int]
    BY <2>1 DEF TypeOK
  <2> HIDE DEF IInv
  <2> QED
    BY <1>1, <2>1, <2>3, <2>4, <2>5, BytesIInv DEF Serving
<1>11. CASE BrokenPipe(p)
  BY <1>1, <1>11, EndIInv DEF BrokenPipe, Serving
<1> QED
  BY <1>2, <1>3, <1>4, <1>5, <1>6, <1>7, <1>8, <1>9, <1>10, <1>11 DEF Process

-----------------------------------------------------------------------------
(* The steps of a client. *)

LEMMA ConnectIInv == ASSUME IInv, NEW c \in Conns, Connect(c) PROVE IInv'
<1> USE DEF IInv
<1>1. /\ cli[c] = "new" /\ cli' = [cli EXCEPT ![c] = "idle"] /\ backlog' = Append(backlog, c)
      /\ UNCHANGED <<prog, pc, fds, sc, size, link, inq, asked, replied>>
  BY DEF Connect, procVars
<1>2. /\ backlog' \in Seq(Conns)
      /\ \A i, j \in DOMAIN backlog' : backlog'[i] = backlog'[j] => i = j
      /\ \A d \in Conns : Pending(d)' <=> Pending(d) \/ d = c
  BY <1>1, ConnectBacklog DEF BacklogInv
<1>3. cli'[c] = "idle" /\ \A d \in Conns \ {c} : cli'[d] = cli[d]
  BY <1>1 DEF TypeOK
<1>4. TypeOK' /\ RootInv'
  BY <1>1, <1>2 DEF TypeOK, RootInv
<1>5. BacklogInv'
  BY <1>2, <1>3 DEF BacklogInv
<1>6. ReaderInv'
  <2>1. \A p \in Procs : sc[p] \in Conns \cup {NoConn}
    BY DEF TypeOK
  <2> QED
    BY <1>1, <1>2, <1>3, <2>1 DEF ReaderInv, Active
<1>7. NoDescriptorLeak' /\ HolderInv'
  BY <1>1 DEF NoDescriptorLeak, HolderInv, Active
<1>8. BytesInv'
  BY <1>1, <1>2, <1>3 DEF BytesInv, Active
<1> QED
  BY <1>4, <1>5, <1>6, <1>7, <1>8

\* A client that has connected acts; what it sends while nobody has the connection
\* is dropped.
LEMMA ClientIInv ==
  ASSUME IInv, NEW c \in Conns, cli[c] # "new", NEW x \in {"idle", "wait", "gone"},
         cli' = [cli EXCEPT ![c] = x], UNCHANGED <<procVars, backlog, replied>>,
         UNCHANGED link \/ (\E l \in {"fin", "rst"} : link' = [link EXCEPT ![c] = l]),
         NEW n \in Int, (n = 0 /\ asked' = asked) \/ asked' = [asked EXCEPT ![c] = @ + n],
         \/ inq' = [inq EXCEPT ![c] = @ + n]
         \/ inq' = inq /\ (n = 0 \/ ClosedByServer(c))
  PROVE  IInv'
<1> USE DEF IInv
<1>1. cli'[c] # "new" /\ \A d \in Conns \ {c} : cli'[d] = cli[d]
  BY DEF TypeOK
<1>2. \A d \in Conns : link'[d] = "up" => link[d] = "up"
  BY DEF TypeOK
<1>3. \A d \in Conns : Pending(d)' <=> Pending(d)
  BY DEF Pending
<1>4. asked[c] \in Int /\ inq[c] \in Int /\ replied[c] \in Int
  BY DEF TypeOK
<1>5. asked'[c] = asked[c] + n /\ \A d \in Conns \ {c} : asked'[d] = asked[d] /\ inq'[d] = inq[d]
  BY <1>4 DEF TypeOK
<1>6. inq'[c] = inq[c] + n \/ ClosedByServer(c)
  BY <1>4 DEF TypeOK
<1>7. TypeOK' /\ RootInv'
  <2>1. cli' \in [Conns -> {"new", "idle", "wait", "gone"}]
    BY DEF TypeOK
  <2>2. link' \in [Conns -> {"up", "fin", "rst", "half", "broken"}]
    BY DEF TypeOK
  <2>3. asked' \in [Conns -> Int] /\ inq' \in [Conns -> Int]
    BY <1>4 DEF TypeOK
  <2> QED
    BY <2>1, <2>2, <2>3 DEF TypeOK, RootInv, procVars
<1>8. BacklogInv'
  BY <1>1, <1>3 DEF BacklogInv
<1>9. ReaderInv'
  <2>1. \A p \in Procs : sc[p] \in Conns \cup {NoConn}
    BY DEF TypeOK
  <2> QED
    BY <1>1, <1>3, <2>1 DEF ReaderInv, Active, procVars
<1>10. NoDescriptorLeak'
  BY DEF NoDescriptorLeak, procVars
<1>11. HolderInv'
  BY <1>2 DEF HolderInv, TypeOK, Active, procVars
<1>12. BytesInv'
  <2>1. ClosedByServer(c) => ~Pending(c) /\ \A p \in Procs : ~(Active(p) /\ sc[p] = c)
    BY ServerAssumption DEF ClosedByServer, Holders, ReaderInv
  <2>2. ASSUME NEW p \in Procs, NEW d \in Conns, link'[d] = "up", Active(p), sc[p] = d
        PROVE  asked'[d] = inq'[d] + replied[d] + (IF pc[p] = "write" THEN size[p] ELSE 0)
    <3>1. asked[d] = inq[d] + replied[d] + (IF pc[p] = "write" THEN size[p] ELSE 0)
      BY <1>2, <2>2 DEF BytesInv
    <3>2. size[p] \in Int
      BY DEF TypeOK
    <3>3. CASE d = c
      BY <3>1, <3>2, <3>3, <2>1, <2>2, <1>4, <1>5, <1>6
    <3>4. CASE d # c
      BY <3>1, <3>4, <1>5
    <3> QED
      BY <3>3, <3>4
  <2>3. ASSUME NEW d \in Conns, Pending(d), link'[d] = "up"
        PROVE  asked'[d] = inq'[d] + replied[d]
    <3>1. asked[d] = inq[d] + replied[d]
      BY <1>2, <2>3 DEF BytesInv
    <3>2. CASE d = c
      BY <3>1, <3>2, <2>1, <2>3, <1>4, <1>5, <1>6
    <3> QED
      BY <3>1, <3>2, <1>5
  <2>4. \A d \in Conns : cli'[d] = "new" => asked'[d] = inq'[d] + replied[d]
    BY <1>1, <1>5 DEF BytesInv
  <2>5. \A p \in Procs : Active(p)' <=> Active(p)
    BY DEF Active, procVars
  <2> QED
    BY <1>3, <2>2, <2>3, <2>4, <2>5 DEF BytesInv, procVars
<1> QED
  BY <1>7, <1>8, <1>9, <1>10, <1>11, <1>12

LEMMA NextIInv == IInv /\ [Next]_vars => IInv'
<1> SUFFICES ASSUME IInv, [Next]_vars PROVE IInv'
  OBVIOUS
<1>1. ASSUME NEW p \in Procs, Kill(p) PROVE IInv'
  BY <1>1, EndIInv DEF Kill
<1>2. ASSUME NEW c \in Conns, NEW n \in MsgLens, Send(c, n) PROVE IInv'
  <2>1. /\ cli[c] = "idle" /\ cli' = [cli EXCEPT ![c] = "wait"]
        /\ UNCHANGED <<procVars, backlog, link, replied>>
        /\ asked' = [asked EXCEPT ![c] = @ + n]
        /\ inq' = [inq EXCEPT ![c] = @ + n] \/ (inq' = inq /\ ClosedByServer(c))
    BY <1>2 DEF Send
  <2>2. n \in Int
    BY ServerAssumption
  <2> QED
    BY <2>1, <2>2, ClientIInv
<1>3. ASSUME NEW c \in Conns, Receive(c) \/ Leave(c) PROVE IInv'
  <2>1. PICK x \in {"idle", "wait", "gone"} : cli' = [cli EXCEPT ![c] = x]
    BY <1>3 DEF Receive, Leave, Close
  <2>2. /\ cli[c] # "new" /\ UNCHANGED <<procVars, backlog, inq, replied, asked>>
        /\ UNCHANGED link \/ \E l \in {"fin", "rst"} : link' = [link EXCEPT ![c] = l]
    BY <1>3 DEF Receive, Leave, Close
  <2>3. 0 \in Int /\ asked' = asked /\ inq' = inq
    BY <2>2
  <2> QED
    BY <2>1, <2>2, <2>3, ClientIInv
<1>4. CASE UNCHANGED vars
  BY <1>4 DEF vars, procVars, netVars, cliVars, IInv, TypeOK, RootInv, BacklogInv, Pending,
     ReaderInv, Active, NoDescriptorLeak, HolderInv, BytesInv
<1> QED
  BY <1>1, <1>2, <1>3, <1>4, ProcessIInv, AcceptFailIInv, ConnectIInv DEF Next

LEMMA Invariant == Spec => []IInv
  BY InitIInv, NextIInv, PTL DEF Spec

-----------------------------------------------------------------------------

\* A connection that is served has one reader, for which it is open: whatever
\* processes fork, and in whatever order, no two take a client's bytes.
THEOREM OneReaderEach == Spec => []OneReader
<1>1. IInv => OneReader
  BY DEF IInv, ReaderInv, Active, OneReader
<1> QED
  BY <1>1, Invariant, PTL

\* The process that listens, and in 34 every process, holds no descriptor but the
\* one of the connection it serves, however many clients come and go.
THEOREM NoLeak == Spec => []NoDescriptorLeak
<1>1. IInv => NoDescriptorLeak
  BY DEF IInv
<1> QED
  BY <1>1, Invariant, PTL

\* However TCP cuts the messages, every byte a client has sent on a connection that
\* is served waits to be read, is in one process's hands or was reported once.
THEOREM BytesOnce == Spec => []BytesReportedOnce
<1>1. IInv => BytesReportedOnce
  <2> SUFFICES ASSUME IInv, NEW c \in Conns, link[c] = "up",
                      Pending(c) \/ \E p \in Holders(c) : Active(p)
               PROVE  asked[c] = inq[c] + replied[c]
                                 + (IF InHand(c) = {} THEN 0
                                    ELSE size[CHOOSE p \in InHand(c) : TRUE])
    BY DEF BytesReportedOnce, Active
  <2> USE DEF IInv
  <2>1. c # NoConn /\ inq[c] \in Int /\ replied[c] \in Int
    BY ServerAssumption DEF TypeOK
  <2>2. CASE Pending(c)
    <3>1. InHand(c) = {}
      BY <2>1, <2>2 DEF InHand, ReaderInv, Active, Serving
    <3> QED
      BY <2>1, <2>2, <3>1 DEF BytesInv
  <2>3. ASSUME NEW p \in Procs, c \in fds[p], Active(p)
        PROVE  asked[c] = inq[c] + replied[c]
                          + (IF InHand(c) = {} THEN 0
                             ELSE size[CHOOSE q \in InHand(c) : TRUE])
    <3>1. sc[p] = c
      BY <2>3 DEF HolderInv
    <3>2. InHand(c) = IF pc[p] = "write" THEN {p} ELSE {}
      BY <2>1, <2>3, <3>1 DEF InHand, ReaderInv, Active, Serving
    <3>3. asked[c] = inq[c] + replied[c] + (IF pc[p] = "write" THEN size[p] ELSE 0)
      BY <2>3, <3>1 DEF BytesInv
    <3> QED
      BY <3>2, <3>3
  <2> QED
    BY <2>2, <2>3 DEF Holders
<1> QED
  BY <1>1, Invariant, PTL
=============================================================================
