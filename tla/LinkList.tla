------------------------------ MODULE LinkList ------------------------------
(***************************************************************************)
(* 05-link_list1.c: a singly linked list on a heap that malloc and free    *)
(* manage.  A fresh node holds whatever its memory held.  Create_LinkList3 *)
(* makes a list with a header node, which most operations expect, the two  *)
(* other functions one without.  The loops that read values and those of   *)
(* pur_LinkList, revers and Destroy_LinkList take one step per iteration;  *)
(* the other operations only walk the list before they change it, and are  *)
(* one step.                                                               *)
(***************************************************************************)
EXTENDS Integers, Sequences, FiniteSets

CONSTANTS
  Nodes,      \* addresses malloc can return; bounds the length of the list
  Null,
  Data,       \* values of i_data
  MaxCalls    \* bound: operations on the list between its creation and its end

ASSUME ListAssumption ==
  /\ IsFiniteSet(Nodes) /\ Null \notin Nodes
  /\ Data # {} /\ MaxCalls \in Nat

VARIABLES
  live,          \* allocated nodes
  data, next,    \* the two members of every node
  L,             \* the list: its first node, or NULL
  header,        \* the first node is a header
  pc,
  p, q,          \* the local pointers of the loops (R is q)
  calls

vars == <<live, data, next, L, header, pc, p, q, calls>>

Init ==
  /\ live = {}
  /\ data \in [Nodes -> Data]
  /\ next = [n \in Nodes |-> Null]
  /\ L = Null /\ header = FALSE /\ pc = "create" /\ p = Null /\ q = Null /\ calls = 0

\* The nodes from n on, by following next.  A garbage pointer may run in
\* circles: at most one node more than there are is followed.
Path(n) ==
  LET nth[i \in 0 .. Cardinality(Nodes)] ==
        IF i = 0 THEN n
        ELSE IF nth[i - 1] = Null THEN Null ELSE next[nth[i - 1]]
      end == {i \in DOMAIN nth : nth[i] = Null}
      len == IF end = {} THEN Cardinality(Nodes) + 1
             ELSE CHOOSE i \in end : \A j \in end : i <= j
  IN  [i \in 1 .. len |-> nth[i - 1]]

Values(s) == [i \in DOMAIN s |-> data[s[i]]]

\* malloc: some free node, whose next is not initialised.
Malloc(n, x, nx) ==
  /\ n \in Nodes \ live
  /\ live' = live \cup {n}
  /\ data' = [data EXCEPT ![n] = x]
  /\ next' = nx

-----------------------------------------------------------------------------
(* The three functions that create a list from the values read. *)

Create_LinkList ==
  /\ pc = "create" /\ pc' = "front"
  /\ UNCHANGED <<live, data, next, L, header, p, q, calls>>

\* The values are put in front of each other.
ReadFront(x) ==
  /\ pc = "front"
  /\ \E n \in Nodes : Malloc(n, x, [next EXCEPT ![n] = L]) /\ L' = n
  /\ UNCHANGED <<header, pc, p, q, calls>>

ReadFrontEnd ==
  /\ pc = "front" /\ pc' = "ready"
  /\ UNCHANGED <<live, data, next, L, header, p, q, calls>>

Create_LinkList2 ==
  /\ pc = "create" /\ pc' = "read"
  /\ UNCHANGED <<live, data, next, L, header, p, q, calls>>

\* The header's value is not initialised either.
Create_LinkList3 ==
  /\ pc = "create"
  /\ \E n \in Nodes, x \in Data : Malloc(n, x, [next EXCEPT ![n] = Null]) /\ L' = n /\ q' = n
  /\ header' = TRUE
  /\ pc' = "read"
  /\ UNCHANGED <<p, calls>>

\* Another value behind the last: a node whose next stays uninitialised until
\* the next step.  Only a list without header is empty before.
ReadItem(x) ==
  /\ pc = "read"
  /\ \E n \in Nodes, g \in Nodes \cup {Null} :
       /\ IF L = Null
          THEN Malloc(n, x, [next EXCEPT ![n] = g]) /\ L' = n
          ELSE Malloc(n, x, [next EXCEPT ![q] = n, ![n] = g]) /\ UNCHANGED L
       /\ q' = n
  /\ UNCHANGED <<header, pc, p, calls>>

\* 99: the list is closed.
LastKept(n) == next[n]
LastNext(n) == Null

ReadEnd ==
  /\ pc = "read"
  /\ next' = IF q = Null THEN next ELSE [next EXCEPT ![q] = LastNext(q)]
  /\ pc' = "ready"
  /\ UNCHANGED <<live, data, L, header, p, q, calls>>

-----------------------------------------------------------------------------
(* Operations of one step. *)

Call == pc = "ready" /\ header /\ calls < MaxCalls /\ calls' = calls + 1

\* Get_LinkList(L, i): the i-th node, counting the header as 0th; NULL if none.
Get(i) == LET s == Path(L) IN IF i \in 0 .. Len(s) - 1 THEN s[i + 1] ELSE Null

\* The node that the i-th one follows.
Before(i) == Get(i - 1)

\* Locate_LinkList(L, x): the first node with that value, the header being one.
Locate(x) ==
  LET s == Path(L)
      at == {i \in DOMAIN s : data[s[i]] = x}
  IN  IF at = {} THEN Null ELSE s[CHOOSE i \in at : \A j \in at : i <= j]

\* Length_LinkList1 does not count the first node, Length_LinkList2 does.
HeaderCounted == Len(Path(L))
Length_LinkList1 == Len(Path(L)) - 1
Length_LinkList2 == Len(Path(L))

\* Scan_Link_list(L), of a list that has a node: it prints neither a header's value
\* nor, where there is no header, the first one.
ScanAll == Values(Path(L))
Scan_Link_list == Values(Path(next[L]))

Insert(i, x) ==
  /\ Call
  /\ LET at == Before(i) IN
       IF at = Null
       THEN UNCHANGED <<live, data, next>>
       ELSE \E n \in Nodes : Malloc(n, x, [next EXCEPT ![n] = next[at], ![at] = n])
  /\ UNCHANGED <<L, header, pc, p, q>>

Delete(i) ==
  /\ Call
  /\ LET at == Before(i) IN
       IF at = Null \/ next[at] = Null
       THEN UNCHANGED <<live, next>>
       ELSE /\ live' = live \ {next[at]}
            /\ next' = [next EXCEPT ![at] = next[next[at]]]
  /\ UNCHANGED <<data, L, header, pc, p, q>>

-----------------------------------------------------------------------------
(* pur_LinkList: removes the later occurrences of every value. *)

Pur ==
  /\ Call
  /\ pc' = "pur" /\ p' = next[L]
  /\ UNCHANGED <<live, data, next, L, header, q>>

PurOuter ==
  /\ pc = "pur"
  /\ IF p # Null /\ next[p] # Null
     THEN pc' = "inner" /\ q' = p
     ELSE pc' = "ready" /\ UNCHANGED q
  /\ UNCHANGED <<live, data, next, L, header, p, calls>>

\* After a removal q stays, to look at the node that follows now.
QMovesOn == IF next[next[q]] = Null THEN q ELSE next[next[q]]
QAfterRemoval == q

PurInner ==
  /\ pc = "inner"
  /\ \/ /\ next[q] = Null
        /\ p' = next[p] /\ pc' = "pur"
        /\ UNCHANGED <<live, next, q>>
     \/ /\ next[q] # Null /\ data[next[q]] = data[p]
        /\ next' = [next EXCEPT ![q] = next[next[q]]]
        /\ live' = live \ {next[q]}
        /\ q' = QAfterRemoval
        /\ UNCHANGED <<p, pc>>
     \/ /\ next[q] # Null /\ data[next[q]] # data[p]
        /\ q' = next[q]
        /\ UNCHANGED <<live, next, p, pc>>
  /\ UNCHANGED <<data, L, header, calls>>

-----------------------------------------------------------------------------
(* revers: moves the nodes, one by one, to the front of an emptied list. *)

Revers ==
  /\ Call
  /\ pc' = "revers" /\ p' = next[L]
  /\ next' = [next EXCEPT ![L] = Null]
  /\ UNCHANGED <<live, data, L, header, q>>

ReversStep ==
  /\ pc = "revers"
  /\ IF p = Null
     THEN pc' = "ready" /\ UNCHANGED <<next, p, q>>
     ELSE /\ q' = p
          /\ p' = next[p]
          /\ next' = [next EXCEPT ![p] = next[L], ![L] = p]
          /\ UNCHANGED pc
  /\ UNCHANGED <<live, data, L, header, calls>>

-----------------------------------------------------------------------------
(* Destroy_LinkList. *)

Destroy ==
  /\ pc = "ready"
  /\ pc' = "destroy"
  /\ UNCHANGED <<live, data, next, L, header, p, q, calls>>

HeadAlone == Null
HeadKept == L
NextHead == next[L]

DestroyStep ==
  /\ pc = "destroy"
  /\ IF L = Null
     THEN pc' = "done" /\ UNCHANGED <<live, L, p>>
     ELSE /\ p' = L /\ L' = NextHead /\ live' = live \ {L}
          /\ UNCHANGED pc
  /\ UNCHANGED <<data, next, header, q, calls>>

-----------------------------------------------------------------------------

Loops == PurOuter \/ PurInner \/ ReversStep \/ DestroyStep

Next ==
  \/ Create_LinkList \/ Create_LinkList2 \/ Create_LinkList3
  \/ ReadFrontEnd \/ ReadEnd \/ (\E x \in Data : ReadFront(x) \/ ReadItem(x))
  \/ (\E i \in 0 .. Cardinality(Nodes), x \in Data : Insert(i, x))
  \/ (\E i \in 0 .. Cardinality(Nodes) : Delete(i))
  \/ Pur \/ Revers \/ Destroy \/ Loops

Spec == Init /\ [][Next]_vars
=============================================================================
