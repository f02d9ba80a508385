--------------------------- MODULE LinkListProps ----------------------------
(***************************************************************************)
(* What 05-link_list1.c guarantees.                                        *)
(***************************************************************************)
EXTENDS LinkList, SequencesExt

Pointers == Nodes \cup {Null}

\* The nodes the next step of a loop dereferences.
Dereferenced ==
  CASE pc = "read" -> {q} \ {Null}
    [] pc = "pur" -> {p} \ {Null}
    [] pc = "inner" -> {p, q} \cup ({next[q]} \ {Null})
    [] pc = "revers" -> {L} \cup ({p} \ {Null})
    [] pc = "destroy" -> {L} \ {Null}
    [] OTHER -> {}

Reached(n) == {Path(n)[i] : i \in DOMAIN Path(n)}

\* No step reads or writes a node that was freed or never allocated, or frees
\* one twice; and the list an operation leaves consists of allocated nodes.
MemorySafe ==
  /\ Dereferenced \subseteq live
  /\ (pc = "ready" => Reached(L) \subseteq live)

\* Every allocated node can still be reached, even in the middle of an
\* operation; when the list is destroyed, nothing is left.
NoNodeLost ==
  /\ (pc \in {"front", "read", "ready", "pur", "inner", "destroy"} => live \subseteq Reached(L))
  /\ (pc = "revers" => live \subseteq Reached(L) \cup Reached(p))
  /\ (pc = "done" => live = {})

-----------------------------------------------------------------------------
(* The list as a sequence. *)

\* The values of the list; a header holds none.
Contents == Values(Path(IF header THEN next[L] ELSE L))

\* Every value where it first occurs.
Distinct(s) ==
  FoldLeft(LAMBDA t, x : IF Contains(t, x) THEN t ELSE Append(t, x), <<>>, s)

\* The sequence the list stands for; a loop that is under way has taken effect.
Items ==
  CASE pc = "read" -> LET s == Path(L)
                          n == IF L = Null THEN 0 ELSE CHOOSE i \in DOMAIN s : s[i] = q
                      IN  Values(SubSeq(s, IF header THEN 2 ELSE 1, n))
    [] pc \in {"front", "ready"} -> Contents
    [] pc \in {"pur", "inner"} -> Distinct(Contents)
    [] pc = "revers" -> Reverse(Values(Path(p))) \o Contents
    [] OTHER -> <<>>

\* Length, Scan and Locate agree with the sequence, but for a header whose value,
\* which nobody has set, is the one that is looked for; and what Scan prints of a
\* list without header lacks the first value.
QueriesRight ==
  /\ Len(Items) = IF header THEN Length_LinkList1 ELSE Length_LinkList2
  /\ L # Null => Scan_Link_list = IF header THEN Items ELSE Tail(Items)
  /\ \A x \in Data :
       \/ header /\ Locate(x) = L /\ data[L] = x
       \/ Locate(x) = Null /\ ~Contains(Items, x)
       \/ Locate(x) # Null /\ data[Locate(x)] = x /\ Contains(Items, x)

\* Every operation does to the sequence what its name says: values are read in
\* order or in reverse, Insert_LinkList and Delete_LinkList change the i-th position or, out
\* of range, nothing, pur_LinkList leaves the first occurrences and revers the
\* reverse, and no step inside a loop adds, drops or reorders anything else.
Promise ==
  /\ pc = "ready" => QueriesRight
  /\ \A x \in Data : ReadFront(x) => Items' = <<x>> \o Items
  /\ \A x \in Data : ReadItem(x) => Items' = Append(Items, x)
  /\ \A i \in 0 .. Cardinality(Nodes), x \in Data :
       Insert(i, x) => Items' = IF i \in 1 .. Len(Items) + 1
                                THEN InsertAt(Items, i, x) ELSE Items
  /\ \A i \in 0 .. Cardinality(Nodes) :
       Delete(i) => Items' = IF i \in DOMAIN Items THEN RemoveAt(Items, i) ELSE Items
  /\ Pur => Items' = Distinct(Items)
  /\ Revers => Items' = Reverse(Items)
  /\ ReadFrontEnd \/ ReadEnd \/ Loops => Items' = Items
KeepsPromise == [][Promise]_vars

-----------------------------------------------------------------------------

\* What a loop has still to do: nodes to look at, for pur_LinkList those that p
\* and then q have before them.
Work ==
  LET N == Cardinality(Nodes) IN
  CASE pc = "pur" -> (N + 3) * Len(Path(p)) + N + 2
    [] pc = "inner" -> (N + 3) * Len(Path(p)) + Len(Path(q))
    [] pc = "revers" -> Len(Path(p)) + 1
    [] pc = "destroy" -> Len(Path(L)) + 1
    [] OTHER -> 0

\* Every loop ends, for each iteration leaves less to do, whatever it has
\* removed or moved; also the inner loop of pur_LinkList, which shortens the
\* list that the outer one walks.
LoopsAdvance == [][Loops => Work' < Work]_vars
=============================================================================
